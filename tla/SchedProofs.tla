---------------------------- MODULE SchedProofs ----------------------------
(***************************************************************************)
(* The inductive invariant of module Sched and the safety properties it    *)
(* gives, for any number of CPUs and processes.                            *)
(***************************************************************************)
EXTENDS Sched, TLAPS

\* Where a process is that swtch() has left, or has just come back to.
SavedPC == {"forkret", "yielded", "woken"}

\* On the way into sched(), with p->lock.
SchedPC == {"yield_sched", "sleep_sched"}

\* With the spin lock of the sleep lock.
LkPC == {"test", "take", "sleep", "sleep_set", "wakeup"}

\* Without any spin lock, so that the timer can interrupt.
OpenPC == {"run", "held", "reacquire"}

Off(p) == \A c \in CPUs : thread[c] # p

\* Who executes what.
Threads ==
  /\ \A c \in CPUs : thread[c] # NoProc =>
       /\ proc[c] = thread[c] /\ sp[c] = thread[c] /\ spc[c] = "back"
       /\ state[thread[c]] = IF pc[thread[c]] = "yield_sched" THEN "RUNNABLE"
                             ELSE IF pc[thread[c]] = "sleep_sched" THEN "SLEEPING" ELSE "RUNNING"
  /\ \A c, d \in CPUs : thread[c] # NoProc /\ thread[c] = thread[d] => c = d
  /\ \A p \in Procs : Off(p) => pc[p] \in SavedPC /\ state[p] # "RUNNING"

\* Who has the spin locks: p->lock passes from a thread to a scheduler and back.
Scans(c, p) == thread[c] = NoProc /\ sp[c] = p /\ spc[c] \in {"test", "back"}
Switches(c, p) == thread[c] = p /\ pc[p] \in SavedPC \union SchedPC \union {"sleep_set"}

Locks ==
  /\ \A c \in CPUs, p \in Procs : plock[p] = c <=> Scans(c, p) \/ Switches(c, p)
  /\ \A c \in CPUs : lk = c <=> thread[c] # NoProc /\ pc[thread[c]] \in LkPC

\* SIE, noff and intena of a CPU in scheduler(), and of one that runs a thread.
IdleIrq(r, l, f) ==
  /\ r.noff = IF l \in {"test", "back"} THEN 1 ELSE 0
  /\ l # "outer" /\ r.intr = 1 => l = "acquire" /\ f = 1
  /\ l = "test" /\ r.intena = 1 => f = 1

ThreadIrq(r, l) ==
  /\ r.intr = IF l \in OpenPC THEN 1 ELSE 0
  /\ r.noff = IF l \in OpenPC THEN 0 ELSE IF l = "sleep_set" THEN 2 ELSE 1
  /\ l \in LkPC \union {"sleep_sched"} => r.intena = 1

Interrupts ==
  \A c \in CPUs : IF thread[c] = NoProc THEN IdleIrq(irq[c], spc[c], found[c])
                  ELSE ThreadIrq(irq[c], pc[thread[c]])

\* What a thread has put away until it is switched to again.
Saved ==
  \A p \in Procs : /\ pc[p] = "woken" => intena[p] = 1
                   /\ pc[p] \in {"yield_sched", "yielded"} => ret[p] \in OpenPC

Sleepers ==
  \A p \in Procs : /\ chan[p] = 1 <=> pc[p] \in {"sleep_sched", "woken"}
                   /\ state[p] = "SLEEPING" => pc[p] \in {"sleep_sched", "woken"}
                   /\ pc[p] \in {"sleep", "sleep_set"} => locked = 1
                   /\ pc[p] # "wakeup" => loop[p] = 1

(***************************************************************************)
(* OneCPUPerThread and IntrFollowsThread are not inductive: they need to   *)
(* know who has p->lock and lk->lk at every place in the code, and that    *)
(* what sched() and yield() put away is what the thread will need.         *)
(***************************************************************************)
IInv ==
  /\ TypeOK /\ panicked = 0
  /\ Threads /\ Locks /\ Interrupts /\ Saved /\ Sleepers /\ NoLostWakeup

-----------------------------------------------------------------------------
\* push_off() on a CPU that holds one spin lock or none.
LEMMA PushIs ==
  ASSUME NEW s \in Irq, s.noff < 2
  PROVE  /\ Push(s) \in Irq /\ Push(s).intr = 0 /\ Push(s).noff = s.noff + 1
         /\ Push(s).intena = IF s.noff = 0 THEN s.intr ELSE s.intena
  BY DEF Irq, Push

\* pop_off() on a CPU that holds a spin lock.
LEMMA PopIs ==
  ASSUME NEW s \in Irq, s.noff > 0
  PROVE  /\ Pop(s) \in Irq /\ Pop(s).noff = s.noff - 1 /\ Pop(s).intena = s.intena
         /\ Pop(s).intr = IF s.noff = 1 /\ s.intena = 1 THEN 1 ELSE s.intr
  BY DEF Irq, Pop

\* intr_on() and intr_off() change nothing but SIE.
LEMMA IntrIs ==
  ASSUME NEW s \in Irq
  PROVE  /\ IntrOn(s) \in Irq /\ IntrOn(s).intr = 1 /\ IntrOn(s).noff = s.noff
         /\ IntrOff(s) \in Irq /\ IntrOff(s).intr = 0 /\ IntrOff(s).noff = s.noff
         /\ IntrOff(s).intena = s.intena
  BY ZenonT(60) DEF Irq, IntrOn, IntrOff

\* The end of sched() and of its caller, with the intena that sched() has saved.
LEMMA ResumeIs ==
  ASSUME NEW c \in CPUs, NEW p \in Procs, irq[c] \in Irq, irq[c].noff = 1, intena[p] \in {0, 1}
  PROVE  /\ ResumeIrq(c, p) \in Irq /\ ResumeIrq(c, p).noff = 0
         /\ intena[p] = 1 => ResumeIrq(c, p).intr = 1
<1> DEFINE s == [irq[c] EXCEPT !.intena = intena[p]]
<1>1. s \in Irq /\ s.noff = 1 /\ s.intena = intena[p]
  BY ZenonT(60) DEF Irq
<1> HIDE DEF s
<1>2. Pop(s) \in Irq /\ Pop(s).noff = 0 /\ (intena[p] = 1 => Pop(s).intr = 1)
  BY <1>1, PopIs
<1> QED
  BY <1>2, ZenonT(60) DEF s, ResumeIrq

\* A thread that executes on one CPU executes on no other.
LEMMA Elsewhere ==
  ASSUME IInv, NEW c \in CPUs, thread[c] # NoProc, NEW d \in CPUs, d # c
  PROVE  thread[d] # thread[c]
  BY ZenonT(60) DEF IInv, Threads

\* A step of one CPU leaves the interrupts of the others alone.
LEMMA IrqFrame ==
  ASSUME IInv, NEW c \in CPUs, NEW r \in Irq, irq' = [irq EXCEPT ![c] = r],
         \A d \in CPUs \ {c} : thread'[d] = thread[d] /\ spc'[d] = spc[d] /\ found'[d] = found[d],
         \A q \in Procs : q # thread[c] => pc'[q] = pc[q],
         IF thread'[c] = NoProc THEN IdleIrq(r, spc'[c], found'[c]) ELSE ThreadIrq(r, pc'[thread'[c]])
  PROVE  irq' \in [CPUs -> Irq] /\ Interrupts'
<1>0. irq \in [CPUs -> Irq] /\ thread \in [CPUs -> Procs \union {NoProc}] /\ Interrupts
  BY ZenonT(60) DEF IInv, TypeOK
<1>1. irq' \in [CPUs -> Irq] /\ irq'[c] = r /\ \A d \in CPUs \ {c} : irq'[d] = irq[d]
  BY <1>0, ZenonT(60)
<1>2. ASSUME NEW d \in CPUs \ {c}
      PROVE  IF thread'[d] = NoProc THEN IdleIrq(irq'[d], spc'[d], found'[d])
             ELSE ThreadIrq(irq'[d], pc'[thread'[d]])
  <2>1. CASE thread[d] = NoProc
    BY <1>0, <1>1, <2>1, ZenonT(60) DEF Interrupts
  <2>2. CASE thread[d] # NoProc
    <3>1. thread[d] \in Procs /\ thread[d] # thread[c]
      BY <1>0, <2>2, Elsewhere, ZenonT(60)
    <3> QED
      BY <1>0, <1>1, <2>2, <3>1 DEF Interrupts
  <2> QED
    BY <2>1, <2>2, ZenonT(60)
<1> QED
  BY <1>1, <1>2, ZenonT(60) DEF Interrupts

\* The same for a step of a thread that goes on executing.
LEMMA ThreadFrame ==
  ASSUME IInv, NEW c \in CPUs, NEW p \in Procs, thread[c] = p,
         UNCHANGED <<thread, spc, found>>, NEW l, pc' = [pc EXCEPT ![p] = l],
         NEW r \in Irq, irq' = [irq EXCEPT ![c] = r], ThreadIrq(r, l)
  PROVE  irq' \in [CPUs -> Irq] /\ Interrupts'
<1>1. pc \in [Procs -> PCs] /\ thread'[c] = p /\ p # NoProc
  BY DEF IInv, TypeOK, Procs, NoProc
<1>2. pc'[p] = l /\ \A q \in Procs : q # p => pc'[q] = pc[q]
  BY <1>1, ZenonT(60)
<1> QED
  BY <1>1, <1>2, IrqFrame, ZenonT(60)

IrqOK == irq \in [CPUs -> Irq] /\ Interrupts

\* A process that scheduler() may switch to under its lock executes nowhere.
LEMMA OnlyOffEligible ==
  ASSUME IInv, NEW c \in CPUs, thread[c] = NoProc, spc[c] = "test", Eligible(sp[c])
  PROVE  Off(sp[c]) /\ pc[sp[c]] \in SavedPC /\ sp[c] \in Procs
<1>0. sp[c] \in Procs /\ NoProc \notin Procs
  BY DEF IInv, TypeOK, Procs, NoProc
<1>1. plock[sp[c]] = c
  BY <1>0, ZenonT(60) DEF IInv, Locks, Scans
<1>2. ASSUME NEW d \in CPUs, thread[d] = sp[c] PROVE FALSE
  <2>1. pc[sp[c]] = "yield_sched"
    BY <1>0, <1>2 DEF IInv, Threads, Eligible
  <2>2. plock[sp[c]] = d
    BY <1>0, <1>2, <2>1, ZenonT(60) DEF IInv, Locks, Switches, SchedPC
  <2> QED
    BY <1>0, <1>1, <1>2, <2>2, ZenonT(60)
<1>3. Off(sp[c])
  BY <1>2, ZenonT(60) DEF Off
<1> QED
  BY <1>0, <1>3, ZenonT(60) DEF IInv, Threads

\* A step leaves every thread to one CPU, in the state that its place in the code says.
LEMMA ThreadsStep == IInv /\ Next => Threads'
<1> SUFFICES ASSUME IInv, Next PROVE Threads'
  OBVIOUS
<1>0. /\ Threads /\ Locks /\ Saved /\ Interrupts /\ NoProc \notin Procs
      /\ state \in [Procs -> {"RUNNABLE", "RUNNING", "SLEEPING"}] /\ pc \in [Procs -> PCs]
      /\ thread \in [CPUs -> Procs \union {NoProc}] /\ proc \in [CPUs -> Procs \union {NoProc}]
      /\ sp \in [CPUs -> Procs] /\ spc \in [CPUs -> {"outer", "acquire", "test", "back", "wfi"}]
      /\ ret \in [Procs -> PCs]
  BY DEF IInv, Procs, NoProc, TypeOK
<1> USE <1>0
<1> USE SchedAssumption DEF cpus, Threads, Off, Goto, SavedPC, SchedPC
<1>1. ASSUME NEW c \in CPUs, scheduler_outer(c) PROVE Threads'
  BY <1>1, SMTT(60) DEF scheduler_outer
<1>2. ASSUME NEW c \in CPUs, scheduler_acquire(c) PROVE Threads'
  BY <1>2, SMTT(60) DEF scheduler_acquire
<1>3. ASSUME NEW c \in CPUs, scheduler_swtch(c) PROVE Threads'
  BY <1>3, OnlyOffEligible, SMTT(60) DEF scheduler_swtch, Eligible
<1>4. ASSUME NEW c \in CPUs, scheduler_release(c) PROVE Threads'
  BY <1>4, SMTT(60) DEF scheduler_release
<1>5. ASSUME NEW c \in CPUs, wfi(c) PROVE Threads'
  BY <1>5, SMTT(60) DEF wfi
<1>6. ASSUME NEW c \in CPUs, NEW p \in Procs, yield_return(c, p) PROVE Threads'
  BY <1>6, SMTT(60) DEF yield_return, At, Saved, OpenPC
<1>7. ASSUME NEW c \in CPUs, NEW p \in Procs, forkret(c, p) PROVE Threads'
  BY <1>7, SMTT(60) DEF forkret, At
<1>8. ASSUME NEW c \in CPUs, NEW p \in Procs, sleep_return(c, p) PROVE Threads'
  BY <1>8, SMTT(60) DEF sleep_return, At
<1>9. ASSUME NEW c \in CPUs, NEW p \in Procs, sleep(c, p) PROVE Threads'
  BY <1>9, SMTT(60) DEF sleep, At
<1>10. ASSUME NEW c \in CPUs, NEW p \in Procs, sleep_set(c, p) PROVE Threads'
  BY <1>10, SMTT(60) DEF sleep_set, At
<1>11. ASSUME NEW c \in CPUs, NEW p \in Procs, sched(c, p) PROVE Threads'
  BY <1>11, SMTT(60) DEF sched, At
<1>12. ASSUME NEW c \in CPUs, NEW p \in Procs, yield(c, p) PROVE Threads'
  BY <1>12, SMTT(60) DEF yield, OpenPC, Interrupts, ThreadIrq
<1>13. ASSUME NEW c \in CPUs, NEW p \in Procs, acquiresleep(c, p) PROVE Threads'
  BY <1>13, SMTT(60) DEF acquiresleep, AfterReacquire
<1>14. ASSUME NEW c \in CPUs, NEW p \in Procs, acquiresleep_test(c, p) PROVE Threads'
  BY <1>14, SMTT(60) DEF acquiresleep_test, At
<1>15. ASSUME NEW c \in CPUs, NEW p \in Procs, acquiresleep_take(c, p) PROVE Threads'
  BY <1>15, SMTT(60) DEF acquiresleep_take, At
<1>16. ASSUME NEW c \in CPUs, NEW p \in Procs, releasesleep(c, p) PROVE Threads'
  BY <1>16, SMTT(60) DEF releasesleep, At
<1>17. ASSUME NEW c \in CPUs, NEW p \in Procs, wakeup(c, p) PROVE Threads'
  BY <1>17, SMTT(60) DEF wakeup, At, Locks, Switches
<1>18. ASSUME NEW c \in CPUs, NEW p \in Procs, releasesleep_return(c, p) PROVE Threads'
  BY <1>18, SMTT(60) DEF releasesleep_return, At
<1>19. ASSUME NEW c \in CPUs, NEW p \in Procs, NEW v \in Procs, kkill(c, p, v)
       PROVE  Threads'
  BY <1>19, SMTT(60) DEF kkill, Locks, Switches
<1> QED
  BY <1>1, <1>2, <1>3, <1>4, <1>5, <1>6, <1>7, <1>8, <1>9, <1>10, <1>11, <1>12, <1>13, <1>14,
     <1>15, <1>16, <1>17, <1>18, <1>19, ZenonT(60)
     DEF Next, Scheduler, Resume, Sleeping, Sleeplock

\* A step hands every spin lock on as the code does.
LEMMA LocksStep == IInv /\ Next => Locks'
<1> SUFFICES ASSUME IInv, Next PROVE Locks'
  OBVIOUS
<1>0. /\ Threads /\ Locks /\ Saved /\ Interrupts /\ NoProc \notin Procs
      /\ pc \in [Procs -> PCs] /\ plock \in [Procs -> CPUs \union {NoCPU}] /\ NoCPU \notin CPUs
      /\ thread \in [CPUs -> Procs \union {NoProc}] /\ lk \in CPUs \union {NoCPU}
      /\ sp \in [CPUs -> Procs] /\ spc \in [CPUs -> {"outer", "acquire", "test", "back", "wfi"}]
  BY SchedAssumption DEF IInv, Procs, NoProc, TypeOK
<1> USE <1>0
<1> USE DEF cpus, sleeplock, Threads, Locks, Scans, Switches, Goto, SavedPC, SchedPC, LkPC
<1>1. ASSUME NEW c \in CPUs, scheduler_outer(c) PROVE Locks'
  BY <1>1, SMTT(60) DEF scheduler_outer
<1>2. ASSUME NEW c \in CPUs, scheduler_acquire(c) PROVE Locks'
  BY <1>2, SMTT(60) DEF scheduler_acquire
<1>3. ASSUME NEW c \in CPUs, scheduler_swtch(c) PROVE Locks'
  BY <1>3, OnlyOffEligible, SMTT(60) DEF scheduler_swtch, Off
<1>4. ASSUME NEW c \in CPUs, scheduler_release(c) PROVE Locks'
  BY <1>4, SMTT(60) DEF scheduler_release
<1>5. ASSUME NEW c \in CPUs, wfi(c) PROVE Locks'
  BY <1>5, SMTT(60) DEF wfi
<1>6. ASSUME NEW c \in CPUs, NEW p \in Procs, yield_return(c, p) PROVE Locks'
  BY <1>6, SMTT(60) DEF yield_return, At, Saved, OpenPC
<1>7. ASSUME NEW c \in CPUs, NEW p \in Procs, forkret(c, p) PROVE Locks'
  BY <1>7, SMTT(60) DEF forkret, At
<1>8. ASSUME NEW c \in CPUs, NEW p \in Procs, sleep_return(c, p) PROVE Locks'
  BY <1>8, SMTT(60) DEF sleep_return, At
<1>9. ASSUME NEW c \in CPUs, NEW p \in Procs, sleep(c, p) PROVE Locks'
  BY <1>9, SMTT(60) DEF sleep, At
<1>10. ASSUME NEW c \in CPUs, NEW p \in Procs, sleep_set(c, p) PROVE Locks'
  BY <1>10, SMTT(60) DEF sleep_set, At
<1>11. ASSUME NEW c \in CPUs, NEW p \in Procs, sched(c, p) PROVE Locks'
  BY <1>11, SMTT(60) DEF sched, At
<1>12. ASSUME NEW c \in CPUs, NEW p \in Procs, yield(c, p) PROVE Locks'
  BY <1>12, SMTT(60) DEF yield, Interrupts, ThreadIrq, OpenPC
<1>13. ASSUME NEW c \in CPUs, NEW p \in Procs, acquiresleep(c, p) PROVE Locks'
  BY <1>13, SMTT(60) DEF acquiresleep, AfterReacquire
<1>14. ASSUME NEW c \in CPUs, NEW p \in Procs, acquiresleep_test(c, p) PROVE Locks'
  BY <1>14, SMTT(60) DEF acquiresleep_test, At
<1>15. ASSUME NEW c \in CPUs, NEW p \in Procs, acquiresleep_take(c, p) PROVE Locks'
  BY <1>15, SMTT(60) DEF acquiresleep_take, At
<1>16. ASSUME NEW c \in CPUs, NEW p \in Procs, releasesleep(c, p) PROVE Locks'
  BY <1>16, SMTT(60) DEF releasesleep, At
<1>17. ASSUME NEW c \in CPUs, NEW p \in Procs, wakeup(c, p) PROVE Locks'
  BY <1>17, SMTT(60) DEF wakeup, At
<1>18. ASSUME NEW c \in CPUs, NEW p \in Procs, releasesleep_return(c, p) PROVE Locks'
  BY <1>18, SMTT(60) DEF releasesleep_return, At
<1>19. ASSUME NEW c \in CPUs, NEW p \in Procs, NEW v \in Procs, kkill(c, p, v) PROVE Locks'
  BY <1>19, SMTT(60) DEF kkill, At
<1> QED
  BY <1>1, <1>2, <1>3, <1>4, <1>5, <1>6, <1>7, <1>8, <1>9, <1>10, <1>11, <1>12, <1>13, <1>14,
     <1>15, <1>16, <1>17, <1>18, <1>19, ZenonT(60)
     DEF Next, Scheduler, Resume, Sleeping, Sleeplock

\* A step leaves interrupts as every place in the code expects them.
LEMMA IrqOKStep == IInv /\ Next => IrqOK'
<1> SUFFICES ASSUME IInv, Next PROVE IrqOK'
  OBVIOUS
<1>0. /\ Threads /\ Interrupts /\ Saved /\ irq \in [CPUs -> Irq] /\ intena \in [Procs -> {0, 1}]
      /\ thread \in [CPUs -> Procs \union {NoProc}] /\ pc \in [Procs -> PCs] /\ ret \in [Procs -> PCs]
      /\ spc \in [CPUs -> {"outer", "acquire", "test", "back", "wfi"}] /\ found \in [CPUs -> {0, 1}]
      /\ sp \in [CPUs -> Procs] /\ NoProc \notin Procs
  BY DEF IInv, TypeOK, Procs, NoProc
<1>1. ASSUME NEW c \in CPUs, scheduler_outer(c) PROVE IrqOK'
  <2>1. /\ thread[c] = NoProc /\ spc[c] = "outer" /\ thread' = thread /\ pc' = pc
        /\ spc' = [spc EXCEPT ![c] = "acquire"] /\ found' = [found EXCEPT ![c] = 0]
        /\ irq' = [irq EXCEPT ![c] = IntrOff(irq[c])]
    BY <1>0, <1>1, ZenonT(60) DEF scheduler_outer, PushOff
  <2>2. irq[c] \in Irq /\ IdleIrq(irq[c], spc[c], found[c])
    BY <1>0, <2>1, ZenonT(60) DEF Interrupts
  <2>3. IntrOff(irq[c]) \in Irq /\ IdleIrq(IntrOff(irq[c]), "acquire", 0)
    BY <2>1, <2>2, IntrIs, ZenonT(60) DEF IdleIrq
  <2>4. /\ spc'[c] = "acquire" /\ found'[c] = 0 /\ thread'[c] = NoProc
        /\ \A d \in CPUs \ {c} : thread'[d] = thread[d] /\ spc'[d] = spc[d] /\ found'[d] = found[d]
        /\ \A q \in Procs : q # thread[c] => pc'[q] = pc[q]
    BY <1>0, <2>1, ZenonT(60)
  <2>5. IF thread'[c] = NoProc THEN IdleIrq(IntrOff(irq[c]), spc'[c], found'[c])
        ELSE ThreadIrq(IntrOff(irq[c]), pc'[thread'[c]])
    BY <2>3, <2>4, ZenonT(60)
  <2> QED
    BY <2>1, <2>3, <2>4, <2>5, IrqFrame, ZenonT(60) DEF IrqOK
<1>2. ASSUME NEW c \in CPUs, scheduler_acquire(c) PROVE IrqOK'
  <2>1. /\ thread[c] = NoProc /\ spc[c] = "acquire" /\ thread' = thread /\ pc' = pc
        /\ spc' = [spc EXCEPT ![c] = "test"] /\ found' = [found EXCEPT ![c] = found[c]]
        /\ irq' = [irq EXCEPT ![c] = Push(irq[c])]
    BY <1>0, <1>2, ZenonT(60) DEF scheduler_acquire, PushOff
  <2>2. irq[c] \in Irq /\ IdleIrq(irq[c], spc[c], found[c])
    BY <1>0, <2>1, ZenonT(60) DEF Interrupts
  <2>3. Push(irq[c]) \in Irq /\ IdleIrq(Push(irq[c]), "test", found[c])
    BY <2>1, <2>2, PushIs DEF IdleIrq
  <2>4. /\ spc'[c] = "test" /\ found'[c] = found[c] /\ thread'[c] = NoProc
        /\ \A d \in CPUs \ {c} : thread'[d] = thread[d] /\ spc'[d] = spc[d] /\ found'[d] = found[d]
        /\ \A q \in Procs : q # thread[c] => pc'[q] = pc[q]
    BY <1>0, <2>1, ZenonT(60)
  <2>5. IF thread'[c] = NoProc THEN IdleIrq(Push(irq[c]), spc'[c], found'[c])
        ELSE ThreadIrq(Push(irq[c]), pc'[thread'[c]])
    BY <2>3, <2>4, ZenonT(60)
  <2> QED
    BY <2>1, <2>3, <2>4, <2>5, IrqFrame, ZenonT(60) DEF IrqOK
<1>3. ASSUME NEW c \in CPUs, scheduler_swtch(c) PROVE IrqOK'
  <2>1. /\ thread[c] = NoProc /\ spc[c] = "test" /\ Eligible(sp[c]) /\ sp[c] \in Procs
        /\ thread' = [thread EXCEPT ![c] = sp[c]] /\ spc' = [spc EXCEPT ![c] = "back"]
        /\ UNCHANGED <<pc, found, irq>>
    BY <1>0, <1>3, ZenonT(60) DEF scheduler_swtch
  <2>2. irq[c] \in Irq /\ IdleIrq(irq[c], spc[c], found[c])
    BY <1>0, <2>1, ZenonT(60) DEF Interrupts
  <2>3. pc[sp[c]] \in SavedPC
    BY <2>1, OnlyOffEligible, <1>3, ZenonT(60) DEF scheduler_swtch
  <2>4. ThreadIrq(irq[c], pc[sp[c]])
    <3>1. irq[c].noff = 1 /\ irq[c].intr = 0
      BY <2>1, <2>2, ZenonT(60) DEF IdleIrq, Irq
    <3> QED
      BY <2>3, <3>1, ZenonT(60) DEF ThreadIrq, SavedPC, OpenPC, LkPC
  <2>5. /\ thread'[c] = sp[c] /\ sp[c] # NoProc /\ irq' = [irq EXCEPT ![c] = irq[c]]
        /\ \A d \in CPUs \ {c} : thread'[d] = thread[d] /\ spc'[d] = spc[d] /\ found'[d] = found[d]
        /\ \A q \in Procs : q # thread[c] => pc'[q] = pc[q]
    BY <1>0, <2>1, ZenonT(60)
  <2>6. IF thread'[c] = NoProc THEN IdleIrq(irq[c], spc'[c], found'[c])
        ELSE ThreadIrq(irq[c], pc'[thread'[c]])
    BY <2>1, <2>4, <2>5, ZenonT(60)
  <2> QED
    BY <2>2, <2>5, <2>6, IrqFrame, ZenonT(60) DEF IrqOK
<1>4. ASSUME NEW c \in CPUs, scheduler_release(c) PROVE IrqOK'
  <2>1. /\ thread[c] = NoProc /\ thread' = thread /\ pc' = pc /\ spc[c] \in {"test", "back"}
        /\ irq' = [irq EXCEPT ![c] = Pop(irq[c])]
        /\ \E l \in {"acquire", "wfi", "outer"} :
             spc' = [spc EXCEPT ![c] = l] /\ (l = "wfi" => found'[c] = 0)
        /\ \/ spc[c] = "test" /\ found' = found
           \/ spc[c] = "back" /\ found' = [found EXCEPT ![c] = 1]
    BY <1>0, <1>4, ZenonT(60) DEF scheduler_release, PopOff, Found
  <2>2. irq[c] \in Irq /\ IdleIrq(irq[c], spc[c], found[c])
    BY <1>0, <2>1, ZenonT(60) DEF Interrupts
  <2>3. /\ spc'[c] \in {"acquire", "wfi", "outer"} /\ (spc'[c] = "wfi" => found'[c] = 0)
        /\ \/ spc[c] = "test" /\ found'[c] = found[c]
           \/ spc[c] = "back" /\ found'[c] = 1
        /\ \A d \in CPUs \ {c} : spc'[d] = spc[d] /\ found'[d] = found[d]
    BY <1>0, <2>1, ZenonT(60)
  <2>4. Pop(irq[c]) \in Irq /\ IdleIrq(Pop(irq[c]), spc'[c], found'[c])
    BY <2>2, <2>3, PopIs DEF IdleIrq
  <2> QED
    BY <2>1, <2>3, <2>4, IrqFrame, ZenonT(60) DEF IrqOK
<1>5. ASSUME NEW c \in CPUs, wfi(c) PROVE IrqOK'
  <2>1. /\ thread[c] = NoProc /\ spc[c] = "wfi" /\ thread' = thread /\ pc' = pc
        /\ spc' = [spc EXCEPT ![c] = "outer"] /\ found' = [found EXCEPT ![c] = found[c]]
        /\ irq' = [irq EXCEPT ![c] = irq[c]]
    BY <1>0, <1>5, ZenonT(60) DEF wfi, PushOff
  <2>2. irq[c] \in Irq /\ IdleIrq(irq[c], spc[c], found[c])
    BY <1>0, <2>1, ZenonT(60) DEF Interrupts
  <2>3. irq[c] \in Irq /\ IdleIrq(irq[c], "outer", found[c])
    BY <2>1, <2>2, ZenonT(60) DEF IdleIrq
  <2>4. /\ spc'[c] = "outer" /\ found'[c] = found[c] /\ thread'[c] = NoProc
        /\ \A d \in CPUs \ {c} : thread'[d] = thread[d] /\ spc'[d] = spc[d] /\ found'[d] = found[d]
        /\ \A q \in Procs : q # thread[c] => pc'[q] = pc[q]
    BY <1>0, <2>1, ZenonT(60)
  <2>5. IF thread'[c] = NoProc THEN IdleIrq(irq[c], spc'[c], found'[c])
        ELSE ThreadIrq(irq[c], pc'[thread'[c]])
    BY <2>3, <2>4, ZenonT(60)
  <2> QED
    BY <2>1, <2>3, <2>4, <2>5, IrqFrame, ZenonT(60) DEF IrqOK
<1>6. ASSUME NEW c \in CPUs, NEW p \in Procs, yield_return(c, p) PROVE IrqOK'
  <2>1. /\ thread[c] = p /\ pc[p] = "yielded" /\ UNCHANGED <<thread, spc, found>>
        /\ pc' = [pc EXCEPT ![p] = ret[p]]
        /\ irq' = [irq EXCEPT ![c] = IntrOn(ResumeIrq(c, p))]
    BY <1>6, ZenonT(60) DEF yield_return, At, Goto, cpus
  <2>2. irq[c] \in Irq /\ ThreadIrq(irq[c], pc[p])
    BY <1>0, <2>1, ZenonT(60) DEF Interrupts
  <2>3. /\ ResumeIrq(c, p) \in Irq /\ ResumeIrq(c, p).noff = 0
        /\ intena[p] = 1 => ResumeIrq(c, p).intr = 1
    BY <1>0, <2>1, <2>2, ResumeIs, ZenonT(60) DEF ThreadIrq, OpenPC
  <2>4. IntrOn(ResumeIrq(c, p)) \in Irq /\ ThreadIrq(IntrOn(ResumeIrq(c, p)), ret[p])
    BY <1>0, <2>1, <2>3, IntrIs, ZenonT(60) DEF Saved, ThreadIrq, OpenPC, LkPC
  <2> QED
    BY <2>1, <2>4, ThreadFrame, ZenonT(60) DEF IrqOK
<1>7. ASSUME NEW c \in CPUs, NEW p \in Procs, forkret(c, p) PROVE IrqOK'
  <2>1. /\ thread[c] = p /\ pc[p] = "forkret" /\ UNCHANGED <<thread, spc, found>>
        /\ pc' = [pc EXCEPT ![p] = "run"]
        /\ irq' = [irq EXCEPT ![c] = IntrOn(Pop(irq[c]))]
    BY <1>7, ZenonT(60) DEF forkret, At, Goto, cpus
  <2>2. irq[c] \in Irq /\ ThreadIrq(irq[c], pc[p])
    BY <1>0, <2>1, ZenonT(60) DEF Interrupts
  <2>3. Pop(irq[c]) \in Irq /\ Pop(irq[c]).noff = 0
    BY <2>1, <2>2, PopIs DEF ThreadIrq, OpenPC
  <2>4. IntrOn(Pop(irq[c])) \in Irq /\ ThreadIrq(IntrOn(Pop(irq[c])), "run")
    BY <2>3, IntrIs, ZenonT(60) DEF ThreadIrq, OpenPC, LkPC
  <2> QED
    BY <2>1, <2>4, ThreadFrame, ZenonT(60) DEF IrqOK
<1>8. ASSUME NEW c \in CPUs, NEW p \in Procs, sleep_return(c, p) PROVE IrqOK'
  <2>1. /\ thread[c] = p /\ pc[p] = "woken" /\ UNCHANGED <<thread, spc, found>>
        /\ pc' = [pc EXCEPT ![p] = "reacquire"]
        /\ irq' = [irq EXCEPT ![c] = ResumeIrq(c, p)]
    BY <1>8, ZenonT(60) DEF sleep_return, At, Goto, cpus
  <2>2. irq[c] \in Irq /\ ThreadIrq(irq[c], pc[p])
    BY <1>0, <2>1, ZenonT(60) DEF Interrupts
  <2>3. /\ ResumeIrq(c, p) \in Irq /\ ResumeIrq(c, p).noff = 0
        /\ intena[p] = 1 => ResumeIrq(c, p).intr = 1
    BY <1>0, <2>1, <2>2, ResumeIs, ZenonT(60) DEF ThreadIrq, OpenPC
  <2>4. ResumeIrq(c, p) \in Irq /\ ThreadIrq(ResumeIrq(c, p), "reacquire")
    BY <1>0, <2>1, <2>3, ZenonT(60) DEF Saved, ThreadIrq, OpenPC, LkPC
  <2> QED
    BY <2>1, <2>4, ThreadFrame, ZenonT(60) DEF IrqOK
<1>9. ASSUME NEW c \in CPUs, NEW p \in Procs, sleep(c, p) PROVE IrqOK'
  <2>1. /\ thread[c] = p /\ pc[p] = "sleep" /\ UNCHANGED <<thread, spc, found>>
        /\ pc' = [pc EXCEPT ![p] = "sleep_set"]
        /\ irq' = [irq EXCEPT ![c] = Push(irq[c])]
    BY <1>9, ZenonT(60) DEF sleep, At, Goto, cpus, PushOff
  <2>2. irq[c] \in Irq /\ ThreadIrq(irq[c], pc[p])
    BY <1>0, <2>1, ZenonT(60) DEF Interrupts
  <2>3. Push(irq[c]) \in Irq /\ ThreadIrq(Push(irq[c]), "sleep_set")
    BY <2>1, <2>2, PushIs DEF ThreadIrq, OpenPC, LkPC
  <2> QED
    BY <2>1, <2>3, ThreadFrame, ZenonT(60) DEF IrqOK
<1>10. ASSUME NEW c \in CPUs, NEW p \in Procs, sleep_set(c, p) PROVE IrqOK'
  <2>1. /\ thread[c] = p /\ pc[p] = "sleep_set" /\ UNCHANGED <<thread, spc, found>>
        /\ pc' = [pc EXCEPT ![p] = "sleep_sched"]
        /\ irq' = [irq EXCEPT ![c] = Pop(irq[c])]
    BY <1>10, ZenonT(60) DEF sleep_set, At, Goto, cpus, PopOff
  <2>2. irq[c] \in Irq /\ ThreadIrq(irq[c], pc[p])
    BY <1>0, <2>1, ZenonT(60) DEF Interrupts
  <2>3. Pop(irq[c]) \in Irq /\ ThreadIrq(Pop(irq[c]), "sleep_sched")
    BY <2>1, <2>2, PopIs DEF ThreadIrq, OpenPC, LkPC
  <2> QED
    BY <2>1, <2>3, ThreadFrame, ZenonT(60) DEF IrqOK
<1>11. ASSUME NEW c \in CPUs, NEW p \in Procs, sched(c, p) PROVE IrqOK'
  <2>1. /\ thread[c] = p /\ pc[p] \in SchedPC /\ UNCHANGED <<spc, found>>
        /\ thread' = [thread EXCEPT ![c] = NoProc]
        /\ \E l \in SavedPC : pc' = [pc EXCEPT ![p] = l]
        /\ irq' = irq
    BY <1>11, ZenonT(60) DEF sched, Goto, SchedPC, SavedPC
  <2>2. irq[c] \in Irq /\ ThreadIrq(irq[c], pc[p]) /\ spc[c] = "back"
    BY <1>0, <2>1, ZenonT(60) DEF Interrupts, Threads
  <2>3. IdleIrq(irq[c], spc[c], found[c])
    BY <2>1, <2>2 DEF ThreadIrq, IdleIrq, SchedPC, OpenPC
  <2>4. /\ irq' = [irq EXCEPT ![c] = irq[c]] /\ thread'[c] = NoProc
        /\ \A d \in CPUs \ {c} : thread'[d] = thread[d] /\ spc'[d] = spc[d] /\ found'[d] = found[d]
        /\ \A q \in Procs : q # thread[c] => pc'[q] = pc[q]
    BY <1>0, <2>1, ZenonT(60)
  <2>5. IF thread'[c] = NoProc THEN IdleIrq(irq[c], spc'[c], found'[c])
        ELSE ThreadIrq(irq[c], pc'[thread'[c]])
    BY <2>1, <2>3, <2>4, ZenonT(60)
  <2> QED
    BY <2>2, <2>4, <2>5, IrqFrame, ZenonT(60) DEF IrqOK
<1>12. ASSUME NEW c \in CPUs, NEW p \in Procs, yield(c, p) PROVE IrqOK'
  <2>1. /\ thread[c] = p /\ irq[c].intr = 1 /\ UNCHANGED <<thread, spc, found>>
        /\ pc' = [pc EXCEPT ![p] = "yield_sched"]
        /\ irq' = [irq EXCEPT ![c] = Push(IntrOff(irq[c]))]
    BY <1>12, ZenonT(60) DEF yield, At, Goto, cpus
  <2>2. irq[c] \in Irq /\ ThreadIrq(irq[c], pc[p])
    BY <1>0, <2>1, ZenonT(60) DEF Interrupts
  <2>3. IntrOff(irq[c]) \in Irq /\ IntrOff(irq[c]).noff = 0
    BY <2>1, <2>2, IntrIs, ZenonT(60) DEF ThreadIrq
  <2>4. Push(IntrOff(irq[c])) \in Irq /\ ThreadIrq(Push(IntrOff(irq[c])), "yield_sched")
    BY <2>3, PushIs DEF ThreadIrq, OpenPC, LkPC
  <2> QED
    BY <2>1, <2>4, ThreadFrame, ZenonT(60) DEF IrqOK
<1>13. ASSUME NEW c \in CPUs, NEW p \in Procs, acquiresleep(c, p) PROVE IrqOK'
  <2>1. /\ thread[c] = p /\ pc[p] \in OpenPC /\ UNCHANGED <<thread, spc, found>>
        /\ pc' = [pc EXCEPT ![p] = "test"]
        /\ irq' = [irq EXCEPT ![c] = Push(irq[c])]
    BY <1>13, ZenonT(60) DEF acquiresleep, At, Goto, cpus, PushOff, AfterReacquire, OpenPC
  <2>2. irq[c] \in Irq /\ ThreadIrq(irq[c], pc[p])
    BY <1>0, <2>1, ZenonT(60) DEF Interrupts
  <2>3. Push(irq[c]) \in Irq /\ ThreadIrq(Push(irq[c]), "test")
    BY <2>1, <2>2, PushIs DEF ThreadIrq, OpenPC, LkPC
  <2> QED
    BY <2>1, <2>3, ThreadFrame, ZenonT(60) DEF IrqOK
<1>14. ASSUME NEW c \in CPUs, NEW p \in Procs, acquiresleep_test(c, p) PROVE IrqOK'
  <2>1. /\ thread[c] = p /\ pc[p] = "test" /\ UNCHANGED <<thread, spc, found>>
        /\ pc' = [pc EXCEPT ![p] = (IF locked = 1 THEN "sleep" ELSE "take")]
        /\ irq' = irq
    BY <1>14, ZenonT(60) DEF acquiresleep_test, At, Goto, cpus
  <2>2. irq[c] \in Irq /\ ThreadIrq(irq[c], pc[p])
    BY <1>0, <2>1, ZenonT(60) DEF Interrupts
  <2>3. irq[c] \in Irq /\ ThreadIrq(irq[c], (IF locked = 1 THEN "sleep" ELSE "take"))
    BY <2>1, <2>2, ZenonT(60) DEF ThreadIrq, OpenPC, LkPC
  <2>4. irq' = [irq EXCEPT ![c] = irq[c]]
    BY <1>0, <2>1, ZenonT(60)
  <2> QED
    BY <2>1, <2>3, <2>4, ThreadFrame, ZenonT(60) DEF IrqOK
<1>15. ASSUME NEW c \in CPUs, NEW p \in Procs, acquiresleep_take(c, p) PROVE IrqOK'
  <2>1. /\ thread[c] = p /\ pc[p] = "take" /\ UNCHANGED <<thread, spc, found>>
        /\ pc' = [pc EXCEPT ![p] = "held"]
        /\ irq' = [irq EXCEPT ![c] = Pop(irq[c])]
    BY <1>15, ZenonT(60) DEF acquiresleep_take, At, Goto, cpus, PopOff
  <2>2. irq[c] \in Irq /\ ThreadIrq(irq[c], pc[p])
    BY <1>0, <2>1, ZenonT(60) DEF Interrupts
  <2>3. Pop(irq[c]) \in Irq /\ ThreadIrq(Pop(irq[c]), "held")
    BY <2>1, <2>2, PopIs DEF ThreadIrq, OpenPC, LkPC
  <2> QED
    BY <2>1, <2>3, ThreadFrame, ZenonT(60) DEF IrqOK
<1>16. ASSUME NEW c \in CPUs, NEW p \in Procs, releasesleep(c, p) PROVE IrqOK'
  <2>1. /\ thread[c] = p /\ pc[p] = "held" /\ UNCHANGED <<thread, spc, found>>
        /\ pc' = [pc EXCEPT ![p] = "wakeup"]
        /\ irq' = [irq EXCEPT ![c] = Push(irq[c])]
    BY <1>16, ZenonT(60) DEF releasesleep, At, Goto, cpus, PushOff
  <2>2. irq[c] \in Irq /\ ThreadIrq(irq[c], pc[p])
    BY <1>0, <2>1, ZenonT(60) DEF Interrupts
  <2>3. Push(irq[c]) \in Irq /\ ThreadIrq(Push(irq[c]), "wakeup")
    BY <2>1, <2>2, PushIs DEF ThreadIrq, OpenPC, LkPC
  <2> QED
    BY <2>1, <2>3, ThreadFrame, ZenonT(60) DEF IrqOK
<1>17. ASSUME NEW c \in CPUs, NEW p \in Procs, wakeup(c, p) PROVE IrqOK'
  BY <1>0, <1>17, ZenonT(60) DEF IrqOK, Interrupts, wakeup, cpus
<1>18. ASSUME NEW c \in CPUs, NEW p \in Procs, releasesleep_return(c, p) PROVE IrqOK'
  <2>1. /\ thread[c] = p /\ pc[p] = "wakeup" /\ UNCHANGED <<thread, spc, found>>
        /\ pc' = [pc EXCEPT ![p] = "run"]
        /\ irq' = [irq EXCEPT ![c] = Pop(irq[c])]
    BY <1>18, ZenonT(60) DEF releasesleep_return, At, Goto, cpus, PopOff
  <2>2. irq[c] \in Irq /\ ThreadIrq(irq[c], pc[p])
    BY <1>0, <2>1, ZenonT(60) DEF Interrupts
  <2>3. Pop(irq[c]) \in Irq /\ ThreadIrq(Pop(irq[c]), "run")
    BY <2>1, <2>2, PopIs DEF ThreadIrq, OpenPC, LkPC
  <2> QED
    BY <2>1, <2>3, ThreadFrame, ZenonT(60) DEF IrqOK
<1>19. ASSUME NEW c \in CPUs, NEW p \in Procs, NEW v \in Procs, kkill(c, p, v) PROVE IrqOK'
  BY <1>0, <1>19, ZenonT(60) DEF IrqOK, Interrupts, kkill, cpus
<1> QED
  BY <1>1, <1>2, <1>3, <1>4, <1>5, <1>6, <1>7, <1>8, <1>9, <1>10, <1>11, <1>12, <1>13, <1>14,
     <1>15, <1>16, <1>17, <1>18, <1>19, ZenonT(60)
     DEF Next, Scheduler, Resume, Sleeping, Sleeplock

\* A step keeps the types: noff is never negative and never above two.
LEMMA TypeOKStep == IInv /\ Next => TypeOK'
<1> SUFFICES ASSUME IInv, Next PROVE TypeOK'
  OBVIOUS
<1>0. TypeOK /\ irq' \in [CPUs -> Irq]
  BY IrqOKStep, ZenonT(60) DEF IInv, IrqOK
<1> USE <1>0, SchedAssumption DEF TypeOK, Goto, sleeplock, cpus, locals
<1>1. ASSUME NEW c \in CPUs, scheduler_outer(c) PROVE TypeOK'
  BY <1>1 DEF scheduler_outer, Procs
<1>2. ASSUME NEW c \in CPUs, scheduler_acquire(c) PROVE TypeOK'
  BY <1>2, ZenonT(60) DEF scheduler_acquire
<1>3. ASSUME NEW c \in CPUs, scheduler_swtch(c) PROVE TypeOK'
  BY <1>3, ZenonT(60) DEF scheduler_swtch
<1>4. ASSUME NEW c \in CPUs, scheduler_release(c) PROVE TypeOK'
  <2>1. sp[c] \in 1..NPROC /\ NextP(c) \in Procs /\ Found(c) \in [CPUs -> {0, 1}]
    BY DEF NextP, Found, Procs
  <2>2. /\ sp' \in [CPUs -> Procs] /\ plock' \in [Procs -> CPUs \union {NoCPU}]
        /\ panicked' \in {0, 1} /\ spc' \in [CPUs -> {"outer", "acquire", "test", "back", "wfi"}]
    BY <1>4, <2>1, ZenonT(60) DEF scheduler_release
  <2>3. proc' \in [CPUs -> Procs \union {NoProc}] /\ found' \in [CPUs -> {0, 1}]
    BY <1>4, <2>1, ZenonT(60) DEF scheduler_release
  <2> QED
    BY <1>4, <2>2, <2>3, ZenonT(60) DEF scheduler_release
<1>5. ASSUME NEW c \in CPUs, wfi(c) PROVE TypeOK'
  BY <1>5, ZenonT(60) DEF wfi
<1>6. ASSUME NEW c \in CPUs, NEW p \in Procs, yield_return(c, p) PROVE TypeOK'
  BY <1>6, ZenonT(60) DEF yield_return, PCs, At
<1>7. ASSUME NEW c \in CPUs, NEW p \in Procs, forkret(c, p) PROVE TypeOK'
  BY <1>7, ZenonT(60) DEF forkret, PCs, At
<1>8. ASSUME NEW c \in CPUs, NEW p \in Procs, sleep_return(c, p) PROVE TypeOK'
  BY <1>8, ZenonT(60) DEF sleep_return, PCs, At
<1>9. ASSUME NEW c \in CPUs, NEW p \in Procs, sleep(c, p) PROVE TypeOK'
  BY <1>9, ZenonT(60) DEF sleep, PCs, At
<1>10. ASSUME NEW c \in CPUs, NEW p \in Procs, sleep_set(c, p) PROVE TypeOK'
  BY <1>10, ZenonT(60) DEF sleep_set, PCs, At
<1>11. ASSUME NEW c \in CPUs, NEW p \in Procs, sched(c, p) PROVE TypeOK'
  <2>1. irq[c].intena \in {0, 1}
    BY ZenonT(60) DEF Irq
  <2> QED
    BY <1>11, <2>1, ZenonT(60) DEF sched, PCs
<1>12. ASSUME NEW c \in CPUs, NEW p \in Procs, yield(c, p) PROVE TypeOK'
  BY <1>12, ZenonT(60) DEF yield, PCs
<1>13. ASSUME NEW c \in CPUs, NEW p \in Procs, acquiresleep(c, p) PROVE TypeOK'
  BY <1>13, ZenonT(60) DEF acquiresleep, PCs, AfterReacquire
<1>14. ASSUME NEW c \in CPUs, NEW p \in Procs, acquiresleep_test(c, p) PROVE TypeOK'
  BY <1>14, ZenonT(60) DEF acquiresleep_test, PCs, At
<1>15. ASSUME NEW c \in CPUs, NEW p \in Procs, acquiresleep_take(c, p) PROVE TypeOK'
  BY <1>15, ZenonT(60) DEF acquiresleep_take, PCs, At
<1>16. ASSUME NEW c \in CPUs, NEW p \in Procs, releasesleep(c, p) PROVE TypeOK'
  BY <1>16, ZenonT(60) DEF releasesleep, PCs, At, Cleared
<1>17. ASSUME NEW c \in CPUs, NEW p \in Procs, wakeup(c, p) PROVE TypeOK'
  <2>1. loop[p] \in Procs /\ loop[p] + 1 \in 1..NPROC + 1
    BY <1>17, SMTT(60) DEF wakeup, Procs
  <2>2. loop' \in [Procs -> 1..NPROC + 1]
    BY <1>17, <2>1, ZenonT(60) DEF wakeup
  <2>3. state' \in [Procs -> {"RUNNABLE", "RUNNING", "SLEEPING"}]
    BY <1>17, <2>1, ZenonT(60) DEF wakeup
  <2> QED
    BY <1>17, <2>2, <2>3, ZenonT(60) DEF wakeup
<1>18. ASSUME NEW c \in CPUs, NEW p \in Procs, releasesleep_return(c, p) PROVE TypeOK'
  BY <1>18, SMTT(60) DEF releasesleep_return, PCs, At, Procs
<1>19. ASSUME NEW c \in CPUs, NEW p \in Procs, NEW v \in Procs, kkill(c, p, v) PROVE TypeOK'
  BY <1>19, ZenonT(60) DEF kkill
<1> QED
  BY <1>1, <1>2, <1>3, <1>4, <1>5, <1>6, <1>7, <1>8, <1>9, <1>10, <1>11, <1>12, <1>13, <1>14,
     <1>15, <1>16, <1>17, <1>18, <1>19, ZenonT(60)
     DEF Next, Scheduler, Resume, Sleeping, Sleeplock

\* A thread that is switched from has put away what it needs when it comes back.
LEMMA SavedStep == IInv /\ Next => Saved'
<1> SUFFICES ASSUME IInv, Next PROVE Saved'
  OBVIOUS
<1>0. /\ Saved /\ Interrupts /\ NoProc \notin Procs
      /\ pc \in [Procs -> PCs] /\ ret \in [Procs -> PCs] /\ intena \in [Procs -> {0, 1}]
      /\ thread \in [CPUs -> Procs \union {NoProc}]
  BY DEF IInv, Procs, NoProc, TypeOK
<1> USE <1>0
<1> USE DEF cpus, locals, Saved, OpenPC, Goto
<1>1. ASSUME NEW c \in CPUs, scheduler_outer(c) PROVE Saved'
  BY <1>1, ZenonT(60) DEF scheduler_outer
<1>2. ASSUME NEW c \in CPUs, scheduler_acquire(c) PROVE Saved'
  BY <1>2, ZenonT(60) DEF scheduler_acquire
<1>3. ASSUME NEW c \in CPUs, scheduler_swtch(c) PROVE Saved'
  BY <1>3, ZenonT(60) DEF scheduler_swtch
<1>4. ASSUME NEW c \in CPUs, scheduler_release(c) PROVE Saved'
  BY <1>4, ZenonT(60) DEF scheduler_release
<1>5. ASSUME NEW c \in CPUs, wfi(c) PROVE Saved'
  BY <1>5, ZenonT(60) DEF wfi
<1>6. ASSUME NEW c \in CPUs, NEW p \in Procs, yield_return(c, p) PROVE Saved'
  BY <1>6, ZenonT(60) DEF yield_return, At
<1>7. ASSUME NEW c \in CPUs, NEW p \in Procs, forkret(c, p) PROVE Saved'
  BY <1>7, ZenonT(60) DEF forkret, At
<1>8. ASSUME NEW c \in CPUs, NEW p \in Procs, sleep_return(c, p) PROVE Saved'
  BY <1>8, ZenonT(60) DEF sleep_return, At
<1>9. ASSUME NEW c \in CPUs, NEW p \in Procs, sleep(c, p) PROVE Saved'
  BY <1>9, ZenonT(60) DEF sleep, At
<1>10. ASSUME NEW c \in CPUs, NEW p \in Procs, sleep_set(c, p) PROVE Saved'
  BY <1>10, ZenonT(60) DEF sleep_set, At
<1>11. ASSUME NEW c \in CPUs, NEW p \in Procs, sched(c, p) PROVE Saved'
  <2>1. ThreadIrq(irq[c], pc[p])
    BY <1>11, ZenonT(60) DEF sched, Interrupts
  <2>2. pc[p] = "sleep_sched" => irq[c].intena = 1
    BY <2>1, ZenonT(60) DEF ThreadIrq
  <2> QED
    BY <1>11, <2>2, ZenonT(60) DEF sched
<1>12. ASSUME NEW c \in CPUs, NEW p \in Procs, yield(c, p) PROVE Saved'
  <2>1. ThreadIrq(irq[c], pc[p]) /\ irq[c].intr = 1
    BY <1>12, ZenonT(60) DEF yield, Interrupts
  <2>2. pc[p] \in OpenPC
    BY <2>1 DEF ThreadIrq
  <2> QED
    BY <1>12, <2>2, ZenonT(60) DEF yield
<1>13. ASSUME NEW c \in CPUs, NEW p \in Procs, acquiresleep(c, p) PROVE Saved'
  BY <1>13, ZenonT(60) DEF acquiresleep, AfterReacquire
<1>14. ASSUME NEW c \in CPUs, NEW p \in Procs, acquiresleep_test(c, p) PROVE Saved'
  BY <1>14, ZenonT(60) DEF acquiresleep_test, At
<1>15. ASSUME NEW c \in CPUs, NEW p \in Procs, acquiresleep_take(c, p) PROVE Saved'
  BY <1>15, ZenonT(60) DEF acquiresleep_take, At
<1>16. ASSUME NEW c \in CPUs, NEW p \in Procs, releasesleep(c, p) PROVE Saved'
  BY <1>16, ZenonT(60) DEF releasesleep, At
<1>17. ASSUME NEW c \in CPUs, NEW p \in Procs, wakeup(c, p) PROVE Saved'
  BY <1>17, ZenonT(60) DEF wakeup, At
<1>18. ASSUME NEW c \in CPUs, NEW p \in Procs, releasesleep_return(c, p) PROVE Saved'
  BY <1>18, ZenonT(60) DEF releasesleep_return, At
<1>19. ASSUME NEW c \in CPUs, NEW p \in Procs, NEW v \in Procs, kkill(c, p, v) PROVE Saved'
  BY <1>19, ZenonT(60) DEF kkill, At
<1> QED
  BY <1>1, <1>2, <1>3, <1>4, <1>5, <1>6, <1>7, <1>8, <1>9, <1>10, <1>11, <1>12, <1>13, <1>14,
     <1>15, <1>16, <1>17, <1>18, <1>19, ZenonT(60)
     DEF Next, Scheduler, Resume, Sleeping, Sleeplock

\* A step keeps p->chan, the sleep lock and the loop of wakeup() as the code has them.
LEMMA SleepersStep == IInv /\ Next => Sleepers'
<1> SUFFICES ASSUME IInv, Next PROVE Sleepers'
  OBVIOUS
<1>0. /\ Sleepers /\ Threads /\ Locks /\ Interrupts /\ Saved /\ NoProc \notin Procs
      /\ pc \in [Procs -> PCs] /\ ret \in [Procs -> PCs] /\ chan \in [Procs -> {0, 1}]
      /\ state \in [Procs -> {"RUNNABLE", "RUNNING", "SLEEPING"}] /\ locked \in {0, 1}
      /\ thread \in [CPUs -> Procs \union {NoProc}] /\ loop \in [Procs -> 1..NPROC + 1]
      /\ NoCPU \notin CPUs /\ sp \in [CPUs -> Procs]
  BY SchedAssumption DEF IInv, Procs, NoProc, TypeOK
<1> USE <1>0
<1> USE DEF cpus, sleeplock, locals, Sleepers, Goto
<1>1. ASSUME NEW c \in CPUs, scheduler_outer(c) PROVE Sleepers'
  BY <1>1, ZenonT(60) DEF scheduler_outer
<1>2. ASSUME NEW c \in CPUs, scheduler_acquire(c) PROVE Sleepers'
  BY <1>2, ZenonT(60) DEF scheduler_acquire
<1>3. ASSUME NEW c \in CPUs, scheduler_swtch(c) PROVE Sleepers'
  BY <1>3, ZenonT(60) DEF scheduler_swtch
<1>4. ASSUME NEW c \in CPUs, scheduler_release(c) PROVE Sleepers'
  BY <1>4, ZenonT(60) DEF scheduler_release
<1>5. ASSUME NEW c \in CPUs, wfi(c) PROVE Sleepers'
  BY <1>5, ZenonT(60) DEF wfi
<1>6. ASSUME NEW c \in CPUs, NEW p \in Procs, yield_return(c, p) PROVE Sleepers'
  <2>1. ret[p] \in {"run", "held", "reacquire"} /\ state[p] = "RUNNING"
    BY <1>6 DEF yield_return, At, Saved, OpenPC, Threads
  <2> QED
    BY <1>6, <2>1, ZenonT(60) DEF yield_return, At
<1>7. ASSUME NEW c \in CPUs, NEW p \in Procs, forkret(c, p) PROVE Sleepers'
  BY <1>7, ZenonT(60) DEF forkret, At
<1>8. ASSUME NEW c \in CPUs, NEW p \in Procs, sleep_return(c, p) PROVE Sleepers'
  <2>1. state[p] = "RUNNING"
    BY <1>8, ZenonT(60) DEF sleep_return, At, Threads
  <2> QED
    BY <1>8, <2>1 DEF sleep_return, At
<1>9. ASSUME NEW c \in CPUs, NEW p \in Procs, sleep(c, p) PROVE Sleepers'
  BY <1>9, ZenonT(60) DEF sleep, At
<1>10. ASSUME NEW c \in CPUs, NEW p \in Procs, sleep_set(c, p) PROVE Sleepers'
  BY <1>10, ZenonT(60) DEF sleep_set, At
<1>11. ASSUME NEW c \in CPUs, NEW p \in Procs, sched(c, p) PROVE Sleepers'
  BY <1>11, ZenonT(60) DEF sched, At
<1>12. ASSUME NEW c \in CPUs, NEW p \in Procs, yield(c, p) PROVE Sleepers'
  <2>1. ThreadIrq(irq[c], pc[p]) /\ irq[c].intr = 1
    BY <1>12, ZenonT(60) DEF yield, Interrupts
  <2>2. pc[p] \in {"run", "held", "reacquire"}
    BY <2>1 DEF ThreadIrq, OpenPC
  <2> QED
    BY <1>12, <2>2, ZenonT(60) DEF yield
<1>13. ASSUME NEW c \in CPUs, NEW p \in Procs, acquiresleep(c, p) PROVE Sleepers'
  BY <1>13, ZenonT(60) DEF acquiresleep, AfterReacquire
<1>14. ASSUME NEW c \in CPUs, NEW p \in Procs, acquiresleep_test(c, p) PROVE Sleepers'
  BY <1>14, ZenonT(60) DEF acquiresleep_test, At
<1>15. ASSUME NEW c \in CPUs, NEW p \in Procs, acquiresleep_take(c, p) PROVE Sleepers'
  BY <1>15, ZenonT(60) DEF acquiresleep_take, At
<1>16. ASSUME NEW c \in CPUs, NEW p \in Procs, releasesleep(c, p) PROVE Sleepers'
  <2>1. \A q \in Procs : pc[q] \notin {"sleep", "sleep_set"}
    <3>1. ASSUME NEW q \in Procs, pc[q] \in {"sleep", "sleep_set"} PROVE FALSE
      <4>1. PICK d \in CPUs : thread[d] = q
        BY <3>1 DEF Threads, Off, SavedPC
      <4>2. lk = d
        BY <3>1, <4>1 DEF Locks, LkPC
      <4> QED
        BY <1>16, <4>2, ZenonT(60) DEF releasesleep
    <3> QED
      BY <3>1, ZenonT(60)
  <2> QED
    BY <1>16, <2>1, ZenonT(60) DEF releasesleep, At
<1>17. ASSUME NEW c \in CPUs, NEW p \in Procs, wakeup(c, p) PROVE Sleepers'
  BY <1>17 DEF wakeup, At
<1>18. ASSUME NEW c \in CPUs, NEW p \in Procs, releasesleep_return(c, p) PROVE Sleepers'
  BY <1>18, ZenonT(60) DEF releasesleep_return, At
<1>19. ASSUME NEW c \in CPUs, NEW p \in Procs, NEW v \in Procs, kkill(c, p, v)
       PROVE  Sleepers'
  BY <1>19, ZenonT(60) DEF kkill, At
<1> QED
  BY <1>1, <1>2, <1>3, <1>4, <1>5, <1>6, <1>7, <1>8, <1>9, <1>10, <1>11, <1>12, <1>13, <1>14,
     <1>15, <1>16, <1>17, <1>18, <1>19, ZenonT(60)
     DEF Next, Scheduler, Resume, Sleeping, Sleeplock

\* A step loses no wakeup.
LEMMA NoLostWakeupStep == IInv /\ Next => NoLostWakeup'
<1> SUFFICES ASSUME IInv, Next PROVE NoLostWakeup'
  OBVIOUS
<1>0. /\ NoLostWakeup /\ Sleepers /\ Threads /\ Interrupts /\ NoProc \notin Procs
      /\ pc \in [Procs -> PCs] /\ state \in [Procs -> {"RUNNABLE", "RUNNING", "SLEEPING"}]
      /\ thread \in [CPUs -> Procs \union {NoProc}] /\ locked \in {0, 1}
      /\ loop \in [Procs -> 1..NPROC + 1] /\ sp \in [CPUs -> Procs]
  BY DEF IInv, Procs, NoProc, TypeOK
<1> USE <1>0
<1> USE DEF cpus, sleeplock, locals, NoLostWakeup, Goto
<1>1. ASSUME NEW c \in CPUs, scheduler_outer(c) PROVE NoLostWakeup'
  BY <1>1, ZenonT(60) DEF scheduler_outer
<1>2. ASSUME NEW c \in CPUs, scheduler_acquire(c) PROVE NoLostWakeup'
  BY <1>2, ZenonT(60) DEF scheduler_acquire
<1>3. ASSUME NEW c \in CPUs, scheduler_swtch(c) PROVE NoLostWakeup'
  BY <1>3, ZenonT(60) DEF scheduler_swtch
<1>4. ASSUME NEW c \in CPUs, scheduler_release(c) PROVE NoLostWakeup'
  BY <1>4, ZenonT(60) DEF scheduler_release
<1>5. ASSUME NEW c \in CPUs, wfi(c) PROVE NoLostWakeup'
  BY <1>5, ZenonT(60) DEF wfi
<1>6. ASSUME NEW c \in CPUs, NEW p \in Procs, yield_return(c, p) PROVE NoLostWakeup'
  BY <1>6, ZenonT(60) DEF yield_return, At
<1>7. ASSUME NEW c \in CPUs, NEW p \in Procs, forkret(c, p) PROVE NoLostWakeup'
  BY <1>7, ZenonT(60) DEF forkret, At
<1>8. ASSUME NEW c \in CPUs, NEW p \in Procs, sleep_return(c, p) PROVE NoLostWakeup'
  BY <1>8, ZenonT(60) DEF sleep_return, At
<1>9. ASSUME NEW c \in CPUs, NEW p \in Procs, sleep(c, p) PROVE NoLostWakeup'
  BY <1>9, ZenonT(60) DEF sleep, At
<1>10. ASSUME NEW c \in CPUs, NEW p \in Procs, sleep_set(c, p) PROVE NoLostWakeup'
  BY <1>10 DEF sleep_set, At, Sleepers
<1>11. ASSUME NEW c \in CPUs, NEW p \in Procs, sched(c, p) PROVE NoLostWakeup'
  BY <1>11, ZenonT(60) DEF sched, At
<1>12. ASSUME NEW c \in CPUs, NEW p \in Procs, yield(c, p) PROVE NoLostWakeup'
  <2>1. ThreadIrq(irq[c], pc[p]) /\ irq[c].intr = 1
    BY <1>12, ZenonT(60) DEF yield, Interrupts
  <2>2. pc[p] # "wakeup"
    BY <2>1 DEF ThreadIrq, OpenPC
  <2> QED
    BY <1>12, <2>2, ZenonT(60) DEF yield
<1>13. ASSUME NEW c \in CPUs, NEW p \in Procs, acquiresleep(c, p) PROVE NoLostWakeup'
  BY <1>13, ZenonT(60) DEF acquiresleep
<1>14. ASSUME NEW c \in CPUs, NEW p \in Procs, acquiresleep_test(c, p) PROVE NoLostWakeup'
  BY <1>14, ZenonT(60) DEF acquiresleep_test, At
<1>15. ASSUME NEW c \in CPUs, NEW p \in Procs, acquiresleep_take(c, p) PROVE NoLostWakeup'
  BY <1>15, ZenonT(60) DEF acquiresleep_take, At
<1>16. ASSUME NEW c \in CPUs, NEW p \in Procs, releasesleep(c, p) PROVE NoLostWakeup'
  <2>1. loop'[p] = 1 /\ pc'[p] = "wakeup" /\ \A s \in Procs : 1 <= s
    BY <1>16 DEF releasesleep, At, Sleepers, Procs
  <2> QED
    BY <2>1, ZenonT(60)
<1>17. ASSUME NEW c \in CPUs, NEW p \in Procs, wakeup(c, p) PROVE NoLostWakeup'
  <2>1. ASSUME NEW s \in Procs, state'[s] = "SLEEPING", locked' = 0
        PROVE  \E q \in Procs : pc'[q] = "wakeup" /\ loop'[q] <= s
    <3>0. loop[p] \in Procs
      BY <1>17, SchedAssumption DEF wakeup, Procs
    <3>1. state[s] = "SLEEPING" /\ locked = 0 /\ loop[p] \in Procs
      BY <1>17, <2>1, <3>0, ZenonT(60) DEF wakeup
    <3>2. PICK q \in Procs : pc[q] = "wakeup" /\ loop[q] <= s
      BY <3>1, ZenonT(60)
    <3>3. CASE q # p
      BY <1>17, <3>2, <3>3, ZenonT(60) DEF wakeup
    <3>4. CASE q = p
      <4>1. loop[p] # s
        <5>1. SUFFICES ASSUME loop[p] = s PROVE FALSE
          OBVIOUS
        <5>2. state[thread[c]] = "RUNNING" /\ proc[c] = thread[c]
          BY <1>17, ZenonT(60) DEF wakeup, At, Threads
        <5>3. CASE WakeupSkips(c, s)
          BY <3>1, <5>2, <5>3, ZenonT(60) DEF WakeupSkips
        <5>4. CASE ~WakeupSkips(c, s)
          <6>1. chan[s] = 1
            BY <3>1, ZenonT(60) DEF Sleepers
          <6> QED
            BY <1>17, <2>1, <3>1, <5>1, <5>4, <6>1, ZenonT(60) DEF wakeup
        <5> QED
          BY <5>3, <5>4, ZenonT(60)
      <4>2. loop'[p] = loop[p] + 1 /\ pc'[p] = "wakeup"
        BY <1>17, ZenonT(60) DEF wakeup, At
      <4> QED
        BY <3>1, <3>2, <3>4, <4>1, <4>2 DEF Procs
    <3> QED
      BY <3>3, <3>4, ZenonT(60)
  <2> QED
    BY <2>1, ZenonT(60)
<1>18. ASSUME NEW c \in CPUs, NEW p \in Procs, releasesleep_return(c, p) PROVE NoLostWakeup'
  <2>1. \A q, s \in Procs : pc[q] = "wakeup" /\ loop[q] <= s => q # p
    BY <1>18, SchedAssumption DEF releasesleep_return, Procs
  <2> QED
    BY <1>18, <2>1, ZenonT(60) DEF releasesleep_return, At
<1>19. ASSUME NEW c \in CPUs, NEW p \in Procs, NEW v \in Procs, kkill(c, p, v)
       PROVE  NoLostWakeup'
  BY <1>19, ZenonT(60) DEF kkill, At
<1> QED
  BY <1>1, <1>2, <1>3, <1>4, <1>5, <1>6, <1>7, <1>8, <1>9, <1>10, <1>11, <1>12, <1>13, <1>14,
     <1>15, <1>16, <1>17, <1>18, <1>19, ZenonT(60)
     DEF Next, Scheduler, Resume, Sleeping, Sleeplock

\* No step reaches a panic() of sched() or of release().
LEMMA PanicStep == IInv /\ Next => (panicked = 0)'
<1> SUFFICES ASSUME IInv, Next PROVE (panicked = 0)'
  OBVIOUS
<1>0. /\ panicked = 0 /\ Locks /\ Threads /\ Interrupts /\ NoProc \notin Procs
      /\ thread \in [CPUs -> Procs \union {NoProc}] /\ sp \in [CPUs -> Procs]
  BY DEF IInv, Procs, NoProc, TypeOK
<1> USE <1>0
<1> USE DEF Locks
<1>1. ASSUME NEW c \in CPUs, scheduler_outer(c) PROVE (panicked = 0)'
  BY <1>1, ZenonT(60) DEF scheduler_outer
<1>2. ASSUME NEW c \in CPUs, scheduler_acquire(c) PROVE (panicked = 0)'
  BY <1>2, ZenonT(60) DEF scheduler_acquire
<1>3. ASSUME NEW c \in CPUs, scheduler_swtch(c) PROVE (panicked = 0)'
  BY <1>3, ZenonT(60) DEF scheduler_swtch
<1>4. ASSUME NEW c \in CPUs, scheduler_release(c) PROVE (panicked = 0)'
  BY <1>4, ZenonT(60) DEF scheduler_release, Scans
<1>5. ASSUME NEW c \in CPUs, wfi(c) PROVE (panicked = 0)'
  BY <1>5, ZenonT(60) DEF wfi
<1>6. ASSUME NEW c \in CPUs, NEW p \in Procs, yield_return(c, p) PROVE (panicked = 0)'
  BY <1>6, ZenonT(60) DEF yield_return, At, Switches, SavedPC
<1>7. ASSUME NEW c \in CPUs, NEW p \in Procs, forkret(c, p) PROVE (panicked = 0)'
  BY <1>7, ZenonT(60) DEF forkret, At, Switches, SavedPC
<1>8. ASSUME NEW c \in CPUs, NEW p \in Procs, sleep_return(c, p) PROVE (panicked = 0)'
  BY <1>8, ZenonT(60) DEF sleep_return, At, Switches, SavedPC
<1>9. ASSUME NEW c \in CPUs, NEW p \in Procs, sleep(c, p) PROVE (panicked = 0)'
  BY <1>9, ZenonT(60) DEF sleep, At, Switches, SavedPC
<1>10. ASSUME NEW c \in CPUs, NEW p \in Procs, sleep_set(c, p) PROVE (panicked = 0)'
  BY <1>10, ZenonT(60) DEF sleep_set, At, LkPC
<1>11. ASSUME NEW c \in CPUs, NEW p \in Procs, sched(c, p) PROVE (panicked = 0)'
  <2>1. thread[c] = p /\ p # NoProc /\ pc[p] \in SchedPC
    BY <1>11, ZenonT(60) DEF sched, SchedPC
  <2>2. plock[p] = c
    BY <2>1, ZenonT(60) DEF Switches
  <2>3. irq[c].noff = 1 /\ irq[c].intr = 0
    <3>1. ThreadIrq(irq[c], pc[p])
      BY <2>1, ZenonT(60) DEF Interrupts
    <3> QED
      BY <2>1, <3>1, ZenonT(60) DEF ThreadIrq, SchedPC, OpenPC
  <2>4. state[p] # "RUNNING"
    BY <2>1, ZenonT(60) DEF Threads, SchedPC
  <2> QED
    BY <1>11, <2>2, <2>3, <2>4, ZenonT(60) DEF sched, SchedPanics
<1>12. ASSUME NEW c \in CPUs, NEW p \in Procs, yield(c, p) PROVE (panicked = 0)'
  BY <1>12, ZenonT(60) DEF yield, At, Switches, SavedPC
<1>13. ASSUME NEW c \in CPUs, NEW p \in Procs, acquiresleep(c, p) PROVE (panicked = 0)'
  BY <1>13, ZenonT(60) DEF acquiresleep, At, Switches, SavedPC
<1>14. ASSUME NEW c \in CPUs, NEW p \in Procs, acquiresleep_test(c, p) PROVE (panicked = 0)'
  BY <1>14, ZenonT(60) DEF acquiresleep_test, At, Switches, SavedPC
<1>15. ASSUME NEW c \in CPUs, NEW p \in Procs, acquiresleep_take(c, p) PROVE (panicked = 0)'
  BY <1>15, ZenonT(60) DEF acquiresleep_take, At, LkPC
<1>16. ASSUME NEW c \in CPUs, NEW p \in Procs, releasesleep(c, p) PROVE (panicked = 0)'
  BY <1>16, ZenonT(60) DEF releasesleep, At, Switches, SavedPC
<1>17. ASSUME NEW c \in CPUs, NEW p \in Procs, wakeup(c, p) PROVE (panicked = 0)'
  BY <1>17, ZenonT(60) DEF wakeup, At, Switches, SavedPC
<1>18. ASSUME NEW c \in CPUs, NEW p \in Procs, releasesleep_return(c, p)
       PROVE  (panicked = 0)'
  BY <1>18, ZenonT(60) DEF releasesleep_return, At, LkPC
<1>19. ASSUME NEW c \in CPUs, NEW p \in Procs, NEW v \in Procs, kkill(c, p, v)
       PROVE  (panicked = 0)'
  BY <1>19, ZenonT(60) DEF kkill, At, Switches, SavedPC
<1> QED
  BY <1>1, <1>2, <1>3, <1>4, <1>5, <1>6, <1>7, <1>8, <1>9, <1>10, <1>11, <1>12, <1>13, <1>14,
     <1>15, <1>16, <1>17, <1>18, <1>19, ZenonT(60)
     DEF Next, Scheduler, Resume, Sleeping, Sleeplock

-----------------------------------------------------------------------------
\* It holds when the CPUs enter scheduler(), with every process RUNNABLE in forkret().
LEMMA InitInv == Init => IInv
<1> SUFFICES ASSUME Init PROVE IInv
  OBVIOUS
<1>0. NoProc \notin Procs /\ 1 \in Procs /\ NoCPU \notin CPUs /\ 1 \in 1..NPROC + 1
  BY SchedAssumption DEF Procs, NoProc
<1>1. TypeOK /\ panicked = 0
  <2>1. [intr |-> 0, noff |-> 0, intena |-> 0] \in Irq
    BY DEF Irq
  <2> QED
    BY <1>0, <2>1, ZenonT(60) DEF Init, TypeOK, PCs
<1>2. Threads
  BY ZenonT(60) DEF Init, Threads, SavedPC
<1>3. Locks
  BY <1>0, ZenonT(60) DEF Init, Locks, Scans, Switches
<1>4. Interrupts
  BY ZenonT(60) DEF Init, Interrupts, IdleIrq
<1>5. Saved
  BY ZenonT(60) DEF Init, Saved
<1>6. Sleepers /\ NoLostWakeup
  BY DEF Init, Sleepers, NoLostWakeup
<1> QED
  BY <1>1, <1>2, <1>3, <1>4, <1>5, <1>6, ZenonT(60) DEF IInv

\* It depends on the variables of the model only.
LEMMA StutterInv == IInv /\ UNCHANGED vars => IInv'
<1> SUFFICES ASSUME IInv, UNCHANGED vars PROVE IInv'
  OBVIOUS
<1> USE DEF IInv, vars, sleeplock, cpus, locals
<1>1. TypeOK' /\ panicked' = 0
  BY ZenonT(60) DEF TypeOK
<1>2. Threads'
  BY ZenonT(60) DEF Threads, Off
<1>3. Locks'
  BY ZenonT(60) DEF Locks, Scans, Switches
<1>4. Interrupts' /\ Saved'
  BY ZenonT(60) DEF Interrupts, Saved
<1>5. Sleepers' /\ NoLostWakeup'
  BY ZenonT(60) DEF Sleepers, NoLostWakeup
<1> QED
  BY <1>1, <1>2, <1>3, <1>4, <1>5, ZenonT(60)

\* The invariant of all of the code is inductive.
LEMMA NextInv == IInv /\ [Next]_vars => IInv'
<1>1. IInv /\ Next => IInv'
  BY TypeOKStep, PanicStep, ThreadsStep, LocksStep, IrqOKStep, SavedStep, SleepersStep,
     NoLostWakeupStep, ZenonT(60) DEF IInv, IrqOK
<1> QED
  BY <1>1, StutterInv, ZenonT(60)

\* So it holds in every state that the scheduler reaches.
LEMMA InductiveInv == Spec => []IInv
  BY InitInv, NextInv, PTL DEF Spec

(***************************************************************************)
(* For any number of CPUs and processes, a kernel thread is executed by    *)
(* one CPU, the one whose c->proc names it, and no panic() of sched() or   *)
(* of release() is reached, although p->lock changes hands in swtch().     *)
(***************************************************************************)
THEOREM ThreadsHaveOneCPU == Spec => []OneCPUPerThread
<1>1. IInv => OneCPUPerThread
  <2> SUFFICES ASSUME IInv, NEW c \in CPUs, thread[c] # NoProc
               PROVE  /\ proc[c] = thread[c]
                      /\ state[thread[c]] = "RUNNING" \/ plock[thread[c]] = c
                      /\ \A d \in CPUs : thread[d] = thread[c] => d = c
    BY ZenonT(60) DEF IInv, OneCPUPerThread
  <2>1. thread[c] \in Procs
    BY ZenonT(60) DEF IInv, TypeOK
  <2>2. pc[thread[c]] \in SchedPC => plock[thread[c]] = c
    BY <2>1, ZenonT(60) DEF IInv, Locks, Switches
  <2> QED
    BY <2>1, <2>2, ZenonT(60) DEF IInv, Threads, SchedPC
<1> QED
  BY <1>1, InductiveInv, PTL

(***************************************************************************)
(* For any number of CPUs and processes, no wakeup of the sleep lock is    *)
(* lost between the test of lk->locked in acquiresleep() and the swtch()   *)
(* of sleep().                                                             *)
(***************************************************************************)
THEOREM WakeupsReachSleepers == Spec => []NoLostWakeup
<1>1. IInv => NoLostWakeup
  BY ZenonT(60) DEF IInv
<1> QED
  BY <1>1, InductiveInv, PTL

(***************************************************************************)
(* For any number of CPUs and processes, a thread finds interrupts enabled *)
(* where its code has them enabled, on whatever CPU sched() resumes it,    *)
(* and a CPU stops in wfi with interrupts off.                             *)
(***************************************************************************)
THEOREM InterruptsFollowThreads == Spec => []IntrFollowsThread
<1>1. IInv => IntrFollowsThread
  BY ZenonT(60) DEF IInv, Interrupts, ThreadIrq, IdleIrq, OpenPC, IntrFollowsThread, TypeOK, Irq
<1> QED
  BY <1>1, InductiveInv, PTL
=============================================================================
