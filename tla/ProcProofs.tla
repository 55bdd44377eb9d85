----------------------------- MODULE ProcProofs -----------------------------
(***************************************************************************)
(* Proofs about the life of a process, for any number of slots: an exit is *)
(* never missed, no slot is freed under a running thread, and fork, exit   *)
(* and wait are atomic operations on a tree.  Each conjunct of the         *)
(* invariant has a lemma that a step keeps it.                             *)
(***************************************************************************)
EXTENDS Proc, TLAPS

Live == {"RUNNABLE", "SLEEPING"}
HoldsWaitLock == {"zombie", "scan", "sleep"}
InFork == {"parent", "runnable"}

\* What the state of a process says about its thread.
PlaceOK(p) ==
  /\ state[p] \in {"UNUSED", "USED"} => pc[p] = "off"
  /\ state[p] = "RUNNABLE" => pc[p] \notin {"off", "swtch"}
  /\ state[p] = "SLEEPING" => pc[p] = "kwait"
  /\ state[p] = "ZOMBIE" => pc[p] \in {"off", "swtch"}
Places == \A p \in Procs : PlaceOK(p)

\* Who has wait_lock.
Lock == \A p \in Procs : wait_lock = p <=> pc[p] \in HoldsWaitLock

\* Local variables outside the loops that use them, and the argument of kkill().
LoopOK(p) ==
  /\ pc[p] \notin InFork \union {"allocproc", "scan", "kkill"} => pp[p] = 1
  /\ pc[p] # "scan" => havekids[p] = 0
  /\ pc[p] = "kkill" => arg[p] \in KillPids
Loops == \A p \in Procs : LoopOK(p)

\* The slot that kfork() works on without a lock is its own.
ForkOK(p) ==
  /\ pc[p] = "parent" => state[pp[p]] = "USED" /\ parent[pp[p]] = NoProc
  /\ pc[p] = "runnable" => state[pp[p]] = "USED" /\ parent[pp[p]] = p
Forks ==
  /\ \A p \in Procs : ForkOK(p)
  /\ \A p, q \in Procs : pc[p] \in InFork /\ pc[q] \in InFork /\ pp[p] = pp[q] => p = q

\* Who has a parent, and that a parent is alive; init is the root.
FamilyOK(q) ==
  /\ state[q] = "UNUSED" => parent[q] = NoProc
  /\ state[q] \in Live \union {"ZOMBIE"} /\ q # initproc => parent[q] # NoProc
  /\ parent[q] # q
  /\ parent[q] # NoProc => state[parent[q]] \in Live /\ (panicked = 0 => pc[parent[q]] # "zombie")
Family ==
  /\ parent[initproc] = NoProc /\ state[initproc] \in Live
  /\ panicked = 0 => pc[initproc] # "zombie"
  /\ \A q \in Procs : FamilyOK(q)

\* A slot in use has a pid, and no other slot has the same.
Pids ==
  /\ \A s \in Procs : (state[s] = "UNUSED" <=> pid[s] = 0) /\ pid[s] < nextpid
  /\ \A s, t \in Procs : pid[s] = pid[t] /\ pid[s] # 0 => s = t
  /\ pid[initproc] = 1

\* What kwait() has found out under wait_lock is still so; a process that is about
\* to become a zombie has woken its parent.
HasChild(p) == \E q \in Procs : parent[q] = p
NoneExited(p) == \A q \in Procs : parent[q] = p => state[q] # "ZOMBIE"
WaitOK(p) ==
  /\ havekids[p] = 1 => HasChild(p)
  /\ pc[p] = "scan" => \A q \in Procs : q < pp[p] /\ parent[q] = p => state[q] # "ZOMBIE"
  /\ pc[p] = "sleep" \/ state[p] = "SLEEPING" => HasChild(p) /\ NoneExited(p)
  /\ pc[p] = "zombie" /\ parent[p] # NoProc => state[parent[p]] # "SLEEPING"
Waits == \A p \in Procs : WaitOK(p)

\* init does not exit unless it is killed.
InitStays ==
  1 \notin KillPids => killed[initproc] = 0 /\ pc[initproc] # "kexit" /\ panicked = 0

IInv ==
  TypeOK /\ Places /\ Lock /\ Loops /\ Forks /\ Family /\ Pids /\ Waits /\ InitStays

-----------------------------------------------------------------------------
\* kwait_zombie() with the slot freed, and when copyout() fails.
Reap(p) ==
  /\ At(p, "scan") /\ ~ScanDone(p)
  /\ parent[pp[p]] = p /\ LockFree(pp[p]) /\ state[pp[p]] = "ZOMBIE"
  /\ freeproc(pp[p])
  /\ kwait_return(p)

CopyoutFails(p) ==
  /\ At(p, "scan") /\ ~ScanDone(p)
  /\ UNCHANGED <<table, missed>>
  /\ kwait_return(p)

\* The steps that leave the table as it is.
Move(p) ==
  \/ sys_fork(p) \/ sys_wait(p) \/ sys_exit(p) \/ (\E n \in KillPids : sys_kill(p, n))
  \/ usertrap(p) \/ allocproc_next(p) \/ kexit_sched(p)
  \/ kwait(p) \/ kwait_next(p) \/ kwait_fails(p) \/ kwait_goes_on(p) \/ CopyoutFails(p)

\* The others.
Change(p) ==
  \/ kfork(p) \/ kfork_fails(p) \/ kfork_parent(p) \/ kfork_runnable(p)
  \/ kexit(p) \/ kexit_zombie(p) \/ Reap(p) \/ sleep(p) \/ kkill(p)

\* What all of the former have in common.
Still(p) ==
  /\ UNCHANGED <<state, parent, killed, pid, nextpid, panicked>>
  /\ \A q \in Procs \ {p} :
       pc'[q] = pc[q] /\ pp'[q] = pp[q] /\ havekids'[q] = havekids[q] /\ arg'[q] = arg[q]
  /\ pc[p] \notin InFork \union {"zombie"} /\ pc'[p] \notin InFork \union {"zombie"}
  /\ \/ state[p] = "RUNNABLE" /\ pc'[p] \notin {"off", "swtch"}
     \/ pc[p] = "swtch" /\ pc'[p] = "off"

\* What they do with wait_lock and with local variables.
Orderly(p) ==
  /\ \/ wait_lock' = wait_lock /\ (pc'[p] \in HoldsWaitLock <=> pc[p] \in HoldsWaitLock)
     \/ wait_lock = NoProc /\ wait_lock' = p /\ pc'[p] \in HoldsWaitLock
     \/ pc[p] \in HoldsWaitLock /\ wait_lock' = NoProc /\ pc'[p] \notin HoldsWaitLock
  /\ pc'[p] \notin {"allocproc", "scan", "kkill"} =>
       pp'[p] = 1 \/ (pp'[p] = pp[p] /\ pc[p] \notin {"allocproc", "scan", "kkill"})
  /\ pc'[p] # "scan" => havekids'[p] = 0 \/ (havekids'[p] = havekids[p] /\ pc[p] # "scan")
  /\ pc'[p] = "kkill" => arg'[p] \in KillPids
  /\ pc'[p] = "kexit" => p # initproc \/ killed[p] = 1
  /\ pc'[p] = "scan" => kwait(p) \/ kwait_next(p)
  /\ pc'[p] = "sleep" => kwait_goes_on(p)

\* Every step is one of these.
LEMMA StepCases ==
  ASSUME NEW p \in Procs, Calls(p) \/ Kernel(p)
  PROVE  Move(p) \/ Change(p)
<1>1. CASE kwait_zombie(p)
  BY <1>1, ZenonT(60) DEF kwait_zombie, Reap, CopyoutFails, Move, Change
<1>2. CASE ~kwait_zombie(p)
  BY <1>2, ZenonT(60) DEF Calls, Kernel, Move, Change
<1> QED BY <1>1, <1>2, ZenonT(60)

\* None of the former touches the table, or is part of kfork() or the end of kexit().
LEMMA MoveIsStill ==
  ASSUME TypeOK, NEW p \in Procs, Move(p)
  PROVE  Still(p)
<1> USE DEF Still, TypeOK, InFork
<1>1. CASE sys_fork(p)
  BY <1>1, ZenonT(60) DEF sys_fork, Syscall, At, Goto, table
<1>2. CASE sys_wait(p)
  BY <1>2, ZenonT(60) DEF sys_wait, Syscall, At, Goto, table
<1>3. CASE sys_exit(p)
  BY <1>3, ZenonT(60) DEF sys_exit, Syscall, At, Goto, table
<1>4. CASE \E n \in KillPids : sys_kill(p, n)
  BY <1>4, ZenonT(60) DEF sys_kill, Syscall, At, Goto, table
<1>5. CASE usertrap(p)
  BY <1>5, ZenonT(60) DEF usertrap, Goto, table, locals
<1>6. CASE allocproc_next(p)
  BY <1>6, ZenonT(60) DEF allocproc_next, At, Goto, table
<1>7. CASE kexit_sched(p)
  BY <1>7, ZenonT(60) DEF kexit_sched, Goto, table, locals
<1>8. CASE kwait(p)
  BY <1>8, ZenonT(60) DEF kwait, At, Goto, table, locals
<1>9. CASE kwait_next(p)
  BY <1>9, ZenonT(60) DEF kwait_next, At, ScanDone, table
<1>10. CASE kwait_fails(p)
  BY <1>10, ZenonT(60) DEF kwait_fails, kwait_return, At, ScanDone, Goto, table
<1>11. CASE kwait_goes_on(p)
  BY <1>11, ZenonT(60) DEF kwait_goes_on, At, ScanDone, Goto, table
<1>12. CASE CopyoutFails(p)
  BY <1>12, ZenonT(60) DEF CopyoutFails, kwait_return, At, ScanDone, Goto, table
<1> QED BY <1>1, <1>2, <1>3, <1>4, <1>5, <1>6, <1>7, <1>8, <1>9, <1>10, <1>11, <1>12, ZenonT(60)
   DEF Move

\* They take and release wait_lock where kwait() does, and keep their loops in order.
LEMMA MoveIsOrderly ==
  ASSUME TypeOK, NEW p \in Procs, Move(p)
  PROVE  Orderly(p)
<1> USE DEF Orderly, HoldsWaitLock, TypeOK
<1>1. CASE sys_fork(p)
  BY <1>1, ZenonT(60) DEF sys_fork, Syscall, At, Goto, table
<1>2. CASE sys_wait(p)
  BY <1>2, ZenonT(60) DEF sys_wait, Syscall, At, Goto, table
<1>3. CASE sys_exit(p)
  BY <1>3, ZenonT(60) DEF sys_exit, Syscall, At, Goto, table
<1>4. CASE \E n \in KillPids : sys_kill(p, n)
  BY <1>4, ZenonT(60) DEF sys_kill, Syscall, At, Goto, table
<1>5. CASE usertrap(p)
  BY <1>5, ZenonT(60) DEF usertrap, Goto, table, locals
<1>6. CASE allocproc_next(p)
  BY <1>6, ZenonT(60) DEF allocproc_next, At, Goto, table
<1>7. CASE kexit_sched(p)
  BY <1>7, ZenonT(60) DEF kexit_sched, Goto, table, locals
<1>8. CASE kwait(p)
  BY <1>8, ZenonT(60) DEF kwait, At, Goto, table, locals
<1>9. CASE kwait_next(p)
  BY <1>9, ZenonT(60) DEF kwait_next, At, ScanDone, table
<1>10. CASE kwait_fails(p)
  BY <1>10, ZenonT(60) DEF kwait_fails, kwait_return, At, ScanDone, Goto, table
<1>11. CASE kwait_goes_on(p)
  BY <1>11, ZenonT(60) DEF kwait_goes_on, At, ScanDone, Goto, table
<1>12. CASE CopyoutFails(p)
  BY <1>12, ZenonT(60) DEF CopyoutFails, kwait_return, At, ScanDone, Goto, table
<1> QED BY <1>1, <1>2, <1>3, <1>4, <1>5, <1>6, <1>7, <1>8, <1>9, <1>10, <1>11, <1>12, ZenonT(60)
   DEF Move

\* The sets of the type invariant, for the prover.
LEMMA Sets ==
  ASSUME ProcAssumption
  PROVE  /\ \A l \in {"off", "user", "return", "allocproc", "parent", "runnable", "kexit", "zombie",
                      "swtch", "kwait", "scan", "sleep", "kkill"} : l \in PCs
         /\ "UNUSED" \in States /\ "USED" \in States /\ "RUNNABLE" \in States
         /\ "SLEEPING" \in States /\ "ZOMBIE" \in States
         /\ 1 \in Procs /\ 1 \in Slots /\ initproc \in Procs /\ NoProc \notin Procs
         /\ \A i \in Procs : i \in Slots /\ i + 1 \in Slots /\ (i < NPROC => i + 1 \in Procs)
         /\ \A i \in Procs : i < NPROC \/ i = NPROC
         /\ \A i \in Slots : ~(i > NPROC) => i \in Procs
         /\ \A n \in Nat : n + 1 \in Nat
BY DEF ProcAssumption, PCs, States, Slots, Procs, initproc, NoProc

\* kkill() goes on to the next slot or returns.
LEMMA KillMoves ==
  ASSUME NEW p \in Procs, kkill(p)
  PROVE  \/ /\ pp' = [pp EXCEPT ![p] = 1] /\ arg' = [arg EXCEPT ![p] = 0]
            /\ pc' = [pc EXCEPT ![p] = "return"]
         \/ /\ pp[p] # NPROC /\ pp' = [pp EXCEPT ![p] = @ + 1] /\ arg' = arg /\ pc' = pc
<1>1. CASE pid[pp[p]] = arg[p] \/ pp[p] = NPROC
  BY <1>1, ZenonT(60) DEF kkill, Goto
<1>2. CASE ~(pid[pp[p]] = arg[p] \/ pp[p] = NPROC)
  BY <1>2, ZenonT(60) DEF kkill
<1> QED BY <1>1, <1>2, ZenonT(60)

\* The types after a step of kkill().
LEMMA KillTypes ==
  ASSUME ProcAssumption, TypeOK, NEW p \in Procs, kkill(p)
  PROVE  /\ state' \in [Procs -> States] /\ killed' \in [Procs -> {0, 1}]
         /\ pc' \in [Procs -> PCs] /\ pp' \in [Procs -> Slots] /\ arg' \in [Procs -> Nat]
         /\ \A q \in Procs : pc'[q] # "scan" => pp'[q] \in Procs
         /\ missed' \subseteq Procs
<1>1. pp[p] \in Procs /\ pc[p] = "kkill"
  BY ZenonT(60) DEF TypeOK, kkill, At
<1>2. state' \in [Procs -> States]
  <2>1. state' = state \/ state' = [state EXCEPT ![pp[p]] = WokenByKill(@)]
    BY ZenonT(60) DEF kkill
  <2> QED BY <1>1, <2>1, Sets, ZenonT(60) DEF TypeOK, WokenByKill
<1>3. killed' \in [Procs -> {0, 1}] /\ missed' \subseteq Procs
  <2>1. killed \in [Procs -> {0, 1}] /\ missed \subseteq Procs
    BY ZenonT(60) DEF TypeOK
  <2>2. \/ /\ killed' = [killed EXCEPT ![pp[p]] = 1]
           /\ missed' = missed \union {pp[p]} \/ missed' = missed
        \/ killed' = killed /\ missed' = missed
    BY ZenonT(60) DEF kkill
  <2> QED BY <1>1, <2>1, <2>2, ZenonT(60)
<1>4. pc \in [Procs -> PCs] /\ pp \in [Procs -> Slots] /\ arg \in [Procs -> Nat]
  BY ZenonT(60) DEF TypeOK
<1>5. \A q \in Procs : pc[q] # "scan" => pp[q] \in Procs
  BY ZenonT(60) DEF TypeOK
<1>6. 0 \in Nat /\ 1 \in Procs /\ 1 \in Slots /\ "return" \in PCs
  BY Sets, ZenonT(60)
<1>7. CASE /\ pp' = [pp EXCEPT ![p] = 1] /\ arg' = [arg EXCEPT ![p] = 0]
           /\ pc' = [pc EXCEPT ![p] = "return"]
  BY <1>2, <1>3, <1>4, <1>5, <1>6, <1>7, ZenonT(60)
<1>8. CASE pp[p] # NPROC /\ pp' = [pp EXCEPT ![p] = @ + 1] /\ arg' = arg /\ pc' = pc
  <2>1. pp[p] + 1 \in Procs /\ pp[p] + 1 \in Slots
    BY <1>1, <1>8, Sets, ZenonT(60)
  <2> QED BY <1>2, <1>3, <1>4, <1>5, <1>8, <2>1, ZenonT(60)
<1> QED BY <1>7, <1>8, KillMoves, ZenonT(60)

\* Every step keeps the types.
LEMMA TypeOKStep ==
  ASSUME ProcAssumption, TypeOK, Places, Forks, NEW p \in Procs, Move(p) \/ Change(p)
  PROVE  TypeOK'
<1> USE Sets DEF TypeOK
<1>1. CASE sys_fork(p)
  BY <1>1, ProcAssumption, ZenonT(60) DEF sys_fork, Syscall, At, Goto, table
<1>2. CASE sys_wait(p)
  BY <1>2, ProcAssumption, ZenonT(60) DEF sys_wait, Syscall, At, Goto, table
<1>3. CASE sys_exit(p)
  BY <1>3, ProcAssumption, ZenonT(60) DEF sys_exit, Syscall, At, Goto, table
<1>4. CASE \E n \in KillPids : sys_kill(p, n)
  <2>1. PICK n \in KillPids : sys_kill(p, n)
    BY <1>4, ZenonT(60)
  <2>2. n \in Nat
    BY ProcAssumption, ZenonT(60) DEF ProcAssumption
  <2> QED BY <2>1, <2>2, ZenonT(60) DEF sys_kill, Syscall, At, Goto, table
<1>5. CASE usertrap(p)
  BY <1>5, ProcAssumption, ZenonT(60) DEF usertrap, Goto, table, locals
<1>6. CASE allocproc_next(p)
  BY <1>6, ProcAssumption, ZenonT(60) DEF allocproc_next, At, Goto, table
<1>7. CASE kexit_sched(p)
  BY <1>7, ProcAssumption, ZenonT(60) DEF kexit_sched, Goto, table, locals
<1>8. CASE kwait(p)
  BY <1>8, ProcAssumption, ZenonT(60) DEF kwait, At, Goto, table, locals
<1>9. CASE kwait_next(p)
  <2>1. pp[p] \in Procs /\ pc[p] = "scan"
    BY <1>9, ZenonT(60) DEF kwait_next, At, ScanDone
  <2>2. pp' \in [Procs -> Slots]
    BY <1>9, <2>1, ZenonT(60) DEF kwait_next
  <2>3. \A q \in Procs : pc'[q] # "scan" => pp'[q] \in Procs
    BY <1>9, <2>1, ZenonT(60) DEF kwait_next
  <2>4. havekids' \in [Procs -> {0, 1}]
    BY <1>9, ZenonT(60) DEF kwait_next
  <2> QED BY <1>9, <2>2, <2>3, <2>4, ZenonT(60) DEF kwait_next, table
<1>10. CASE kwait_fails(p)
  BY <1>10, ProcAssumption, ZenonT(60) DEF kwait_fails, kwait_return, At, ScanDone, Goto, table
<1>11. CASE kwait_goes_on(p)
  BY <1>11, ProcAssumption, ZenonT(60) DEF kwait_goes_on, At, ScanDone, Goto, table
<1>12. CASE CopyoutFails(p)
  BY <1>12, ProcAssumption, ZenonT(60) DEF CopyoutFails, kwait_return, At, ScanDone, Goto, table
<1>13. CASE kfork(p)
  BY <1>13, ProcAssumption, ZenonT(60) DEF kfork, allocpid, At, Goto, locals
<1>14. CASE kfork_fails(p)
  BY <1>14, ProcAssumption, ZenonT(60) DEF kfork_fails, freeproc, Killed, allocpid, At, Goto
<1>15. CASE kfork_parent(p)
  BY <1>15, ProcAssumption, ZenonT(60) DEF kfork_parent, At, Goto, locals
<1>16. CASE kfork_runnable(p)
  <2>1. pp[p] \in Procs /\ pc[p] = "runnable"
    BY <1>16, ZenonT(60) DEF kfork_runnable, At
  <2>2. pc' \in [Procs -> PCs] /\ \A q \in Procs : pc'[q] # "scan" /\ q # p => pp'[q] \in Procs
    <3>1. pc' \in [Procs -> PCs]
      BY <1>16, <2>1, ZenonT(60) DEF kfork_runnable
    <3>2. pc[pp[p]] = "off"
      <4>1. state[pp[p]] = "USED"
        BY <1>16, <2>1, ZenonT(60) DEF Forks, ForkOK
      <4> QED BY <4>1, <2>1, ZenonT(60) DEF Places, PlaceOK
    <3> QED BY <1>16, <2>1, <3>1, <3>2, ZenonT(60) DEF kfork_runnable
  <2>3. pp' \in [Procs -> Slots] /\ pp'[p] \in Procs
    BY <1>16, <2>1, ZenonT(60) DEF kfork_runnable
  <2>4. state' \in [Procs -> States]
    BY <1>16, <2>1, ZenonT(60) DEF kfork_runnable
  <2> QED BY <1>16, <2>2, <2>3, <2>4, ZenonT(60) DEF kfork_runnable
<1>17. CASE kexit(p)
  BY <1>17, ProcAssumption, ZenonT(60) DEF kexit, reparent, wakeup, Woken, At, Goto, locals
<1>18. CASE kexit_zombie(p)
  BY <1>18, ProcAssumption, ZenonT(60) DEF kexit_zombie, At, Goto, locals
<1>19. CASE Reap(p)
  BY <1>19, ProcAssumption, ZenonT(60) DEF Reap, freeproc, Killed, kwait_return, At, ScanDone, Goto
<1>20. CASE sleep(p)
  BY <1>20, ProcAssumption, ZenonT(60) DEF sleep, At, Goto, locals
<1>21. CASE kkill(p)
  <2> QED BY <1>21, KillTypes, ZenonT(60) DEF kkill
<1> QED BY <1>1, <1>2, <1>3, <1>4, <1>5, <1>6, <1>7, <1>8, <1>9, <1>10,
        <1>11, <1>12, <1>13, <1>14, <1>15, <1>16, <1>17, <1>18, <1>19, <1>20, <1>21, ZenonT(60)
   DEF Move, Change

-----------------------------------------------------------------------------
(* What the steps that change the table do to it, slot by slot. *)

\* The function f becomes g by a new value v for s.
Only(f, g, s, v) == g[s] = v /\ \A q \in Procs : q # s => g[q] = f[q]

ForkStarts(p, s) ==
  /\ pc[p] = "allocproc" /\ state[p] = "RUNNABLE" /\ state[s] = "UNUSED"
  /\ Only(state, state', s, "USED") /\ Only(pid, pid', s, nextpid) /\ nextpid' = nextpid + 1
  /\ Only(pc, pc', p, "parent")
  /\ UNCHANGED <<parent, killed, wait_lock, pp, havekids, arg, panicked>>

ForkFails(p, s) ==
  /\ pc[p] = "allocproc" /\ state[p] = "RUNNABLE" /\ state[s] = "UNUSED"
  /\ Only(state, state', s, "UNUSED") /\ Only(parent, parent', s, NoProc)
  /\ Only(killed, killed', s, 0) /\ Only(pid, pid', s, 0) /\ nextpid' = nextpid + 1
  /\ Only(pc, pc', p, "return") /\ Only(pp, pp', p, 1)
  /\ UNCHANGED <<wait_lock, havekids, arg, panicked>>

ForkLinks(p, s) ==
  /\ pc[p] = "parent" /\ state[p] = "RUNNABLE" /\ wait_lock = NoProc
  /\ Only(parent, parent', s, p)
  /\ Only(pc, pc', p, "runnable")
  /\ UNCHANGED <<state, killed, pid, nextpid, wait_lock, pp, havekids, arg, panicked>>

ForkEnds(p, s) ==
  /\ pc[p] = "runnable" /\ state[p] = "RUNNABLE"
  /\ Only(state, state', s, "RUNNABLE")
  /\ pc'[s] = "user" /\ (p # s => pc'[p] = "return")
  /\ \A q \in Procs : q # p /\ q # s => pc'[q] = pc[q]
  /\ Only(pp, pp', p, 1)
  /\ UNCHANGED <<parent, killed, pid, nextpid, wait_lock, havekids, arg, panicked>>

ExitStarts(p) ==
  /\ pc[p] = "kexit" /\ state[p] = "RUNNABLE" /\ wait_lock = NoProc
  /\ p = initproc => panicked' = 1
  /\ p # initproc => panicked' = 0
  /\ wait_lock' = p
  /\ \A q \in Procs : /\ parent[q] = p => parent'[q] = initproc
                      /\ parent[q] # p => parent'[q] = parent[q]
  /\ \A q \in Procs : /\ state'[q] = state[q] \/ (state[q] = "SLEEPING" /\ state'[q] = "RUNNABLE")
                      /\ q = parent[p] => state'[q] # "SLEEPING"
                      /\ q = initproc /\ HasChild(p) => state'[q] # "SLEEPING"
  /\ Only(pc, pc', p, "zombie")
  /\ UNCHANGED <<killed, pid, nextpid, pp, havekids, arg>>

ExitEnds(p) ==
  /\ pc[p] = "zombie" /\ state[p] = "RUNNABLE"
  /\ Only(state, state', p, "ZOMBIE")
  /\ wait_lock' = NoProc
  /\ Only(pc, pc', p, "swtch")
  /\ UNCHANGED <<parent, killed, pid, nextpid, pp, havekids, arg, panicked>>

Reaps(p, s) ==
  /\ pc[p] = "scan" /\ state[p] = "RUNNABLE"
  /\ parent[s] = p /\ state[s] = "ZOMBIE" /\ pc[s] # "swtch"
  /\ Only(state, state', s, "UNUSED") /\ Only(parent, parent', s, NoProc)
  /\ Only(killed, killed', s, 0) /\ Only(pid, pid', s, 0)
  /\ wait_lock' = NoProc
  /\ Only(pc, pc', p, "return") /\ Only(pp, pp', p, 1) /\ Only(havekids, havekids', p, 0)
  /\ UNCHANGED <<nextpid, arg, panicked>>

Sleeps(p) ==
  /\ pc[p] = "sleep" /\ state[p] = "RUNNABLE"
  /\ Only(state, state', p, "SLEEPING")
  /\ wait_lock' = NoProc
  /\ Only(pc, pc', p, "kwait")
  /\ UNCHANGED <<parent, killed, pid, nextpid, pp, havekids, arg, panicked>>

Kills(p, s) ==
  /\ pc[p] = "kkill" /\ state[p] = "RUNNABLE"
  /\ \A q \in Procs : state'[q] = state[q] \/ (state[q] = "SLEEPING" /\ state'[q] = "RUNNABLE")
  /\ \A q \in Procs : killed'[q] = killed[q] \/ (q = s /\ pid[s] = arg[p])
  /\ pc'[p] = "return" \/ pc'[p] = "kkill"
  /\ pc'[p] = "return" => pp'[p] = 1
  /\ pc'[p] = "kkill" => arg'[p] = arg[p]
  /\ \A q \in Procs : q # p => pc'[q] = pc[q] /\ pp'[q] = pp[q] /\ arg'[q] = arg[q]
  /\ UNCHANGED <<parent, pid, nextpid, wait_lock, havekids, panicked>>

\* Every step that changes the table does it in one of these ways.
LEMMA Effects ==
  ASSUME ProcAssumption, TypeOK, NEW p \in Procs, Change(p)
  PROVE  \/ /\ pp[p] \in Procs
            /\ \/ ForkStarts(p, pp[p]) \/ ForkFails(p, pp[p]) \/ ForkLinks(p, pp[p])
               \/ ForkEnds(p, pp[p]) \/ Reaps(p, pp[p]) \/ Kills(p, pp[p])
         \/ ExitStarts(p) \/ ExitEnds(p) \/ Sleeps(p)
<1>0. (pc[p] # "scan" \/ ~ScanDone(p)) => pp[p] \in Procs
  BY Sets, ZenonT(60) DEF TypeOK, ScanDone
<1>1. CASE kfork(p)
  BY <1>0, <1>1, ZenonT(60) DEF kfork, allocpid, ForkStarts, Only, At, Goto, locals, TypeOK
<1>2. CASE kfork_fails(p)
  BY <1>0, <1>2, ZenonT(60)
     DEF kfork_fails, freeproc, Killed, allocpid, ForkFails, Only, At, Goto, TypeOK
<1>3. CASE kfork_parent(p)
  BY <1>0, <1>3, ZenonT(60) DEF kfork_parent, ForkLinks, Only, At, Goto, locals, TypeOK
<1>4. CASE kfork_runnable(p)
  BY <1>0, <1>4, ZenonT(60) DEF kfork_runnable, ForkEnds, Only, At, TypeOK
<1>5. CASE kexit(p)
  <2>1. pc[p] = "kexit" /\ state[p] = "RUNNABLE" /\ wait_lock = NoProc /\ wait_lock' = p
    BY <1>5, ZenonT(60) DEF kexit, At
  <2>2. (p = initproc => panicked' = 1) /\ (p # initproc => panicked' = 0)
    BY <1>5, ZenonT(60) DEF kexit
  <2>3. \A q \in Procs : /\ parent[q] = p => parent'[q] = initproc
                         /\ parent[q] # p => parent'[q] = parent[q]
    BY <1>5, ZenonT(60) DEF kexit, reparent
  <2>4. \A q \in Procs : /\ state'[q] = state[q] \/ (state[q] = "SLEEPING" /\ state'[q] = "RUNNABLE")
                         /\ q \in Woken(p) => state'[q] # "SLEEPING"
    BY <1>5, ZenonT(60) DEF kexit, wakeup
  <2>5. parent[p] \in Woken(p) /\ (HasChild(p) => initproc \in Woken(p))
    BY ZenonT(60) DEF Woken, HasChild
  <2>6. Only(pc, pc', p, "zombie")
    BY <1>5, ZenonT(60) DEF kexit, Goto, Only, TypeOK
  <2>7. UNCHANGED <<killed, pid, nextpid, pp, havekids, arg>>
    BY <1>5, ZenonT(60) DEF kexit, locals
  <2> QED BY <2>1, <2>2, <2>3, <2>4, <2>5, <2>6, <2>7, ZenonT(60) DEF ExitStarts
<1>6. CASE kexit_zombie(p)
  BY <1>0, <1>6, ZenonT(60) DEF kexit_zombie, ExitEnds, Only, At, Goto, locals, TypeOK
<1>7. CASE Reap(p)
  BY <1>0, <1>7, ZenonT(60)
     DEF Reap, freeproc, Killed, kwait_return, LockFree, Reaps, Only, At, ScanDone, Goto, TypeOK
<1>8. CASE sleep(p)
  BY <1>0, <1>8, ZenonT(60) DEF sleep, Sleeps, Only, At, Goto, locals, TypeOK
<1>9. CASE kkill(p)
  <2>1. pc[p] = "kkill" /\ state[p] = "RUNNABLE" /\ pp[p] \in Procs
    BY <1>9, <1>0, ZenonT(60) DEF kkill, At
  <2>2. \A q \in Procs : state'[q] = state[q] \/ (state[q] = "SLEEPING" /\ state'[q] = "RUNNABLE")
    <3>1. state' = state \/ state' = [state EXCEPT ![pp[p]] = WokenByKill(@)]
      BY <1>9, ZenonT(60) DEF kkill
    <3> QED BY <3>1, ZenonT(60) DEF TypeOK, WokenByKill
  <2>3. \A q \in Procs : killed'[q] = killed[q] \/ (q = pp[p] /\ pid[pp[p]] = arg[p])
    <3>1. \/ killed' = killed
          \/ killed' = [killed EXCEPT ![pp[p]] = 1] /\ pid[pp[p]] = arg[p]
      BY <1>9, ZenonT(60) DEF kkill
    <3> QED BY <3>1, ZenonT(60) DEF TypeOK
  <2>4. \A q \in Procs : q # p => pc'[q] = pc[q] /\ pp'[q] = pp[q] /\ arg'[q] = arg[q]
    BY <1>9, KillMoves, ZenonT(60) DEF TypeOK
  <2>5. \/ pc'[p] = "return" /\ pp'[p] = 1
        \/ pc'[p] = "kkill" /\ arg'[p] = arg[p]
    BY <1>9, <2>1, KillMoves, ZenonT(60) DEF TypeOK
  <2>6. UNCHANGED <<parent, pid, nextpid, wait_lock, havekids, panicked>>
    BY <1>9, ZenonT(60) DEF kkill
  <2>7. Kills(p, pp[p])
    BY <2>1, <2>2, <2>3, <2>4, <2>5, <2>6, ZenonT(60) DEF Kills
  <2> QED BY <2>1, <2>7, ZenonT(60)
<1> QED BY <1>1, <1>2, <1>3, <1>4, <1>5, <1>6, <1>7, <1>8, <1>9, ZenonT(60) DEF Change

\* A thread goes where the state of its process lets it.
LEMMA PlacesStep ==
  ASSUME ProcAssumption, IInv, panicked = 0, TypeOK', NEW p \in Procs, Move(p) \/ Change(p)
  PROVE  Places'
<1>0. TypeOK /\ Places /\ Forks
  BY ZenonT(60) DEF IInv
<1> USE <1>0 DEF Places, PlaceOK
<1>1. CASE Move(p)
  BY <1>1, MoveIsStill, ZenonT(60) DEF Still
<1>2. CASE pp[p] \in Procs /\ ForkStarts(p, pp[p])
  BY <1>2, ZenonT(60) DEF ForkStarts, Only
<1>3. CASE pp[p] \in Procs /\ ForkFails(p, pp[p])
  BY <1>3 DEF ForkFails, Only
<1>4. CASE pp[p] \in Procs /\ ForkLinks(p, pp[p])
  BY <1>4, ZenonT(60) DEF ForkLinks, Only
<1>5. CASE pp[p] \in Procs /\ ForkEnds(p, pp[p])
  BY <1>5, ZenonT(60) DEF ForkEnds, Only
<1>6. CASE pp[p] \in Procs /\ Reaps(p, pp[p])
  BY <1>6 DEF Reaps, Only
<1>7. CASE pp[p] \in Procs /\ Kills(p, pp[p])
  BY <1>7, ZenonT(60) DEF Kills, Only
<1>8. CASE ExitStarts(p)
  BY <1>8, ZenonT(60) DEF ExitStarts, Only
<1>9. CASE ExitEnds(p)
  BY <1>9, ZenonT(60) DEF ExitEnds, Only
<1>10. CASE Sleeps(p)
  BY <1>10, ZenonT(60) DEF Sleeps, Only
<1> HIDE <1>0 DEF Places, PlaceOK
<1> QED BY <1>0, <1>1, <1>2, <1>3, <1>4, <1>5, <1>6, <1>7, <1>8, <1>9, <1>10, Effects, ZenonT(60)

\* Nobody else gets the slot that kfork() fills.
LEMMA ForksStep ==
  ASSUME ProcAssumption, IInv, panicked = 0, TypeOK', NEW p \in Procs, Move(p) \/ Change(p)
  PROVE  Forks'
<1>0. TypeOK /\ Places /\ Forks /\ Family
  BY ZenonT(60) DEF IInv
<1>a. \A q \in Procs : pc[q] \in InFork => pp[q] \in Procs /\ state[pp[q]] = "USED"
  BY <1>0, ZenonT(60) DEF TypeOK, Forks, ForkOK, InFork
<1>b. \A q \in Procs : state[q] = "UNUSED" => parent[q] = NoProc
  BY <1>0, ZenonT(60) DEF Family, FamilyOK
<1>c. \A q, r \in Procs : pc[q] \in InFork /\ pc[r] \in InFork /\ pp[q] = pp[r] => q = r
  BY <1>0, ZenonT(60) DEF Forks
<1>d. \A q \in Procs : ForkOK(q)
  BY <1>0, ZenonT(60) DEF Forks
<1>e. \A q \in Procs : state[q] = "RUNNABLE" => pc[q] # "off"
  BY <1>0, ZenonT(60) DEF Places, PlaceOK
<1>f. NoProc \notin Procs
  BY Sets, ZenonT(60)
<1> USE <1>a, <1>b, <1>c, <1>d, <1>e, <1>f DEF ForkOK, InFork, Forks
<1>1. CASE Move(p)
  BY <1>0, <1>1, MoveIsStill DEF Still
<1>2. CASE pp[p] \in Procs /\ ForkStarts(p, pp[p])
  BY <1>2 DEF ForkStarts, Only
<1>3. CASE pp[p] \in Procs /\ ForkFails(p, pp[p])
  BY <1>3 DEF ForkFails, Only
<1>4. CASE pp[p] \in Procs /\ ForkLinks(p, pp[p])
  BY <1>4 DEF ForkLinks, Only
<1>5. CASE pp[p] \in Procs /\ ForkEnds(p, pp[p])
  BY <1>5 DEF ForkEnds, Only
<1>6. CASE pp[p] \in Procs /\ Reaps(p, pp[p])
  BY <1>6 DEF Reaps, Only
<1>7. CASE pp[p] \in Procs /\ Kills(p, pp[p])
  BY <1>7 DEF Kills, Only
<1>8. CASE ExitStarts(p)
  BY <1>8 DEF ExitStarts, Only
<1>9. CASE ExitEnds(p)
  BY <1>9 DEF ExitEnds, Only
<1>10. CASE Sleeps(p)
  BY <1>10 DEF Sleeps, Only
<1> HIDE <1>a, <1>b, <1>c, <1>d, <1>e, <1>f DEF ForkOK, InFork, Forks
<1> QED BY <1>0, <1>1, <1>2, <1>3, <1>4, <1>5, <1>6, <1>7, <1>8, <1>9, <1>10, Effects, ZenonT(60)

\* A parent lives, or init adopts: reparent() comes before the exit is final.
LEMMA FamilyStep ==
  ASSUME ProcAssumption, IInv, panicked = 0, TypeOK', NEW p \in Procs, Move(p) \/ Change(p)
  PROVE  Family'
<1>0. TypeOK /\ Places /\ Forks /\ Family
  BY ZenonT(60) DEF IInv
<1>a. initproc \in Procs /\ NoProc \notin Procs
  BY Sets, ZenonT(60)
<1>b. \A q \in Procs : parent[q] \in Procs \/ parent[q] = NoProc
  BY <1>0, ZenonT(60) DEF TypeOK
<1>c. \A q \in Procs : PlaceOK(q) /\ FamilyOK(q)
  BY <1>0, ZenonT(60) DEF Places, Family
<1>d. parent[initproc] = NoProc /\ state[initproc] \in Live /\ pc[initproc] # "zombie"
  BY <1>0, ZenonT(60) DEF Family
<1>e. \A q \in Procs : (parent[q] \in Procs \/ parent[q] = NoProc)'
  BY Sets, ZenonT(60) DEF TypeOK
<1> USE <1>a, <1>b, <1>c, <1>d, <1>e DEF FamilyOK, PlaceOK, Live, Family
<1>1. CASE Move(p)
  BY <1>0, <1>1, MoveIsStill DEF Still
<1>2. CASE pp[p] \in Procs /\ ForkStarts(p, pp[p])
  BY <1>2 DEF ForkStarts, Only
<1>3. CASE pp[p] \in Procs /\ ForkFails(p, pp[p])
  BY <1>3 DEF ForkFails, Only
<1>4. CASE pp[p] \in Procs /\ ForkLinks(p, pp[p])
  BY <1>0, <1>4 DEF ForkLinks, Only, Forks, ForkOK
<1>5. CASE pp[p] \in Procs /\ ForkEnds(p, pp[p])
  BY <1>0, <1>5 DEF ForkEnds, Only, Forks, ForkOK
<1>6. CASE pp[p] \in Procs /\ Reaps(p, pp[p])
  BY <1>6 DEF Reaps, Only
<1>7. CASE pp[p] \in Procs /\ Kills(p, pp[p])
  BY <1>7 DEF Kills, Only
<1>8. CASE ExitStarts(p)
  BY <1>8 DEF ExitStarts, Only
<1>9. CASE ExitEnds(p)
  BY <1>9 DEF ExitEnds, Only
<1>10. CASE Sleeps(p)
  BY <1>10 DEF Sleeps, Only
<1> HIDE <1>a, <1>b, <1>c, <1>d, <1>e DEF FamilyOK, PlaceOK, Live, Family
<1> QED BY <1>0, <1>1, <1>2, <1>3, <1>4, <1>5, <1>6, <1>7, <1>8, <1>9, <1>10, Effects, ZenonT(60)

\* allocpid() gives a pid that nobody has.
LEMMA PidsStep ==
  ASSUME ProcAssumption, IInv, panicked = 0, TypeOK', NEW p \in Procs, Move(p) \/ Change(p)
  PROVE  Pids'
<1>0. TypeOK /\ Family /\ Pids /\ Forks
  BY ZenonT(60) DEF IInv
<1>a. nextpid \in Nat /\ \A s \in Procs : pid[s] \in Nat
  BY <1>0, ZenonT(60) DEF TypeOK
<1>b. initproc \in Procs /\ state[initproc] \in Live
  BY <1>0, Sets, ZenonT(60) DEF Family
<1>c. /\ \A s \in Procs : (state[s] = "UNUSED" <=> pid[s] = 0) /\ pid[s] < nextpid
      /\ \A s, t \in Procs : pid[s] = pid[t] /\ pid[s] # 0 => s = t
      /\ pid[initproc] = 1
  BY <1>0, ZenonT(60) DEF Pids
<1> USE <1>a, <1>b, <1>c DEF Pids, Live
<1>1. CASE Move(p)
  BY <1>0, <1>1, MoveIsStill DEF Still
<1>2. CASE pp[p] \in Procs /\ ForkStarts(p, pp[p])
  <2>1. nextpid > 1
    BY ZenonT(60)
  <2>2. \A s \in Procs : (state[s] = "UNUSED" <=> pid[s] = 0)' /\ (pid[s] < nextpid)'
    BY <1>2, <2>1 DEF ForkStarts, Only
  <2>3. \A s, t \in Procs : (pid[s] = pid[t] /\ pid[s] # 0)' => s = t
    BY <1>2, <2>1 DEF ForkStarts, Only
  <2>4. (pid[initproc] = 1)'
    BY <1>2, ZenonT(60) DEF ForkStarts, Only
  <2> QED BY <2>2, <2>3, <2>4, ZenonT(60)
<1>3. CASE pp[p] \in Procs /\ ForkFails(p, pp[p])
  BY <1>3 DEF ForkFails, Only
<1>4. CASE pp[p] \in Procs /\ ForkLinks(p, pp[p])
  BY <1>4, ZenonT(60) DEF ForkLinks, Only
<1>5. CASE pp[p] \in Procs /\ ForkEnds(p, pp[p])
  BY <1>0, <1>5 DEF ForkEnds, Only, Forks, ForkOK
<1>6. CASE pp[p] \in Procs /\ Reaps(p, pp[p])
  BY <1>6 DEF Reaps, Only
<1>7. CASE pp[p] \in Procs /\ Kills(p, pp[p])
  BY <1>7 DEF Kills, Only
<1>8. CASE ExitStarts(p)
  BY <1>8 DEF ExitStarts, Only
<1>9. CASE ExitEnds(p)
  BY <1>9, ZenonT(60) DEF ExitEnds, Only
<1>10. CASE Sleeps(p)
  BY <1>10, ZenonT(60) DEF Sleeps, Only
<1> HIDE <1>a, <1>b, <1>c DEF Pids, Live
<1> QED BY <1>0, <1>1, <1>2, <1>3, <1>4, <1>5, <1>6, <1>7, <1>8, <1>9, <1>10, Effects, ZenonT(60)

\* Local variables are reset where a loop ends.
LEMMA LoopsStep ==
  ASSUME ProcAssumption, IInv, panicked = 0, TypeOK', NEW p \in Procs, Move(p) \/ Change(p)
  PROVE  Loops'
<1>0. TypeOK /\ Loops /\ Places /\ Forks
  BY ZenonT(60) DEF IInv
<1>a. \A q \in Procs : LoopOK(q)
  BY <1>0, ZenonT(60) DEF Loops
<1>b. \A q \in Procs : PlaceOK(q)
  BY <1>0, ZenonT(60) DEF Places
<1> USE <1>a, <1>b DEF LoopOK, Loops, PlaceOK, InFork
<1>1. CASE Move(p)
  BY <1>0, <1>1, MoveIsStill, MoveIsOrderly DEF Still, Orderly
<1>2. CASE pp[p] \in Procs /\ ForkStarts(p, pp[p])
  BY <1>2, ZenonT(60) DEF ForkStarts, Only
<1>3. CASE pp[p] \in Procs /\ ForkFails(p, pp[p])
  BY <1>3 DEF ForkFails, Only
<1>4. CASE pp[p] \in Procs /\ ForkLinks(p, pp[p])
  BY <1>4, ZenonT(60) DEF ForkLinks, Only
<1>5. CASE pp[p] \in Procs /\ ForkEnds(p, pp[p])
  BY <1>0, <1>5 DEF ForkEnds, Only, Forks, ForkOK
<1>6. CASE pp[p] \in Procs /\ Reaps(p, pp[p])
  BY <1>6 DEF Reaps, Only
<1>7. CASE pp[p] \in Procs /\ Kills(p, pp[p])
  BY <1>7 DEF Kills, Only
<1>8. CASE ExitStarts(p)
  BY <1>8, ZenonT(60) DEF ExitStarts, Only
<1>9. CASE ExitEnds(p)
  BY <1>9, ZenonT(60) DEF ExitEnds, Only
<1>10. CASE Sleeps(p)
  BY <1>10, ZenonT(60) DEF Sleeps, Only
<1> HIDE <1>a, <1>b DEF LoopOK, Loops, PlaceOK, InFork
<1> QED BY <1>0, <1>1, <1>2, <1>3, <1>4, <1>5, <1>6, <1>7, <1>8, <1>9, <1>10, Effects, ZenonT(60)

\* wait_lock is held in the right places.
LEMMA LockStep ==
  ASSUME ProcAssumption, IInv, panicked = 0, TypeOK', NEW p \in Procs, Move(p) \/ Change(p)
  PROVE  Lock'
<1>0. TypeOK /\ Lock /\ Places /\ Forks
  BY ZenonT(60) DEF IInv
<1>a. NoProc \notin Procs /\ (wait_lock \in Procs \/ wait_lock = NoProc)
  BY <1>0, Sets, ZenonT(60) DEF TypeOK
<1>b. \A q \in Procs : wait_lock = q <=> pc[q] \in HoldsWaitLock
  BY <1>0, ZenonT(60) DEF Lock
<1>c. \A q \in Procs : PlaceOK(q)
  BY <1>0, ZenonT(60) DEF Places
<1> USE <1>a, <1>b, <1>c DEF Lock, HoldsWaitLock
<1>1. CASE Move(p)
  BY <1>0, <1>1, MoveIsStill, MoveIsOrderly DEF Still, Orderly
<1>2. CASE pp[p] \in Procs /\ ForkStarts(p, pp[p])
  BY <1>2, ZenonT(60) DEF ForkStarts, Only
<1>3. CASE pp[p] \in Procs /\ ForkFails(p, pp[p])
  BY <1>3, ZenonT(60) DEF ForkFails, Only
<1>4. CASE pp[p] \in Procs /\ ForkLinks(p, pp[p])
  BY <1>4, ZenonT(60) DEF ForkLinks, Only
<1>5. CASE pp[p] \in Procs /\ ForkEnds(p, pp[p])
  <2>1. state[pp[p]] = "USED"
    BY <1>0, <1>5, ZenonT(60) DEF ForkEnds, Forks, ForkOK
  <2>2. pc[pp[p]] = "off"
    BY <1>5, <2>1, ZenonT(60) DEF PlaceOK
  <2> QED BY <1>5, <2>2, ZenonT(60) DEF ForkEnds
<1>6. CASE pp[p] \in Procs /\ Reaps(p, pp[p])
  BY <1>6 DEF Reaps, Only
<1>7. CASE pp[p] \in Procs /\ Kills(p, pp[p])
  BY <1>7, ZenonT(60) DEF Kills, Only
<1>8. CASE ExitStarts(p)
  BY <1>8, ZenonT(60) DEF ExitStarts, Only
<1>9. CASE ExitEnds(p)
  BY <1>9, ZenonT(60) DEF ExitEnds, Only
<1>10. CASE Sleeps(p)
  BY <1>10, ZenonT(60) DEF Sleeps, Only
<1> HIDE <1>a, <1>b, <1>c DEF Lock, HoldsWaitLock
<1> QED BY <1>0, <1>1, <1>2, <1>3, <1>4, <1>5, <1>6, <1>7, <1>8, <1>9, <1>10, Effects, ZenonT(60)

\* init is not killed, hence does not exit.
LEMMA InitStaysStep ==
  ASSUME ProcAssumption, IInv, panicked = 0, TypeOK', NEW p \in Procs, Move(p) \/ Change(p)
  PROVE  InitStays'
<1>0. TypeOK /\ InitStays /\ Pids /\ Loops /\ Forks /\ Places
  BY ZenonT(60) DEF IInv
<1>a. initproc \in Procs /\ pid[initproc] = 1 /\ PlaceOK(initproc)
  BY <1>0, Sets, ZenonT(60) DEF Pids, Places
<1>b. 1 \notin KillPids => killed[initproc] = 0 /\ pc[initproc] # "kexit"
  BY <1>0, ZenonT(60) DEF InitStays
<1> USE <1>a, <1>b DEF InitStays
<1>1. CASE Move(p)
  <2>1. UNCHANGED <<killed, panicked>> /\ (initproc # p => pc'[initproc] = pc[initproc])
    BY <1>0, <1>1, MoveIsStill, ZenonT(60) DEF Still
  <2>2. CASE p = initproc /\ pc'[p] = "kexit"
    <3>1. killed[p] = 1
      BY <1>0, <1>1, <2>2, MoveIsOrderly, ZenonT(60) DEF Orderly
    <3> QED BY <2>1, <2>2, <3>1
  <2> QED BY <2>1, <2>2, ZenonT(60)
<1>2. CASE pp[p] \in Procs /\ ForkStarts(p, pp[p])
  BY <1>2, ZenonT(60) DEF ForkStarts, Only
<1>3. CASE pp[p] \in Procs /\ ForkFails(p, pp[p])
  BY <1>3, ZenonT(60) DEF ForkFails, Only
<1>4. CASE pp[p] \in Procs /\ ForkLinks(p, pp[p])
  BY <1>4, ZenonT(60) DEF ForkLinks, Only
<1>5. CASE pp[p] \in Procs /\ ForkEnds(p, pp[p])
  <2>1. p # pp[p]
    BY <1>0, <1>5, ZenonT(60) DEF ForkEnds, Forks, ForkOK
  <2> QED BY <1>5, <2>1, ZenonT(60) DEF ForkEnds
<1>6. CASE pp[p] \in Procs /\ Reaps(p, pp[p])
  BY <1>6, ZenonT(60) DEF Reaps, Only
<1>7. CASE pp[p] \in Procs /\ Kills(p, pp[p])
  <2>1. 1 \notin KillPids => killed'[initproc] = 0
    BY <1>0, <1>7 DEF Kills, Loops, LoopOK
  <2> QED BY <1>7, <2>1, ZenonT(60) DEF Kills
<1>8. CASE ExitStarts(p)
  BY <1>8, ZenonT(60) DEF ExitStarts, Only
<1>9. CASE ExitEnds(p)
  BY <1>9, ZenonT(60) DEF ExitEnds, Only
<1>10. CASE Sleeps(p)
  BY <1>10, ZenonT(60) DEF Sleeps, Only
<1> HIDE <1>a, <1>b DEF InitStays
<1> QED BY <1>0, <1>1, <1>2, <1>3, <1>4, <1>5, <1>6, <1>7, <1>8, <1>9, <1>10, Effects, ZenonT(60)

\* What kwait() saw stays true until it sleeps, and sleeping.
LEMMA WaitsStep ==
  ASSUME ProcAssumption, IInv, panicked = 0, TypeOK', NEW p \in Procs, Move(p) \/ Change(p)
  PROVE  Waits'
<1>0. TypeOK /\ Places /\ Lock /\ Loops /\ Forks /\ Family /\ Waits
  BY ZenonT(60) DEF IInv
<1>a. initproc \in Procs /\ NoProc \notin Procs
  BY Sets, ZenonT(60)
<1>b. \A q \in Procs : (parent[q] \in Procs \/ parent[q] = NoProc) /\ havekids[q] \in {0, 1}
  BY <1>0, ZenonT(60) DEF TypeOK
<1>c. \A q \in Procs : WaitOK(q)
  BY <1>0, ZenonT(60) DEF Waits
<1>d. \A q, r \in Procs : pc[q] \in HoldsWaitLock /\ pc[r] \in HoldsWaitLock => q = r
  BY <1>0, ZenonT(60) DEF Lock
<1>e. \A q \in Procs : PlaceOK(q)
  BY <1>0, ZenonT(60) DEF Places
<1>f. \A q \in Procs : pc[q] # "scan" => havekids[q] = 0
  BY <1>0, ZenonT(60) DEF Loops, LoopOK
<1>g. wait_lock = NoProc => \A q \in Procs : pc[q] \notin HoldsWaitLock
  BY <1>0, <1>a, ZenonT(60) DEF Lock
<1> USE <1>a, <1>b, <1>c, <1>d, <1>e, <1>f, <1>g
        DEF WaitOK, Waits, HasChild, NoneExited, HoldsWaitLock, PlaceOK
<1>1. CASE Move(p)
  <2>1. Still(p) /\ Orderly(p)
    BY <1>0, <1>1, MoveIsStill, MoveIsOrderly, ZenonT(60)
  <2>2. \A q \in Procs : q # p => WaitOK(q)'
    BY <2>1 DEF Still
  <2>3. state[p] # "SLEEPING" /\ pc'[p] # "zombie" /\ state' = state /\ parent' = parent
    BY <2>1, ZenonT(60) DEF Still
  <2>4. CASE kwait(p)
    <3>1. pp'[p] = 1 /\ havekids'[p] = 0 /\ pc'[p] = "scan"
      BY <1>0, <2>4, ZenonT(60) DEF kwait, locals, At, Goto, Loops, LoopOK, InFork, TypeOK
    <3>2. \A q \in Procs : ~(q < 1)
      BY DEF Procs
    <3> QED BY <2>2, <2>3, <3>1, <3>2
  <2>5. CASE kwait_next(p)
    <3>1. pc'[p] = "scan" /\ pc[p] = "scan" /\ pp'[p] = pp[p] + 1 /\ pp[p] \in Procs
      BY <1>0, <2>5, Sets DEF kwait_next, At, ScanDone, TypeOK
    <3>2. parent[pp[p]] = p => state[pp[p]] # "ZOMBIE"
      BY <2>5, ZenonT(60) DEF kwait_next
    <3>3. havekids'[p] = havekids[p] \/ parent[pp[p]] = p
      BY <1>0, <2>5, ZenonT(60) DEF kwait_next, TypeOK
    <3>4. \A q \in Procs : q < pp[p] + 1 => q < pp[p] \/ q = pp[p]
      BY <3>1 DEF Procs
    <3> QED BY <2>2, <2>3, <3>1, <3>2, <3>3, <3>4
  <2>6. CASE kwait_goes_on(p)
    <3>1. pc'[p] = "sleep" /\ pc[p] = "scan" /\ havekids[p] = 1 /\ havekids'[p] = 0
      BY <1>0, <2>6 DEF kwait_goes_on, At, Goto, TypeOK
    <3>2. \A q \in Procs : q < pp[p]
      <4>1. pp[p] > NPROC
        BY <2>6, ZenonT(60) DEF kwait_goes_on, ScanDone
      <4>2. pp[p] \in Slots
        BY <1>0, ZenonT(60) DEF TypeOK
      <4> HIDE <1>a, <1>b, <1>c, <1>d, <1>e, <1>f, <1>g
      <4> QED BY <4>1, <4>2 DEF Procs, Slots, ProcAssumption
    <3> QED BY <2>2, <2>3, <3>1, <3>2
  <2>7. CASE ~kwait(p) /\ ~kwait_next(p) /\ ~kwait_goes_on(p)
    <3>1. pc'[p] # "scan" /\ pc'[p] # "sleep" /\ havekids'[p] = 0
      BY <2>1, <2>7, ZenonT(60) DEF Orderly
    <3> QED BY <2>2, <2>3, <3>1
  <2> QED BY <2>4, <2>5, <2>6, <2>7, ZenonT(60)
<1>2. CASE pp[p] \in Procs /\ ForkStarts(p, pp[p])
  BY <1>2 DEF ForkStarts, Only
<1>3. CASE pp[p] \in Procs /\ ForkFails(p, pp[p])
  <2>1. \A q \in Procs : state'[q] = state[q] /\ parent'[q] = parent[q]
    BY <1>0, <1>3 DEF ForkFails, Only, Family, FamilyOK
  <2>2. havekids' = havekids /\ \A q \in Procs : pc'[q] = pc[q] \/ pc'[q] = "return"
    BY <1>3, ZenonT(60) DEF ForkFails, Only
  <2>3. \A q \in Procs : pc'[q] = "scan" => pp'[q] = pp[q]
    BY <1>3, ZenonT(60) DEF ForkFails, Only
  <2> QED BY <2>1, <2>2, <2>3
<1>4. CASE pp[p] \in Procs /\ ForkLinks(p, pp[p])
  <2>1. state[pp[p]] = "USED" /\ parent[pp[p]] = NoProc
    BY <1>0, <1>4, ZenonT(60) DEF ForkLinks, Forks, ForkOK
  <2>2. \A q \in Procs : q # pp[p] => parent'[q] = parent[q]
    BY <1>4, ZenonT(60) DEF ForkLinks, Only
  <2>3. parent'[pp[p]] = p /\ state' = state /\ havekids' = havekids
    BY <1>4, ZenonT(60) DEF ForkLinks, Only
  <2>4. \A q \in Procs : pc'[q] \notin HoldsWaitLock
    BY <1>4, ZenonT(60) DEF ForkLinks, Only
  <2>5. \A q \in Procs : havekids[q] = 0
    BY <1>4, ZenonT(60) DEF ForkLinks
  <2> QED BY <1>4, <2>1, <2>2, <2>3, <2>4, <2>5
<1>5. CASE pp[p] \in Procs /\ ForkEnds(p, pp[p])
  BY <1>5 DEF ForkEnds, Only
<1>6. CASE pp[p] \in Procs /\ Reaps(p, pp[p])
  BY <1>6 DEF Reaps, Only
<1>7. CASE pp[p] \in Procs /\ Kills(p, pp[p])
  BY <1>7 DEF Kills, Only
<1>8. CASE ExitStarts(p)
  BY <1>8 DEF ExitStarts, Only
<1>9. CASE ExitEnds(p)
  BY <1>9 DEF ExitEnds, Only
<1>10. CASE Sleeps(p)
  BY <1>10 DEF Sleeps, Only
<1> HIDE <1>a, <1>b, <1>c, <1>d, <1>e, <1>f, <1>g
        DEF WaitOK, Waits, HasChild, NoneExited, HoldsWaitLock, PlaceOK
<1> QED BY <1>0, <1>1, <1>2, <1>3, <1>4, <1>5, <1>6, <1>7, <1>8, <1>9, <1>10, Effects, ZenonT(60)

-----------------------------------------------------------------------------
\* userinit() establishes the invariant.
LEMMA InitInv == ASSUME ProcAssumption, Init PROVE IInv
<1> USE DEF Init, initproc, NoProc
<1>0. 1 \in Procs /\ NPROC \in Nat /\ MaxPid \in Nat /\ NPROC >= 1 /\ MaxPid >= 1
  BY DEF ProcAssumption, Procs
<1>1. TypeOK
  BY <1>0, Sets, ZenonT(60) DEF TypeOK, Procs
<1>2. Places /\ Lock /\ Loops
  BY <1>0, Sets, ZenonT(60) DEF Places, PlaceOK, Lock, HoldsWaitLock, Loops, LoopOK
<1>3. Forks /\ Family
  BY <1>0, Sets, ZenonT(60) DEF Forks, ForkOK, InFork, Family, FamilyOK, Live
<1>4. Pids
  BY <1>0 DEF Pids
<1>5. Waits
  BY <1>0, Sets, ZenonT(60) DEF Waits, WaitOK
<1>6. InitStays
  BY <1>0, ZenonT(60) DEF InitStays
<1> QED BY <1>1, <1>2, <1>3, <1>4, <1>5, <1>6, ZenonT(60) DEF IInv

\* A stutter keeps it.
LEMMA StutterInv == ASSUME IInv, UNCHANGED vars PROVE IInv'
BY DEF vars, table, locals, IInv, TypeOK, Places, PlaceOK, Lock, Loops, LoopOK, Forks, ForkOK,
   Family, FamilyOK, Pids, Waits, WaitOK, HasChild, NoneExited, InitStays

\* Every step keeps it.
LEMMA NextInv == ASSUME ProcAssumption, IInv, Next PROVE IInv'
<1>1. panicked = 0
  BY ZenonT(60) DEF Next
<1>2. PICK p \in Procs : Calls(p) \/ Kernel(p)
  BY ZenonT(60) DEF Next
<1>3. Move(p) \/ Change(p)
  BY <1>2, StepCases, ZenonT(60)
<1>4. TypeOK'
  BY <1>3, TypeOKStep, ZenonT(60) DEF IInv
<1>5. Places' /\ Lock' /\ Loops' /\ Forks' /\ Family'
  BY <1>1, <1>3, <1>4, PlacesStep, LockStep, LoopsStep, ForksStep, FamilyStep, ZenonT(60)
<1>6. Pids' /\ Waits' /\ InitStays'
  BY <1>1, <1>3, <1>4, PidsStep, WaitsStep, InitStaysStep, ZenonT(60)
<1> QED BY <1>4, <1>5, <1>6, ZenonT(60) DEF IInv

\* So it always holds.
LEMMA InductiveInv == Spec => []IInv
<1>1. Init => IInv
  BY ProcAssumption, InitInv, ZenonT(60)
<1>2. IInv /\ [Next]_vars => IInv'
  BY ProcAssumption, StutterInv, NextInv, ZenonT(60)
<1> QED BY <1>1, <1>2, PTL DEF Spec

(***************************************************************************)
(* kwait(), kexit() and kfork(), any number of slots, kills at any time:   *)
(* whoever sleeps in kwait() has a child and none that has exited.  The    *)
(* parent is woken before its child is a ZOMBIE; that this is no race      *)
(* rests on wait_lock, which kexit() keeps until then.                     *)
(***************************************************************************)
THEOREM ExitsAreNoticed == Spec => []NoLostExit
<1>1. IInv => NoLostExit
  BY ZenonT(60) DEF IInv, NoLostExit, Waits, WaitOK, HasChild, NoneExited
<1> QED BY <1>1, InductiveInv, PTL

(***************************************************************************)
(* kwait() frees, and allocproc() hands out, only slots whose thread has   *)
(* left its kernel stack for good.                                         *)
(***************************************************************************)
THEOREM StacksAreLeft == Spec => []FreedOffStack
<1>1. IInv => FreedOffStack
  BY ZenonT(60) DEF IInv, FreedOffStack, Places, PlaceOK
<1> QED BY <1>1, InductiveInv, PTL

-----------------------------------------------------------------------------
(* The refinement of ProcTree. *)

\* Slots in the tree are in use, and found again by their pid.
LEMMA InTreeIs ==
  IInv => \A s \in InTree :
            /\ s \in Procs /\ pid[s] \in Nat \ {0} /\ SlotOf(pid[s]) = s
            /\ parent[s] = NoProc \/ parent[s] \in InTree
            /\ state[s] # "UNUSED"
<1> SUFFICES ASSUME IInv, NEW s \in InTree
             PROVE  /\ s \in Procs /\ pid[s] \in Nat \ {0} /\ SlotOf(pid[s]) = s
                    /\ parent[s] = NoProc \/ parent[s] \in InTree
                    /\ state[s] # "UNUSED"
  BY ZenonT(60)
<1>1. s \in Procs
  BY ZenonT(60) DEF InTree
<1>2. \A t \in InTree : t \in Procs /\ state[t] # "UNUSED" /\ pid[t] # 0
  BY ZenonT(60) DEF IInv, InTree, Family, FamilyOK, Live, Pids
<1>3. pid[s] \in Nat \ {0}
  BY <1>1, <1>2 DEF IInv, TypeOK
<1>4. \A t \in InTree : pid[t] = pid[s] => t = s
  BY <1>1, <1>2, ZenonT(60) DEF IInv, Pids
<1>5. SlotOf(pid[s]) = s
  BY <1>4, ZenonT(60) DEF SlotOf
<1>6. parent[s] = NoProc \/ parent[s] \in InTree
  <2>1. parent[s] = NoProc \/ (parent[s] \in Procs /\ state[parent[s]] \in Live)
    BY <1>1 DEF IInv, TypeOK, Family, FamilyOK
  <2>2. \A t \in Procs : state[t] \in Live => t \in InTree
    BY ZenonT(60) DEF IInv, Family, FamilyOK, InTree
  <2> QED BY <2>1, <2>2, ZenonT(60)
<1> QED BY <1>1, <1>2, <1>3, <1>5, <1>6, ZenonT(60)

Node(s) == [parent |-> Pid(parent[s]), dead |-> Dead(s)]

\* The tree, slot by slot.
LEMMA TreeIs ==
  IInv => /\ TreeOfSlots = [n \in PidsInTree |-> TreeOfSlots[n]]
          /\ \A s \in InTree : pid[s] \in PidsInTree /\ TreeOfSlots[pid[s]] = Node(s)
          /\ \A n \in PidsInTree : \E s \in InTree : n = pid[s]
<1> SUFFICES ASSUME IInv
             PROVE  /\ TreeOfSlots = [n \in PidsInTree |-> TreeOfSlots[n]]
                    /\ \A s \in InTree : pid[s] \in PidsInTree /\ TreeOfSlots[pid[s]] = Node(s)
                    /\ \A n \in PidsInTree : \E s \in InTree : n = pid[s]
  BY ZenonT(60)
<1>1. \A s \in InTree : SlotOf(pid[s]) = s
  BY InTreeIs, ZenonT(60)
<1>2. \A n \in PidsInTree : \E s \in InTree : n = pid[s]
  BY ZenonT(60) DEF PidsInTree
<1>3. \A s \in InTree : pid[s] \in PidsInTree
  BY ZenonT(60) DEF PidsInTree
<1>4. \A s \in InTree : TreeOfSlots[pid[s]] = Node(s)
  BY <1>1, <1>3, ZenonT(60) DEF TreeOfSlots, Node
<1>5. TreeOfSlots = [n \in PidsInTree |-> TreeOfSlots[n]]
  BY ZenonT(60) DEF TreeOfSlots
<1> QED BY <1>2, <1>3, <1>4, <1>5, ZenonT(60)

\* The same in the next state.
LEMMA PrimedTree ==
  IInv' => /\ (TreeOfSlots = [n \in PidsInTree |-> TreeOfSlots[n]])'
           /\ (\A s \in InTree : pid[s] \in PidsInTree /\ TreeOfSlots[pid[s]] = Node(s))'
           /\ (\A n \in PidsInTree : \E s \in InTree : n = pid[s])'
           /\ (\A s \in InTree : pid[s] \in Nat \ {0})'
<1>1. IInv => \A s \in InTree : pid[s] \in Nat \ {0}
  BY InTreeIs, ZenonT(60)
<1> QED BY <1>1, TreeIs, PTL

\* A step that keeps who is in the tree, pids, parents and who is dead.
LEMMA TreeStutters ==
  ASSUME IInv, IInv', InTree' = InTree,
         \A s \in InTree : pid'[s] = pid[s] /\ parent'[s] = parent[s] /\ Dead(s)' = Dead(s)
  PROVE  TreeOfSlots' = TreeOfSlots
<1>1. \A s \in InTree : Node(s)' = Node(s)
  <2>1. \A s \in InTree : Pid(parent[s])' = Pid(parent[s])
    BY InTreeIs, ZenonT(60) DEF Pid
  <2> QED BY <2>1, ZenonT(60) DEF Node
<1>2. PidsInTree' = PidsInTree
  BY ZenonT(60) DEF PidsInTree
<1>3. \A n \in PidsInTree : TreeOfSlots'[n] = TreeOfSlots[n]
  BY <1>1, TreeIs, PrimedTree
<1> QED BY <1>2, <1>3, TreeIs, PrimedTree, ZenonT(60)

\* The child enters the tree when kfork() sets its parent.
LEMMA ForkLinksTree ==
  ASSUME IInv, IInv', NEW p \in Procs, NEW s \in Procs, s = pp[p], ForkLinks(p, s)
  PROVE  Tree!Next
<1>1. /\ state[s] = "USED" /\ parent[s] = NoProc /\ s # initproc /\ pc[s] = "off"
      /\ p # s /\ p \in InTree /\ NoProc \notin Procs
  BY ProcAssumption, Sets
     DEF IInv, ForkLinks, Forks, ForkOK, Family, FamilyOK, Live, InTree, Places, PlaceOK
<1>2. InTree' = InTree \union {s} /\ s \notin InTree
  BY <1>1 DEF ForkLinks, Only, InTree
<1>3. pid' = pid /\ \A t \in InTree : parent'[t] = parent[t] /\ Dead(t)' = Dead(t)
  BY <1>1, <1>2, ZenonT(60) DEF ForkLinks, Only, Dead, InTree
<1>4. Dead(s)' = 0 /\ Dead(p) = 0 /\ parent'[s] = p
  BY <1>1, ZenonT(60) DEF ForkLinks, Only, Dead
<1>5. \A t \in InTree : Node(t)' = Node(t)
  BY <1>3, ZenonT(60) DEF Node, Pid
<1>6. Node(s)' = [parent |-> pid[p], dead |-> 0]
  BY <1>1, <1>3, <1>4, ZenonT(60) DEF Node, Pid
<1>7. PidsInTree' = PidsInTree \union {pid[s]}
  BY <1>2, <1>3, ZenonT(60) DEF PidsInTree
<1>8. pid[s] \notin PidsInTree /\ pid[s] \in Nat \ {0}
  <2>1. pid[s] \in Nat \ {0}
    <3>1. \A t \in InTree' : pid'[t] \in Nat \ {0}
      BY PrimedTree, ZenonT(60)
    <3> QED BY <1>2, <1>3, <3>1, ZenonT(60)
  <2>2. \A t \in InTree : pid[t] # pid[s]
    BY <1>1, <1>2, InTreeIs, ZenonT(60) DEF IInv, Pids
  <2> QED BY <2>1, <2>2, TreeIs, ZenonT(60)
<1>9. Tree!Alive(pid[p]) /\ pid[p] \in PidsInTree
  <2>1. TreeOfSlots[pid[p]].dead = 0
    <3>1. TreeOfSlots[pid[p]] = Node(p)
      BY <1>1, TreeIs, ZenonT(60)
    <3> QED BY <3>1, <1>4 DEF Node
  <2>2. pid[p] \in PidsInTree /\ DOMAIN TreeOfSlots = PidsInTree
    BY <1>1, TreeIs, ZenonT(60)
  <2> QED BY <2>1, <2>2, ZenonT(60) DEF Tree!Alive
<1>10. TreeOfSlots' = [m \in PidsInTree \union {pid[s]} |->
                         IF m = pid[s] THEN [parent |-> pid[p], dead |-> 0] ELSE TreeOfSlots[m]]
  <2>1. TreeOfSlots'[pid[s]] = [parent |-> pid[p], dead |-> 0]
    BY <1>2, <1>3, <1>6, PrimedTree, ZenonT(60)
  <2>2. \A m \in PidsInTree : TreeOfSlots'[m] = TreeOfSlots[m]
    <3> SUFFICES ASSUME NEW m \in PidsInTree PROVE TreeOfSlots'[m] = TreeOfSlots[m]
      BY ZenonT(60)
    <3>1. PICK t \in InTree : m = pid[t]
      BY TreeIs, ZenonT(60)
    <3>2. TreeOfSlots[m] = Node(t)
      BY <3>1, TreeIs, ZenonT(60)
    <3>3. TreeOfSlots'[m] = Node(t)'
      BY <3>1, <1>2, <1>3, PrimedTree, ZenonT(60)
    <3> QED BY <3>2, <3>3, <1>5, ZenonT(60)
  <2>3. TreeOfSlots' = [m \in PidsInTree' |-> TreeOfSlots'[m]]
    BY PrimedTree, ZenonT(60)
  <2> QED BY <2>1, <2>2, <2>3, <1>7, <1>8, ZenonT(60)
<1>11. DOMAIN TreeOfSlots = PidsInTree
  BY TreeIs, ZenonT(60)
<1>12. Tree!Fork(pid[p], pid[s])
  BY <1>8, <1>9, <1>10, <1>11, ZenonT(60) DEF Tree!Fork
<1>13. pid[s] \in DOMAIN TreeOfSlots'
  BY <1>10, ZenonT(60)
<1> QED BY <1>8, <1>9, <1>11, <1>12, <1>13, ZenonT(60) DEF Tree!Next

\* kexit() leaves the tree, and gives its children to init, in one step.
LEMMA ExitTree ==
  ASSUME IInv, IInv', 1 \notin KillPids, NEW p \in Procs, ExitStarts(p)
  PROVE  Tree!Next
<1>1. /\ p # initproc /\ p \in InTree /\ parent[p] # p /\ initproc \in Procs /\ NoProc \notin Procs
      /\ initproc \in InTree /\ pid[initproc] = 1
  BY ProcAssumption, Sets, ZenonT(60)
     DEF IInv, ExitStarts, InitStays, Family, FamilyOK, Live, InTree, Pids
<1>2. InTree' = InTree
  BY <1>1, ZenonT(60) DEF ExitStarts, InTree
<1>3. pid' = pid /\ parent'[p] = parent[p]
  BY <1>1, ZenonT(60) DEF ExitStarts
<1>4. \A t \in InTree : t # p => Dead(t)' = Dead(t)
  BY ZenonT(60) DEF ExitStarts, Only, Dead, InTree
<1>5. Dead(p) = 0 /\ Dead(p)' = 1
  BY ZenonT(60) DEF ExitStarts, Only, Dead
<1>6. Node(p)' = [Node(p) EXCEPT !.dead = 1]
  BY <1>3, <1>5 DEF Node, Pid
<1>7. \A t \in InTree : t # p /\ parent[t] = p => Node(t)' = [Node(t) EXCEPT !.parent = 1]
  <2> SUFFICES ASSUME NEW t \in InTree, t # p, parent[t] = p
               PROVE  Node(t)' = [Node(t) EXCEPT !.parent = 1]
    BY ZenonT(60)
  <2>1. parent'[t] = initproc
    BY ZenonT(60) DEF ExitStarts, InTree
  <2>2. Pid(parent[t])' = 1
    BY <1>1, <1>3, <2>1, ZenonT(60) DEF Pid
  <2> QED BY <2>2, <1>4 DEF Node
<1>8. \A t \in InTree : t # p /\ parent[t] # p => Node(t)' = Node(t)
  <2> SUFFICES ASSUME NEW t \in InTree, t # p, parent[t] # p PROVE Node(t)' = Node(t)
    BY ZenonT(60)
  <2>1. parent'[t] = parent[t]
    BY ZenonT(60) DEF ExitStarts, InTree
  <2>2. Pid(parent[t])' = Pid(parent[t])
    BY <1>3, <2>1, ZenonT(60) DEF Pid
  <2> QED BY <2>2, <1>4, ZenonT(60) DEF Node
<1>9. \A t \in InTree : Node(t).parent = pid[p] <=> parent[t] = p
  <2>1. \A t \in InTree : pid[t] # 0 /\ t \in Procs /\ (parent[t] = NoProc \/ parent[t] \in InTree)
    BY InTreeIs
  <2>2. \A t \in InTree : pid[t] = pid[p] => t = p
    BY <1>1, <2>1, ZenonT(60) DEF IInv, Pids
  <2> QED BY <1>1, <2>1, <2>2, ZenonT(60) DEF Node, Pid
<1>10. \A t \in InTree : pid[t] = pid[p] => t = p
  BY <1>1, InTreeIs, ZenonT(60) DEF IInv, Pids
<1>11. PidsInTree' = PidsInTree
  BY <1>2, <1>3, ZenonT(60) DEF PidsInTree
<1>12. TreeOfSlots' = [m \in PidsInTree |->
                         IF m = pid[p] THEN [TreeOfSlots[m] EXCEPT !.dead = 1]
                         ELSE IF TreeOfSlots[m].parent = pid[p]
                                THEN [TreeOfSlots[m] EXCEPT !.parent = 1]
                         ELSE TreeOfSlots[m]]
  <2>1. ASSUME NEW m \in PidsInTree
        PROVE  TreeOfSlots'[m] = IF m = pid[p] THEN [TreeOfSlots[m] EXCEPT !.dead = 1]
                                 ELSE IF TreeOfSlots[m].parent = pid[p]
                                        THEN [TreeOfSlots[m] EXCEPT !.parent = 1]
                                 ELSE TreeOfSlots[m]
    <3>1. PICK t \in InTree : m = pid[t]
      BY TreeIs, ZenonT(60)
    <3>2. TreeOfSlots[m] = Node(t)
      BY <3>1, TreeIs, ZenonT(60)
    <3>3. TreeOfSlots'[m] = Node(t)'
      BY <3>1, <1>2, <1>3, PrimedTree, ZenonT(60)
    <3>4. m = pid[p] <=> t = p
      BY <3>1, <1>10, ZenonT(60)
    <3> QED BY <3>2, <3>3, <3>4, <1>6, <1>7, <1>8, <1>9, ZenonT(60)
  <2>2. TreeOfSlots' = [m \in PidsInTree' |-> TreeOfSlots'[m]]
    BY PrimedTree, ZenonT(60)
  <2> QED BY <2>1, <2>2, <1>11, ZenonT(60)
<1>13. Tree!Alive(pid[p]) /\ pid[p] \in PidsInTree
  <2>1. TreeOfSlots[pid[p]].dead = 0
    <3>1. TreeOfSlots[pid[p]] = Node(p)
      BY <1>1, TreeIs, ZenonT(60)
    <3> QED BY <3>1, <1>5 DEF Node
  <2>2. pid[p] \in PidsInTree /\ DOMAIN TreeOfSlots = PidsInTree
    BY <1>1, TreeIs, ZenonT(60)
  <2> QED BY <2>1, <2>2, ZenonT(60) DEF Tree!Alive
<1>14. pid[p] # 1
  BY <1>1, <1>10, ZenonT(60)
<1>15. DOMAIN TreeOfSlots = PidsInTree
  BY TreeIs, ZenonT(60)
<1>16. Tree!Exit(pid[p])
  BY <1>12, <1>13, <1>14, <1>15, ZenonT(60) DEF Tree!Exit
<1> QED BY <1>13, <1>15, <1>16, ZenonT(60) DEF Tree!Next

\* kwait() removes a child that has exited.
LEMMA ReapTree ==
  ASSUME IInv, IInv', NEW p \in Procs, NEW s \in Procs, Reaps(p, s)
  PROVE  Tree!Next
<1>1. /\ p # s /\ s # initproc /\ p \in InTree /\ s \in InTree /\ NoProc \notin Procs
      /\ \A t \in InTree : parent[t] # s
  BY ProcAssumption, Sets DEF IInv, Reaps, Family, FamilyOK, Live, InTree, TypeOK
<1>2. InTree' = InTree \ {s}
  BY <1>1, ZenonT(60) DEF Reaps, Only, InTree
<1>3. \A t \in InTree : t # s => pid'[t] = pid[t] /\ parent'[t] = parent[t] /\ Dead(t)' = Dead(t)
  BY <1>1 DEF Reaps, Only, Dead, InTree
<1>4. \A t \in InTree : t # s => Node(t)' = Node(t)
  <2> SUFFICES ASSUME NEW t \in InTree, t # s PROVE Node(t)' = Node(t)
    BY ZenonT(60)
  <2>1. parent[t] = NoProc \/ (parent[t] \in InTree /\ parent[t] # s)
    BY <1>1, InTreeIs, ZenonT(60)
  <2>2. Pid(parent[t])' = Pid(parent[t])
    BY <1>3, <2>1, ZenonT(60) DEF Pid
  <2> QED BY <1>3, <2>2, ZenonT(60) DEF Node
<1>5. Dead(s) = 1 /\ Dead(p) = 0 /\ parent[s] = p
  BY ZenonT(60) DEF Reaps, Dead
<1>6. \A t \in InTree : pid[t] = pid[s] => t = s
  BY <1>1, InTreeIs, ZenonT(60) DEF IInv, Pids
<1>7. PidsInTree' = PidsInTree \ {pid[s]}
  BY <1>2, <1>3, <1>6, ZenonT(60) DEF PidsInTree
<1>8. DOMAIN TreeOfSlots = PidsInTree /\ pid[p] \in PidsInTree /\ pid[s] \in PidsInTree
  BY <1>1, TreeIs, ZenonT(60)
<1>9. Tree!Alive(pid[p])
  <2>1. TreeOfSlots[pid[p]].dead = 0
    <3>1. TreeOfSlots[pid[p]] = Node(p)
      BY <1>1, TreeIs, ZenonT(60)
    <3> QED BY <3>1, <1>5 DEF Node
  <2> QED BY <1>8, <2>1, ZenonT(60) DEF Tree!Alive
<1>10. TreeOfSlots[pid[s]].parent = pid[p] /\ TreeOfSlots[pid[s]].dead = 1
  <2>1. TreeOfSlots[pid[s]] = Node(s)
    BY <1>1, TreeIs, ZenonT(60)
  <2>2. Pid(parent[s]) = pid[p]
    BY <1>1, <1>5, ZenonT(60) DEF Pid
  <2> QED BY <2>1, <2>2, <1>5 DEF Node
<1>11. TreeOfSlots' = [m \in PidsInTree \ {pid[s]} |-> TreeOfSlots[m]]
  <2>1. ASSUME NEW m \in PidsInTree \ {pid[s]} PROVE TreeOfSlots'[m] = TreeOfSlots[m]
    <3>1. PICK t \in InTree : m = pid[t]
      BY TreeIs, ZenonT(60)
    <3>2. t # s
      BY <3>1, ZenonT(60)
    <3>3. TreeOfSlots[m] = Node(t)
      BY <3>1, TreeIs, ZenonT(60)
    <3>4. TreeOfSlots'[m] = Node(t)'
      BY <3>1, <3>2, <1>2, <1>3, PrimedTree, ZenonT(60)
    <3> QED BY <3>2, <3>3, <3>4, <1>4, ZenonT(60)
  <2>2. TreeOfSlots' = [m \in PidsInTree' |-> TreeOfSlots'[m]]
    BY PrimedTree, ZenonT(60)
  <2> QED BY <2>1, <2>2, <1>7, ZenonT(60)
<1>12. Tree!Wait(pid[p], pid[s])
  BY <1>8, <1>9, <1>10, <1>11, ZenonT(60) DEF Tree!Wait
<1> QED BY <1>8, <1>12, ZenonT(60) DEF Tree!Next

\* Every other step leaves the tree as it is.
LEMMA OthersStutter ==
  ASSUME IInv, IInv', panicked = 0, NEW p \in Procs,
         \/ Move(p) \/ ExitEnds(p) \/ Sleeps(p)
         \/ /\ pp[p] \in Procs
            /\ ForkStarts(p, pp[p]) \/ ForkFails(p, pp[p]) \/ ForkEnds(p, pp[p]) \/ Kills(p, pp[p])
  PROVE  TreeOfSlots' = TreeOfSlots
<1> SUFFICES /\ InTree' = InTree
             /\ \A s \in InTree : pid'[s] = pid[s] /\ parent'[s] = parent[s] /\ Dead(s)' = Dead(s)
  BY TreeStutters, ZenonT(60)
<1>0. TypeOK /\ \A s \in InTree : s \in Procs /\ state[s] # "UNUSED"
  BY InTreeIs, ZenonT(60) DEF IInv
<1>1. CASE Move(p)
  BY <1>0, <1>1, MoveIsStill, ZenonT(60) DEF Still, InTree, Dead
<1>2. CASE ExitEnds(p)
  BY <1>0, <1>2, ZenonT(60) DEF ExitEnds, Only, InTree, Dead
<1>3. CASE Sleeps(p)
  BY <1>0, <1>3, ZenonT(60) DEF Sleeps, Only, InTree, Dead
<1>4. CASE pp[p] \in Procs /\ ForkStarts(p, pp[p])
  BY <1>0, <1>4, ZenonT(60) DEF ForkStarts, Only, InTree, Dead
<1>5. CASE pp[p] \in Procs /\ ForkFails(p, pp[p])
  <2>1. parent[pp[p]] = NoProc
    BY <1>5, ZenonT(60) DEF ForkFails, IInv, Family, FamilyOK
  <2> QED BY <1>0, <1>5, <2>1 DEF ForkFails, Only, InTree, Dead
<1>6. CASE pp[p] \in Procs /\ ForkEnds(p, pp[p])
  <2>1. state[pp[p]] = "USED" /\ pc[pp[p]] = "off" /\ p # pp[p]
    BY <1>6, ZenonT(60) DEF ForkEnds, IInv, Forks, ForkOK, Places, PlaceOK
  <2> QED BY <1>0, <1>6, <2>1, ZenonT(60) DEF ForkEnds, Only, InTree, Dead
<1>7. CASE pp[p] \in Procs /\ Kills(p, pp[p])
  BY <1>0, <1>7, ZenonT(60) DEF Kills, InTree, Dead
<1> QED BY <1>1, <1>2, <1>3, <1>4, <1>5, <1>6, <1>7, ZenonT(60)

\* Every step is one of the tree, or none.
LEMMA TreeStep ==
  ASSUME 1 \notin KillPids, IInv, IInv', Next
  PROVE  Tree!Next \/ TreeOfSlots' = TreeOfSlots
<1>1. panicked = 0
  BY ZenonT(60) DEF Next
<1>2. PICK p \in Procs : Calls(p) \/ Kernel(p)
  BY ZenonT(60) DEF Next
<1>3. Move(p) \/ Change(p)
  BY <1>2, StepCases, ZenonT(60)
<1>4. CASE Move(p)
  BY <1>1, <1>4, OthersStutter, ZenonT(60)
<1>5. CASE Change(p)
  <2>0. TypeOK
    BY ZenonT(60) DEF IInv
  <2>1. CASE pp[p] \in Procs /\ ForkLinks(p, pp[p])
    BY <2>1, ForkLinksTree, ZenonT(60)
  <2>2. CASE pp[p] \in Procs /\ Reaps(p, pp[p])
    BY <2>2, ReapTree, ZenonT(60)
  <2>3. CASE ExitStarts(p)
    BY <2>3, ExitTree, ZenonT(60)
  <2>4. CASE ~(pp[p] \in Procs /\ (ForkLinks(p, pp[p]) \/ Reaps(p, pp[p]))) /\ ~ExitStarts(p)
    BY <1>1, <1>5, <2>0, <2>4, ProcAssumption, Effects, OthersStutter, ZenonT(60)
  <2> QED BY <2>1, <2>2, <2>3, <2>4, ZenonT(60)
<1> QED BY <1>3, <1>4, <1>5, ZenonT(60)

\* At first the tree is init.
LEMMA TreeInit == ASSUME Init PROVE Tree!Init
<1>1. InTree = {1}
  BY ProcAssumption DEF Init, InTree, initproc, NoProc, ProcAssumption, Procs
<1>2. pid[1] = 1 /\ parent[1] = NoProc /\ Dead(1) = 0
  BY ProcAssumption DEF Init, initproc, Dead, ProcAssumption, Procs
<1>3. PidsInTree = {1}
  BY <1>1, <1>2, ZenonT(60) DEF PidsInTree
<1>4. SlotOf(1) = 1
  BY <1>1, <1>2, ZenonT(60) DEF SlotOf
<1>5. TreeOfSlots = [n \in {1} |-> [parent |-> 0, dead |-> 0]]
  BY <1>2, <1>3, <1>4, ZenonT(60) DEF TreeOfSlots, Pid
<1> QED BY <1>5, ZenonT(60) DEF Tree!Init

\* A stutter leaves the tree as it is.
LEMMA TreeUnchanged == ASSUME UNCHANGED vars PROVE TreeOfSlots' = TreeOfSlots
BY ZenonT(60) DEF vars, table, TreeOfSlots, PidsInTree, InTree, SlotOf, Pid, Dead

(***************************************************************************)
(* fork, exit and wait are atomic, any number of slots and pids: what      *)
(* kfork(), kexit(), kwait() and kkill() do in critical sections of        *)
(* different locks implements a tree in which a child appears, exits and   *)
(* is reaped in one step each, and no two processes have the same pid.     *)
(* Nobody kills init; that ends in panic("init exiting").                  *)
(***************************************************************************)
THEOREM ProcessTreeIsAtomic ==
  ASSUME 1 \notin KillPids
  PROVE  Spec => AtomicTree
<1>1. Init => Tree!Init
  BY TreeInit, ZenonT(60)
<1>2. IInv /\ IInv' /\ [Next]_vars => [Tree!Next]_TreeOfSlots
  BY TreeStep, TreeUnchanged, ZenonT(60)
<1> QED BY <1>1, <1>2, InductiveInv, PTL DEF Spec, AtomicTree, Tree!Spec
=============================================================================
