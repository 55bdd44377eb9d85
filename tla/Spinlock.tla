------------------------------ MODULE Spinlock ------------------------------
(***************************************************************************)
(* Spin locks and interrupt nesting, kernel/spinlock.c, one memory access  *)
(* per step.  Each CPU runs kernel code that takes locks in the order of   *)
(* their numbers and releases them in any order; while its interrupts are  *)
(* on it may be diverted to a handler (kerneltrap, devintr) that takes     *)
(* locks too and gives them up before it returns.  Code between a          *)
(* push_off() and its pop_off() that touches only the CPU's own noff and   *)
(* intena is one step: nothing else can see it.                            *)
(***************************************************************************)
EXTENDS Integers, FiniteSets

CONSTANTS CPUs, Locks, NoCPU

ASSUME SpinlockAssumption ==
  NoCPU \notin CPUs /\ Locks \subseteq Nat /\ IsFiniteSet(Locks)

VARIABLES
  locked,    \* lk->locked
  cpu,       \* lk->cpu
  intr,      \* SIE of each CPU: intr_get()
  noff,      \* c->noff
  intena,    \* c->intena
  pc,        \* where the CPU's code is
  arg,       \* lock that acquire() or release() was called with
  old,       \* local variable of push_off()
  held,      \* locks whose acquire() has returned and release() was not called
  wanted,    \* what the code last set SIE to, other than by push_off/pop_off
  saved,     \* code that a handler has interrupted
  panicked

vars == <<locked, cpu, intr, noff, intena, pc, arg, old, held, wanted, saved, panicked>>
lock == <<locked, cpu>>
nest == <<intr, noff, intena>>
code == <<held, wanted, saved>>

NoFrame == [pc |-> "none"]

Init ==
  /\ locked = [lk \in Locks |-> 0]
  /\ cpu = [lk \in Locks |-> NoCPU]
  /\ intr = [c \in CPUs |-> 0]
  /\ noff = [c \in CPUs |-> 0]
  /\ intena = [c \in CPUs |-> 0]
  /\ pc = [c \in CPUs |-> "run"]
  /\ arg \in [CPUs -> Locks]
  /\ old = [c \in CPUs |-> 0]
  /\ held = [c \in CPUs |-> {}]
  /\ wanted = [c \in CPUs |-> 0]
  /\ saved = [c \in CPUs |-> NoFrame]
  /\ panicked = 0

Goto(c, l) == pc' = [pc EXCEPT ![c] = l]

-----------------------------------------------------------------------------
\* acquire(lk): push_off() reads intr_get() first, interrupts still on.
acquire(c, lk) ==
  /\ pc[c] = "run"
  /\ \A m \in held[c] : m < lk
  /\ arg' = [arg EXCEPT ![c] = lk]
  /\ old' = [old EXCEPT ![c] = intr[c]]
  /\ Goto(c, "push_off")
  /\ UNCHANGED <<lock, nest, code, panicked>>

push_off_Always(c) ==
  /\ pc[c] = "push_off"
  /\ intr' = [intr EXCEPT ![c] = 0]
  /\ intena' = [intena EXCEPT ![c] = old[c]]
  /\ noff' = [noff EXCEPT ![c] = @ + 1]
  /\ Goto(c, "acquire_locked")
  /\ UNCHANGED <<lock, arg, old, code, panicked>>

\* The rest of push_off().
push_off(c) ==
  /\ pc[c] = "push_off"
  /\ intr' = [intr EXCEPT ![c] = 0]
  /\ intena' = [intena EXCEPT ![c] = IF noff[c] = 0 THEN old[c] ELSE @]
  /\ noff' = [noff EXCEPT ![c] = @ + 1]
  /\ Goto(c, "acquire_locked")
  /\ UNCHANGED <<lock, arg, old, code, panicked>>

\* holding(lk) in acquire(): first lk->locked is read, then lk->cpu.
acquire_locked(c) ==
  /\ pc[c] = "acquire_locked"
  /\ Goto(c, IF locked[arg[c]] = 1 THEN "acquire_cpu" ELSE "spin")
  /\ UNCHANGED <<lock, nest, arg, old, code, panicked>>

acquire_cpu(c) ==
  /\ pc[c] = "acquire_cpu"
  /\ panicked' = IF cpu[arg[c]] = c THEN 1 ELSE 0
  /\ Goto(c, "spin")
  /\ UNCHANGED <<lock, nest, arg, old, code>>

test_and_set_Split(c) ==
  /\ pc[c] = "spin"
  /\ locked' = [locked EXCEPT ![arg[c]] = 1]
  /\ Goto(c, "set_cpu")
  /\ UNCHANGED <<cpu, nest, arg, old, code, panicked>>

\* The atomic swap that leaves the spin loop.
test_and_set(c) ==
  /\ pc[c] = "spin"
  /\ locked[arg[c]] = 0
  /\ locked' = [locked EXCEPT ![arg[c]] = 1]
  /\ Goto(c, "set_cpu")
  /\ UNCHANGED <<cpu, nest, arg, old, code, panicked>>

\* lk->cpu = mycpu(), and acquire() returns.
set_cpu(c) ==
  /\ pc[c] = "set_cpu"
  /\ cpu' = [cpu EXCEPT ![arg[c]] = c]
  /\ held' = [held EXCEPT ![c] = @ \union {arg[c]}]
  /\ Goto(c, "run")
  /\ UNCHANGED <<locked, nest, arg, old, wanted, saved, panicked>>

\* release(lk): holding(lk) reads lk->locked ...
release(c, lk) ==
  /\ pc[c] = "run"
  /\ lk \in held[c]
  /\ held' = [held EXCEPT ![c] = @ \ {lk}]
  /\ arg' = [arg EXCEPT ![c] = lk]
  /\ panicked' = IF locked[lk] = 0 THEN 1 ELSE 0
  /\ Goto(c, "release_cpu")
  /\ UNCHANGED <<lock, nest, old, wanted, saved>>

\* ... and lk->cpu.
release_cpu(c) ==
  /\ pc[c] = "release_cpu"
  /\ panicked' = IF cpu[arg[c]] # c THEN 1 ELSE 0
  /\ Goto(c, "clear_cpu")
  /\ UNCHANGED <<lock, nest, arg, old, code>>

clear_cpu_Late(c) ==
  /\ pc[c] = "clear_cpu"
  /\ locked' = [locked EXCEPT ![arg[c]] = 0]
  /\ Goto(c, "unlock")
  /\ UNCHANGED <<cpu, nest, arg, old, code, panicked>>

\* lk->cpu = 0
clear_cpu(c) ==
  /\ pc[c] = "clear_cpu"
  /\ cpu' = [cpu EXCEPT ![arg[c]] = NoCPU]
  /\ Goto(c, "unlock")
  /\ UNCHANGED <<locked, nest, arg, old, code, panicked>>

\* __sync_lock_release(&lk->locked)
unlock(c) ==
  /\ pc[c] = "unlock"
  /\ locked' = [locked EXCEPT ![arg[c]] = 0]
  /\ Goto(c, "pop_off")
  /\ UNCHANGED <<cpu, nest, arg, old, code, panicked>>

Reenable_Always(c) == intena[c] = 1

\* if(c->noff == 0 && c->intena), after c->noff -= 1
Reenable(c) == noff[c] = 1 /\ intena[c] = 1

pop_off(c) ==
  /\ pc[c] = "pop_off"
  /\ panicked' = IF intr[c] = 1 \/ noff[c] < 1 THEN 1 ELSE 0
  /\ noff' = [noff EXCEPT ![c] = @ - 1]
  /\ intr' = [intr EXCEPT ![c] = IF Reenable(c) THEN 1 ELSE @]
  /\ Goto(c, "run")
  /\ UNCHANGED <<lock, intena, arg, old, code>>

-----------------------------------------------------------------------------
\* scheduler(), usertrap() and prepare_return() switch interrupts directly.
intr_set(c, on) ==
  /\ pc[c] = "run" /\ held[c] = {} /\ saved[c] = NoFrame
  /\ intr' = [intr EXCEPT ![c] = on]
  /\ wanted' = [wanted EXCEPT ![c] = on]
  /\ UNCHANGED <<lock, noff, intena, pc, arg, old, held, saved, panicked>>

\* A device interrupt: the hardware clears SIE and enters kerneltrap().
\* InterruptsOff says that handlers do not nest.
kerneltrap(c) ==
  /\ intr[c] = 1 /\ saved[c] = NoFrame
  /\ saved' = [saved EXCEPT ![c] = [pc |-> pc[c], arg |-> arg[c], old |-> old[c],
                                    held |-> held[c], wanted |-> wanted[c]]]
  /\ intr' = [intr EXCEPT ![c] = 0]
  /\ wanted' = [wanted EXCEPT ![c] = 0]
  /\ Goto(c, "run")
  /\ UNCHANGED <<lock, noff, intena, arg, old, held, panicked>>

\* The handler has released its locks and returns with sret.
kerneltrap_return(c) ==
  /\ pc[c] = "run" /\ saved[c] # NoFrame
  /\ held[c] = saved[c].held
  /\ pc' = [pc EXCEPT ![c] = saved[c].pc]
  /\ arg' = [arg EXCEPT ![c] = saved[c].arg]
  /\ old' = [old EXCEPT ![c] = saved[c].old]
  /\ wanted' = [wanted EXCEPT ![c] = saved[c].wanted]
  /\ intr' = [intr EXCEPT ![c] = 1]
  /\ saved' = [saved EXCEPT ![c] = NoFrame]
  /\ UNCHANGED <<lock, noff, intena, held, panicked>>

Step(c) ==
  \/ \E lk \in Locks : acquire(c, lk) \/ release(c, lk)
  \/ push_off(c) \/ acquire_locked(c) \/ acquire_cpu(c) \/ test_and_set(c) \/ set_cpu(c)
  \/ release_cpu(c) \/ clear_cpu(c) \/ unlock(c) \/ pop_off(c)
  \/ kerneltrap(c) \/ kerneltrap_return(c)
  \/ \E on \in {0, 1} : intr_set(c, on)

Next == panicked = 0 /\ \E c \in CPUs : Step(c)

Spec == Init /\ [][Next]_vars

-----------------------------------------------------------------------------
PCs == {"run", "push_off", "acquire_locked", "acquire_cpu", "spin", "set_cpu",
        "release_cpu", "clear_cpu", "unlock", "pop_off"}

Frames == [pc : PCs, arg : Locks, old : {0, 1}, held : SUBSET Locks, wanted : {0, 1}]

TypeOK ==
  /\ locked \in [Locks -> {0, 1}]
  /\ cpu \in [Locks -> CPUs \union {NoCPU}]
  /\ intr \in [CPUs -> {0, 1}]
  /\ noff \in [CPUs -> Nat]
  /\ intena \in [CPUs -> {0, 1}]
  /\ pc \in [CPUs -> PCs]
  /\ arg \in [CPUs -> Locks]
  /\ old \in [CPUs -> {0, 1}]
  /\ held \in [CPUs -> SUBSET Locks]
  /\ wanted \in [CPUs -> {0, 1}]
  /\ saved \in [CPUs -> Frames \union {NoFrame}]
  /\ panicked \in {0, 1}

(***************************************************************************)
(* A lock is held by one CPU at a time: no interleaving of two acquire()s  *)
(* and a release() lets two CPUs in.                                       *)
(***************************************************************************)
MutualExclusion == \A c, d \in CPUs : c # d => held[c] \intersect held[d] = {}

(***************************************************************************)
(* None of the panics is reached: holding(), which reads lk->locked and    *)
(* lk->cpu without a lock while other CPUs change them, never takes this   *)
(* CPU for the holder when it is not (acquire) nor the reverse (release),  *)
(* a handler never meets a lock of the code it interrupted, and pop_off()  *)
(* matches push_off().                                                     *)
(***************************************************************************)
NoPanic == panicked = 0

(***************************************************************************)
(* A CPU that holds a lock, or spins for one, or runs a handler, takes no  *)
(* interrupts, so no handler runs on it and spins for that lock (acquire:  *)
(* interrupts are disabled "to avoid deadlock").                           *)
(***************************************************************************)
InterruptsOff ==
  \A c \in CPUs :
    held[c] # {} \/ pc[c] \in {"spin", "set_cpu"} \/ saved[c] # NoFrame => intr[c] = 0

(***************************************************************************)
(* After the last lock is released, in whatever order, interrupts are as   *)
(* they were before the first was acquired (the comment before push_off).  *)
(***************************************************************************)
IntrRestored ==
  \A c \in CPUs : pc[c] = "run" /\ held[c] = {} => noff[c] = 0 /\ intr[c] = wanted[c]
=============================================================================
