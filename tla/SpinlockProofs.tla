--------------------------- MODULE SpinlockProofs ---------------------------
(***************************************************************************)
(* The inductive invariant of module Spinlock, for any number of CPUs and  *)
(* locks, the proofs that it holds at first and that a step preserves it,  *)
(* and the safety properties it gives.                                     *)
(***************************************************************************)
EXTENDS Spinlock, FiniteSetTheorems, TLAPS

\* Between the swap that takes the lock and the store that gives it back.
Owns(c, lk) ==
  \/ lk \in held[c]
  \/ arg[c] = lk /\ pc[c] \in {"set_cpu", "release_cpu", "clear_cpu", "unlock"}

\* lk->cpu names the CPU.
Marked(c, lk) ==
  lk \in held[c] \/ (arg[c] = lk /\ pc[c] \in {"release_cpu", "clear_cpu"})

Ownership ==
  \A c \in CPUs, lk \in Locks :
    /\ Owns(c, lk) => locked[lk] = 1 /\ \A d \in CPUs : Owns(d, lk) => d = c
    /\ cpu[lk] = c <=> Marked(c, lk)
    /\ pc[c] # "run" => arg[c] \notin held[c]

\* Between push_off() and pop_off(), apart from the locks held.
Inside(c) == IF pc[c] \in {"run", "push_off"} THEN 0 ELSE 1

Nesting ==
  \A c \in CPUs :
    /\ noff[c] = Cardinality(held[c]) + Inside(c)
    /\ noff[c] = 0 => intr[c] = wanted[c]
    /\ noff[c] # 0 => intr[c] = 0 /\ intena[c] = wanted[c]
    /\ pc[c] = "push_off" /\ noff[c] = 0 => old[c] = intr[c]

\* What a handler can have interrupted.
Interrupted ==
  \A c \in CPUs : saved[c] # NoFrame =>
    /\ saved[c].held = {} /\ saved[c].pc \in {"run", "push_off"}
    /\ saved[c].wanted = 1 /\ saved[c].old \in {0, 1} /\ wanted[c] = 0
    /\ saved[c].pc = "push_off" => saved[c].old = 1

IInv == TypeOK /\ Ownership /\ Nesting /\ Interrupted /\ NoPanic

-----------------------------------------------------------------------------
LEMMA InitInv == Init => IInv
<1> SUFFICES ASSUME Init PROVE IInv
  OBVIOUS
<1>1. TypeOK
  BY DEF Init, TypeOK, PCs
<1>2. Ownership
  BY SpinlockAssumption DEF Init, Ownership, Owns, Marked
<1>3. Nesting
  BY FS_EmptySet DEF Init, Nesting, Inside
<1> QED
  BY <1>1, <1>2, <1>3 DEF Init, IInv, Interrupted, NoPanic

LEMMA TypeStep == IInv /\ Next => TypeOK'
<1> SUFFICES ASSUME IInv, Next PROVE TypeOK'
  OBVIOUS
<1>0. TypeOK /\ Nesting /\ Interrupted
  BY DEF IInv
<1>1. PICK c \in CPUs : Step(c)
  BY DEF Next
<1>f. \A d \in CPUs : IsFiniteSet(held[d])
  BY FS_Subset, SpinlockAssumption DEF IInv, TypeOK
<1> USE DEF TypeOK, lock, nest, code, Goto
<1>2. pc' \in [CPUs -> PCs]
  <2>1. CASE kerneltrap_return(c)
    BY <1>0, <2>1, SMTT(60) DEF kerneltrap_return, Frames, NoFrame, PCs, Interrupted
  <2>2. CASE ~kerneltrap_return(c)
    BY <1>0, <1>1, <2>2, SMTT(60) DEF Step, PCs, acquire, push_off, acquire_locked, acquire_cpu, test_and_set,
       set_cpu, release, release_cpu, clear_cpu, unlock, pop_off, intr_set, kerneltrap
  <2> QED
    BY <2>1, <2>2
<1>3. noff' \in [CPUs -> Nat]
  <2>1. CASE pop_off(c)
    <3>1. noff[c] >= 1
      <4>1. Cardinality(held[c]) \in Nat /\ Inside(c) = 1
        BY <1>f, <2>1, FS_CardinalityType DEF pop_off, Inside
      <4> QED
        BY <1>0, <4>1 DEF Nesting
    <3> QED
      BY <1>0, <2>1, <3>1 DEF pop_off
  <2>2. CASE push_off(c)
    BY <1>0, <2>2, SMTT(60) DEF push_off
  <2>3. CASE ~push_off(c) /\ ~pop_off(c)
    <3>1. noff' = noff
      BY <1>1, <2>3, ZenonT(60) DEF Step, acquire, acquire_locked, acquire_cpu, test_and_set, set_cpu,
         release, release_cpu, clear_cpu, unlock, intr_set, kerneltrap, kerneltrap_return
    <3> QED
      BY <1>0, <3>1
  <2> QED
    BY <2>1, <2>2, <2>3
<1>4. saved' \in [CPUs -> Frames \union {NoFrame}]
  <2>1. CASE kerneltrap(c)
    BY <1>0, <2>1, SMTT(60) DEF kerneltrap, Frames
  <2>2. CASE ~kerneltrap(c)
    BY <1>0, <1>1, <2>2, ZenonT(60) DEF Step, acquire, push_off, acquire_locked, acquire_cpu,
       test_and_set, set_cpu, release, release_cpu, clear_cpu, unlock, pop_off, intr_set,
       kerneltrap_return
  <2> QED
    BY <2>1, <2>2
<1>5. CASE kerneltrap_return(c)
  <2>1. saved[c] \in Frames
    BY <1>0, <1>5 DEF kerneltrap_return
  <2>2. saved[c].arg \in Locks /\ saved[c].old \in {0, 1} /\ saved[c].wanted \in {0, 1}
    BY <2>1 DEF Frames
  <2> QED
    BY <1>0, <1>2, <1>3, <1>4, <1>5, <2>2 DEF kerneltrap_return
<1>6. CASE kerneltrap(c)
  BY <1>0, <1>2, <1>3, <1>4, <1>6 DEF kerneltrap
<1>7. CASE \E lk \in Locks : acquire(c, lk) \/ release(c, lk)
  BY <1>0, <1>2, <1>3, <1>4, <1>7 DEF acquire, release
<1>8. CASE push_off(c) \/ pop_off(c)
  BY <1>0, <1>2, <1>3, <1>4, <1>8 DEF push_off, pop_off
<1>9. CASE acquire_locked(c) \/ acquire_cpu(c) \/ test_and_set(c) \/ set_cpu(c)
  BY <1>0, <1>2, <1>3, <1>4, <1>9 DEF acquire_locked, acquire_cpu, test_and_set, set_cpu
<1>10. CASE release_cpu(c) \/ clear_cpu(c) \/ unlock(c)
  BY <1>0, <1>2, <1>3, <1>4, <1>10 DEF release_cpu, clear_cpu, unlock
<1>11. CASE \E on \in {0, 1} : intr_set(c, on)
  BY <1>0, <1>2, <1>3, <1>4, <1>11 DEF intr_set
<1> QED
  BY <1>1, <1>5, <1>6, <1>7, <1>8, <1>9, <1>10, <1>11 DEF Step

\* Nothing is held, and no lock is being taken, while interrupts are on.
LEMMA IntrOn ==
  ASSUME IInv, NEW c \in CPUs, intr[c] = 1
  PROVE  noff[c] = 0 /\ held[c] = {} /\ Inside(c) = 0
<1>1. IsFiniteSet(held[c]) /\ Cardinality(held[c]) \in Nat
  BY FS_Subset, FS_CardinalityType, SpinlockAssumption DEF IInv, TypeOK
<1>2. noff[c] = 0
  BY DEF IInv, Nesting
<1>3. Inside(c) \in {0, 1} /\ 0 = Cardinality(held[c]) + Inside(c)
  BY <1>2 DEF IInv, Nesting, Inside
<1>4. Cardinality(held[c]) = 0 /\ Inside(c) = 0
  BY <1>1, <1>3
<1> QED
  BY <1>1, <1>2, <1>4, FS_EmptySet

LEMMA OwnershipStep == IInv /\ Next => Ownership'
<1> SUFFICES ASSUME IInv, Next PROVE Ownership'
  OBVIOUS
<1>0. TypeOK /\ Ownership /\ Interrupted
  BY DEF IInv
<1>1. PICK c \in CPUs : Step(c)
  BY DEF Next
<1>2. pc[c] # "run" => arg[c] \notin held[c]
  BY <1>0, <1>1 DEF Ownership, TypeOK
<1> DEFINE Others == \A d \in CPUs : d # c => /\ pc'[d] = pc[d] /\ arg'[d] = arg[d]
                                              /\ held'[d] = held[d]
<1> DEFINE Locking ==
      /\ \A lk \in Locks : Owns(c, lk)' => \/ Owns(c, lk) /\ locked'[lk] = locked[lk]
                                           \/ locked[lk] = 0 /\ locked'[lk] = 1
      /\ \A lk \in Locks : ~Owns(c, lk) /\ ~Owns(c, lk)' => locked'[lk] = locked[lk]
<1> DEFINE Marking ==
      \A lk \in Locks : \/ cpu'[lk] = cpu[lk] /\ (Marked(c, lk)' <=> Marked(c, lk))
                        \/ cpu'[lk] = c /\ Marked(c, lk)' /\ Owns(c, lk)
                        \/ cpu'[lk] = NoCPU /\ ~Marked(c, lk)' /\ Owns(c, lk)
<1>a. ASSUME Others, Locking, Marking, pc'[c] # "run" => arg'[c] \notin held'[c]
      PROVE  Ownership'
  <2> SUFFICES ASSUME NEW d \in CPUs, NEW lk \in Locks
               PROVE  /\ Owns(d, lk)' => /\ locked'[lk] = 1
                                         /\ \A e \in CPUs : Owns(e, lk)' => e = d
                      /\ cpu'[lk] = d <=> Marked(d, lk)'
                      /\ pc'[d] # "run" => arg'[d] \notin held'[d]
    BY DEF Ownership
  <2>1. \A e \in CPUs : e # c => (Owns(e, lk)' <=> Owns(e, lk)) /\ (Marked(e, lk)' <=> Marked(e, lk))
    BY <1>a DEF Owns, Marked
  <2>2. \A e \in CPUs : Marked(e, lk) => Owns(e, lk)
    BY DEF Owns, Marked
  <2>3. /\ \A e \in CPUs : Owns(e, lk) => locked[lk] = 1
        /\ \A e, f \in CPUs : Owns(e, lk) /\ Owns(f, lk) => e = f
        /\ \A e \in CPUs : cpu[lk] = e <=> Marked(e, lk)
        /\ pc[d] # "run" => arg[d] \notin held[d]
    BY <1>0 DEF Ownership
  <2>4. Owns(d, lk)' => locked'[lk] = 1
    <3>1. CASE d = c
      BY <1>a, <2>3, <3>1
    <3>2. CASE d # c
      BY <1>a, <2>1, <2>3, <3>2, SMTT(60)
    <3> QED
      BY <3>1, <3>2, SMTT(60)
  <2>5. \A e \in CPUs : Owns(d, lk)' /\ Owns(e, lk)' => e = d
    BY <1>a, <2>1, <2>3
  <2>6. cpu'[lk] = d <=> Marked(d, lk)'
    BY <1>a, <2>1, <2>2, <2>3, SpinlockAssumption, SMTT(60)
  <2> QED
    BY <1>a, <2>3, <2>4, <2>5, <2>6
<1> USE DEF lock, nest, code, Goto
<1>3. ASSUME NEW lk \in Locks, acquire(c, lk) PROVE Ownership'
  <2>1. Others /\ arg'[c] = lk /\ pc'[c] = "push_off" /\ UNCHANGED <<locked, cpu, held>> /\ pc[c] = "run"
    BY <1>0, <1>3 DEF acquire, TypeOK
  <2>2. lk \notin held[c]
    BY <1>0, <1>3, SpinlockAssumption DEF acquire, TypeOK
  <2>3. Locking
    BY <1>2, <2>1, <2>2 DEF Owns
  <2>4. Marking
    BY <1>2, <2>1, <2>2 DEF Owns, Marked
  <2> QED
    BY <1>a, <1>2, <2>1, <2>2, <2>3, <2>4
<1>4. CASE push_off(c) \/ acquire_locked(c) \/ acquire_cpu(c) \/ pop_off(c)
  <2>1. /\ Others /\ UNCHANGED <<locked, cpu, held, arg>>
        /\ pc[c] \in {"push_off", "acquire_locked", "acquire_cpu", "pop_off"}
        /\ pc'[c] \in {"acquire_locked", "acquire_cpu", "spin", "run"}
    BY <1>0, <1>4 DEF push_off, acquire_locked, acquire_cpu, pop_off, TypeOK
  <2>2. Locking
    BY <1>2, <2>1 DEF Owns
  <2>3. Marking
    BY <1>2, <2>1, SMTT(60) DEF Owns, Marked
  <2> QED
    BY <1>a, <1>2, <2>1, <2>2, <2>3
<1>5. CASE test_and_set(c)
  <2>1. /\ Others /\ UNCHANGED <<cpu, held, arg>> /\ pc[c] = "spin" /\ pc'[c] = "set_cpu"
        /\ locked[arg[c]] = 0 /\ locked'[arg[c]] = 1
        /\ \A lk \in Locks : lk # arg[c] => locked'[lk] = locked[lk]
    BY <1>0, <1>5 DEF test_and_set, TypeOK
  <2>2. Locking
    BY <1>2, <2>1 DEF Owns
  <2>3. Marking
    BY <1>2, <2>1 DEF Owns, Marked
  <2> QED
    BY <1>a, <1>2, <2>1, <2>2, <2>3
<1>6. CASE set_cpu(c)
  <2>1. /\ Others /\ UNCHANGED <<locked, arg>> /\ pc[c] = "set_cpu" /\ pc'[c] = "run"
        /\ held'[c] = held[c] \union {arg[c]} /\ cpu'[arg[c]] = c
        /\ \A lk \in Locks : lk # arg[c] => cpu'[lk] = cpu[lk]
    BY <1>0, <1>6 DEF set_cpu, TypeOK
  <2>2. Locking
    BY <1>2, <2>1 DEF Owns
  <2>3. Marking
    BY <1>2, <2>1, SMTT(60) DEF Owns, Marked
  <2> QED
    BY <1>a, <1>2, <2>1, <2>2, <2>3
<1>7. ASSUME NEW lk \in Locks, release(c, lk) PROVE Ownership'
  <2>1. /\ Others /\ UNCHANGED <<locked, cpu>> /\ pc[c] = "run" /\ pc'[c] = "release_cpu"
        /\ held'[c] = held[c] \ {lk} /\ lk \in held[c] /\ arg'[c] = lk
    BY <1>0, <1>7 DEF release, TypeOK
  <2>2. Locking
    BY <1>2, <2>1 DEF Owns
  <2>3. Marking
    BY <1>2, <2>1 DEF Owns, Marked
  <2> QED
    BY <1>a, <1>2, <2>1, <2>2, <2>3
<1>8. CASE release_cpu(c)
  <2>1. /\ Others /\ UNCHANGED <<locked, cpu, held, arg>>
        /\ pc[c] = "release_cpu" /\ pc'[c] = "clear_cpu"
    BY <1>0, <1>8 DEF release_cpu, TypeOK
  <2>2. Locking
    BY <1>2, <2>1 DEF Owns
  <2>3. Marking
    BY <1>2, <2>1 DEF Owns, Marked
  <2> QED
    BY <1>a, <1>2, <2>1, <2>2, <2>3
<1>9. CASE clear_cpu(c)
  <2>1. /\ Others /\ UNCHANGED <<locked, held, arg>> /\ pc[c] = "clear_cpu" /\ pc'[c] = "unlock"
        /\ cpu'[arg[c]] = NoCPU /\ \A lk \in Locks : lk # arg[c] => cpu'[lk] = cpu[lk]
    BY <1>0, <1>9 DEF clear_cpu, TypeOK
  <2>2. Locking
    BY <1>2, <2>1 DEF Owns
  <2>3. Marking
    BY <1>2, <2>1 DEF Owns, Marked
  <2> QED
    BY <1>a, <1>2, <2>1, <2>2, <2>3
<1>10. CASE unlock(c)
  <2>1. /\ Others /\ UNCHANGED <<cpu, held, arg>> /\ pc[c] = "unlock" /\ pc'[c] = "pop_off"
        /\ \A lk \in Locks : lk # arg[c] => locked'[lk] = locked[lk]
    BY <1>0, <1>10 DEF unlock, TypeOK
  <2>2. Locking
    BY <1>2, <2>1 DEF Owns
  <2>3. Marking
    BY <1>2, <2>1 DEF Owns, Marked
  <2> QED
    BY <1>a, <1>2, <2>1, <2>2, <2>3
<1>11. CASE \E on \in {0, 1} : intr_set(c, on)
  BY <1>0, <1>11, SMTT(60) DEF intr_set, Ownership, Owns, Marked
<1>12. CASE kerneltrap(c)
  <2>1. /\ Others /\ UNCHANGED <<locked, cpu, held, arg>> /\ pc'[c] = "run"
        /\ pc[c] \in {"run", "push_off"}
    BY <1>0, <1>12, IntrOn, SMTT(60) DEF kerneltrap, TypeOK, Inside
  <2>2. Locking
    BY <1>2, <2>1 DEF Owns
  <2>3. Marking
    BY <1>2, <2>1, SMTT(60) DEF Owns, Marked
  <2> QED
    BY <1>a, <1>2, <2>1, <2>2, <2>3
<1>13. CASE kerneltrap_return(c)
  <2>1. /\ Others /\ UNCHANGED <<locked, cpu, held>> /\ pc[c] = "run"
        /\ pc'[c] \in {"run", "push_off"} /\ held'[c] = {}
    BY <1>0, <1>13, SMTT(60) DEF kerneltrap_return, TypeOK, Interrupted
  <2>2. Locking
    BY <1>2, <2>1 DEF Owns
  <2>3. Marking
    BY <1>2, <2>1 DEF Owns, Marked
  <2> QED
    BY <1>a, <1>2, <2>1, <2>2, <2>3
<1> QED
  BY <1>1, <1>3, <1>4, <1>5, <1>6, <1>7, <1>8, <1>9, <1>10, <1>11, <1>12, <1>13 DEF Step

\* Adding a lock to, or removing one from, those a CPU holds.
LEMMA HeldCount ==
  ASSUME IInv, NEW c \in CPUs
  PROVE  /\ Cardinality(held[c]) \in Nat
         /\ Cardinality(held[c]) = 0 <=> held[c] = {}
         /\ \A lk \in Locks :
              /\ lk \notin held[c] => Cardinality(held[c] \union {lk}) = Cardinality(held[c]) + 1
              /\ lk \in held[c] => Cardinality(held[c] \ {lk}) = Cardinality(held[c]) - 1
<1>1. IsFiniteSet(held[c])
  BY FS_Subset, SpinlockAssumption, SMTT(60) DEF IInv, TypeOK
<1> QED
  BY <1>1, FS_CardinalityType, FS_EmptySet, FS_AddElement, FS_RemoveElement, ZenonT(60)

LEMMA NestingStep == IInv /\ Next => Nesting'
<1> DEFINE N(d) ==
      /\ noff[d] = Cardinality(held[d]) + Inside(d)
      /\ noff[d] = 0 => intr[d] = wanted[d]
      /\ noff[d] # 0 => intr[d] = 0 /\ intena[d] = wanted[d]
      /\ pc[d] = "push_off" /\ noff[d] = 0 => old[d] = intr[d]
<1> SUFFICES ASSUME IInv, Next PROVE Nesting'
  OBVIOUS
<1>0. TypeOK /\ Ownership /\ Interrupted
  BY DEF IInv
<1>1. PICK c \in CPUs : Step(c)
  BY DEF Next
<1>2. /\ noff[c] \in Nat /\ intr[c] \in {0, 1} /\ intena[c] \in {0, 1} /\ wanted[c] \in {0, 1}
      /\ arg[c] \in Locks
  BY <1>0 DEF TypeOK
<1>3. N(c)
  BY DEF IInv, Nesting
<1>4. Cardinality(held[c]) \in Nat /\ (Cardinality(held[c]) = 0 <=> held[c] = {})
  BY HeldCount, SMTT(60)
<1> USE DEF lock, nest, code, Goto
<1>5. \A d \in CPUs : d # c =>
        /\ noff'[d] = noff[d] /\ held'[d] = held[d] /\ pc'[d] = pc[d] /\ intr'[d] = intr[d]
        /\ intena'[d] = intena[d] /\ wanted'[d] = wanted[d] /\ old'[d] = old[d]
  <2>1. CASE \E lk \in Locks : acquire(c, lk) \/ release(c, lk)
    BY <1>0, <2>1 DEF acquire, release, TypeOK
  <2>2. CASE push_off(c) \/ pop_off(c) \/ set_cpu(c)
    BY <1>0, <2>2 DEF push_off, pop_off, set_cpu, TypeOK
  <2>3. CASE acquire_locked(c) \/ acquire_cpu(c) \/ test_and_set(c)
    BY <1>0, <2>3 DEF acquire_locked, acquire_cpu, test_and_set, TypeOK
  <2>4. CASE release_cpu(c) \/ clear_cpu(c) \/ unlock(c)
    BY <1>0, <2>4, SMTT(60) DEF release_cpu, clear_cpu, unlock, TypeOK
  <2>5. CASE kerneltrap(c) \/ kerneltrap_return(c) \/ \E on \in {0, 1} : intr_set(c, on)
    BY <1>0, <2>5, SMTT(60) DEF kerneltrap, kerneltrap_return, intr_set, TypeOK
  <2> QED
    BY <1>1, <2>1, <2>2, <2>3, <2>4, <2>5 DEF Step
<1>6. ASSUME N(c)' PROVE Nesting'
  <2> SUFFICES ASSUME NEW d \in CPUs PROVE N(d)'
    BY DEF Nesting
  <2>1. CASE d = c
    BY <1>6, <2>1
  <2>2. CASE d # c
    <3>1. N(d)
      BY DEF IInv, Nesting
    <3>2. Inside(d)' = Inside(d)
      BY <1>5, <2>2 DEF Inside
    <3> QED
      BY <1>5, <2>2, <3>1, <3>2, SMTT(60)
  <2> QED
    BY <2>1, <2>2
<1> SUFFICES N(c)'
  BY <1>6
<1>7. ASSUME NEW lk \in Locks, acquire(c, lk) PROVE N(c)'
  <2>1. /\ pc[c] = "run" /\ pc'[c] = "push_off" /\ old'[c] = intr[c]
        /\ UNCHANGED <<noff, intr, intena, wanted, held>>
    BY <1>0, <1>7 DEF acquire, TypeOK
  <2>2. Inside(c) = 0 /\ Inside(c)' = 0
    BY <2>1 DEF Inside
  <2> QED
    BY <1>2, <1>3, <2>1, <2>2
<1>8. CASE push_off(c)
  <2>1. /\ pc[c] = "push_off" /\ pc'[c] = "acquire_locked" /\ noff'[c] = noff[c] + 1
        /\ intr'[c] = 0 /\ intena'[c] = IF noff[c] = 0 THEN old[c] ELSE intena[c]
        /\ UNCHANGED <<wanted, held, old>>
    BY <1>0, <1>8, SMTT(60) DEF push_off, TypeOK
  <2>2. Inside(c) = 0 /\ Inside(c)' = 1
    BY <2>1 DEF Inside
  <2> QED
    BY <1>2, <1>3, <1>4, <2>1, <2>2
<1>9. CASE acquire_locked(c) \/ acquire_cpu(c) \/ test_and_set(c) \/ release_cpu(c) \/ clear_cpu(c)
           \/ unlock(c)
  <2>1. /\ pc[c] \notin {"run", "push_off"} /\ pc'[c] \notin {"run", "push_off"}
        /\ UNCHANGED <<noff, intr, intena, wanted, held, old>>
    BY <1>0, <1>9 DEF acquire_locked, acquire_cpu, test_and_set, release_cpu, clear_cpu, unlock,
       TypeOK
  <2>2. Inside(c) = 1 /\ Inside(c)' = 1
    BY <2>1, SMTT(60) DEF Inside
  <2> QED
    BY <1>3, <2>1, <2>2, SMTT(60)
<1>10. CASE set_cpu(c)
  <2>1. /\ pc[c] = "set_cpu" /\ pc'[c] = "run" /\ held'[c] = held[c] \union {arg[c]}
        /\ UNCHANGED <<noff, intr, intena, wanted, old>>
    BY <1>0, <1>10 DEF set_cpu, TypeOK
  <2>2. Inside(c) = 1 /\ Inside(c)' = 0 /\ arg[c] \notin held[c]
    BY <1>0, <1>2, <2>1, SMTT(60) DEF Inside, Ownership
  <2>3. Cardinality(held'[c]) = Cardinality(held[c]) + 1
    BY <1>2, <2>1, <2>2, HeldCount
  <2>4. noff'[c] = Cardinality(held'[c]) + Inside(c)' /\ noff[c] # 0
    BY <1>3, <1>4, <2>1, <2>2, <2>3, SMTT(60)
  <2> QED
    BY <1>3, <2>1, <2>4
<1>11. ASSUME NEW lk \in Locks, release(c, lk) PROVE N(c)'
  <2>1. /\ pc[c] = "run" /\ pc'[c] = "release_cpu" /\ held'[c] = held[c] \ {lk} /\ lk \in held[c]
        /\ UNCHANGED <<noff, intr, intena, wanted, old>>
    BY <1>0, <1>11, SMTT(60) DEF release, TypeOK
  <2>2. Inside(c) = 0 /\ Inside(c)' = 1
    BY <2>1, SMTT(60) DEF Inside
  <2>3. Cardinality(held'[c]) = Cardinality(held[c]) - 1
    BY <2>1, HeldCount, SMTT(60)
  <2> QED
    BY <1>2, <1>3, <1>4, <2>1, <2>2, <2>3, SMTT(60)
<1>12. CASE pop_off(c)
  <2>1. /\ pc[c] = "pop_off" /\ pc'[c] = "run" /\ noff'[c] = noff[c] - 1
        /\ intr'[c] = IF noff[c] = 1 /\ intena[c] = 1 THEN 1 ELSE intr[c]
        /\ UNCHANGED <<intena, wanted, held, old>>
    BY <1>0, <1>12, SMTT(60) DEF pop_off, Reenable, TypeOK
  <2>2. Inside(c) = 1 /\ Inside(c)' = 0
    BY <2>1 DEF Inside
  <2> QED
    BY <1>2, <1>3, <1>4, <2>1, <2>2, SMTT(60)
<1>13. ASSUME NEW on \in {0, 1}, intr_set(c, on) PROVE N(c)'
  <2>1. /\ pc[c] = "run" /\ pc'[c] = "run" /\ held[c] = {} /\ intr'[c] = on /\ wanted'[c] = on
        /\ UNCHANGED <<noff, intena, held, old>>
    BY <1>0, <1>13 DEF intr_set, TypeOK
  <2>2. Inside(c) = 0 /\ Inside(c)' = 0
    BY <2>1 DEF Inside
  <2>3. noff[c] = 0
    BY <1>3, <1>4, <2>1, <2>2
  <2>4. noff'[c] = Cardinality(held'[c]) + Inside(c)'
    BY <1>3, <2>1, <2>2, ZenonT(60)
  <2> QED
    BY <2>1, <2>3, <2>4
<1>14. CASE kerneltrap(c)
  <2>1. /\ pc'[c] = "run" /\ intr[c] = 1 /\ intr'[c] = 0 /\ wanted'[c] = 0
        /\ UNCHANGED <<noff, intena, held, old>>
    BY <1>0, <1>14 DEF kerneltrap, TypeOK
  <2>2. Inside(c) = 0 /\ Inside(c)' = 0 /\ noff[c] = 0
    BY <2>1, IntrOn DEF Inside
  <2> QED
    BY <1>2, <1>3, <1>4, <2>1, <2>2
<1>15. CASE kerneltrap_return(c)
  <2>1. /\ pc[c] = "run" /\ held[c] = saved[c].held /\ intr'[c] = 1 /\ saved[c] # NoFrame
        /\ pc'[c] = saved[c].pc /\ old'[c] = saved[c].old /\ wanted'[c] = saved[c].wanted
        /\ UNCHANGED <<noff, intena, held>>
    BY <1>0, <1>15, SMTT(60) DEF kerneltrap_return, TypeOK
  <2>2. /\ held[c] = {} /\ pc'[c] \in {"run", "push_off"} /\ wanted'[c] = 1
        /\ pc'[c] = "push_off" => old'[c] = 1
    BY <1>0, <2>1 DEF Interrupted
  <2>3. Inside(c) = 0 /\ Inside(c)' = 0
    BY <2>1, <2>2, SMTT(60) DEF Inside
  <2>4. noff[c] = 0
    BY <1>3, <1>4, <2>1, <2>2, <2>3, SMTT(60)
  <2>5. noff'[c] = Cardinality(held'[c]) + Inside(c)'
    BY <1>3, <2>1, <2>3, SMTT(60)
  <2> QED
    BY <2>1, <2>2, <2>4, <2>5
<1> QED
  BY <1>1, <1>6, <1>7, <1>8, <1>9, <1>10, <1>11, <1>12, <1>13, <1>14, <1>15,
     ZenonT(60) DEF Step

LEMMA InterruptedStep == IInv /\ Next => Interrupted'
<1> SUFFICES ASSUME IInv, Next, NEW d \in CPUs, saved'[d] # NoFrame
             PROVE  /\ saved'[d].held = {} /\ saved'[d].pc \in {"run", "push_off"}
                    /\ saved'[d].wanted = 1 /\ saved'[d].old \in {0, 1} /\ wanted'[d] = 0
                    /\ saved'[d].pc = "push_off" => saved'[d].old = 1
  BY DEF Interrupted
<1>0. TypeOK /\ Interrupted /\ Nesting
  BY DEF IInv
<1>1. PICK c \in CPUs : Step(c)
  BY DEF Next
<1> USE DEF lock, nest, code, Goto
<1>2. CASE UNCHANGED <<saved, wanted>>
  BY <1>0, <1>2 DEF Interrupted
<1>3. CASE kerneltrap(c)
  <2>1. CASE d = c
    <3>1. noff[c] = 0 /\ held[c] = {} /\ Inside(c) = 0 /\ intr[c] = 1
      BY <1>3, IntrOn DEF kerneltrap
    <3>2. /\ saved'[c] = [pc |-> pc[c], arg |-> arg[c], old |-> old[c],
                          held |-> held[c], wanted |-> wanted[c]]
          /\ wanted'[c] = 0
      BY <1>0, <1>3 DEF kerneltrap, TypeOK
    <3>3. wanted[c] = 1 /\ (pc[c] = "push_off" => old[c] = 1) /\ old[c] \in {0, 1}
      BY <1>0, <3>1, SMTT(60) DEF Nesting, TypeOK
    <3> QED
      BY <2>1, <3>1, <3>2, <3>3, SMTT(60) DEF Inside
  <2>2. CASE d # c
    BY <1>0, <1>3, <2>2, SMTT(60) DEF kerneltrap, TypeOK, Interrupted
  <2> QED
    BY <2>1, <2>2
<1>4. CASE kerneltrap_return(c)
  BY <1>0, <1>4, SMTT(60) DEF kerneltrap_return, TypeOK, Interrupted
<1>5. CASE \E on \in {0, 1} : intr_set(c, on)
  BY <1>0, <1>5, SMTT(60) DEF intr_set, TypeOK, Interrupted
<1>6. CASE \E lk \in Locks : acquire(c, lk) \/ release(c, lk)
  BY <1>2, <1>6 DEF acquire, release
<1> QED
  BY <1>1, <1>2, <1>3, <1>4, <1>5, <1>6, ZenonT(60) DEF Step, push_off, acquire_locked, acquire_cpu,
     test_and_set, set_cpu, release_cpu, clear_cpu, unlock, pop_off

LEMMA NoPanicStep == IInv /\ Next => NoPanic'
<1> SUFFICES ASSUME IInv, Next PROVE panicked' = 0
  BY DEF NoPanic
<1>0. TypeOK /\ Ownership /\ Nesting /\ panicked = 0
  BY DEF IInv, NoPanic
<1>1. PICK c \in CPUs : Step(c)
  BY DEF Next
<1>2. CASE acquire_cpu(c)
  <2>1. pc[c] = "acquire_cpu" /\ arg[c] \in Locks
    BY <1>0, <1>2 DEF acquire_cpu, TypeOK
  <2>2. cpu[arg[c]] # c
    BY <1>0, <2>1 DEF Ownership, Marked
  <2> QED
    BY <1>2, <2>2 DEF acquire_cpu
<1>3. ASSUME NEW lk \in Locks, release(c, lk) PROVE panicked' = 0
  <2>1. locked[lk] = 1
    BY <1>0, <1>3 DEF release, Ownership, Owns
  <2> QED
    BY <1>3, <2>1 DEF release
<1>4. CASE release_cpu(c)
  <2>1. pc[c] = "release_cpu" /\ arg[c] \in Locks
    BY <1>0, <1>4 DEF release_cpu, TypeOK
  <2>2. cpu[arg[c]] = c
    BY <1>0, <2>1 DEF Ownership, Marked
  <2> QED
    BY <1>4, <2>2 DEF release_cpu
<1>5. CASE pop_off(c)
  <2>1. Inside(c) = 1 /\ Cardinality(held[c]) \in Nat
    BY <1>5, HeldCount DEF pop_off, Inside
  <2>2. noff[c] \in Nat /\ noff[c] >= 1 /\ intr[c] = 0
    BY <1>0, <2>1 DEF Nesting
  <2> QED
    BY <1>5, <2>2 DEF pop_off
<1>6. ASSUME NEW lk \in Locks, acquire(c, lk) PROVE panicked' = 0
  BY <1>0, <1>6 DEF acquire
<1>7. ASSUME NEW on \in {0, 1}, intr_set(c, on) PROVE panicked' = 0
  BY <1>0, <1>7, SMTT(60) DEF intr_set
<1>8. CASE \/ push_off(c) \/ acquire_locked(c) \/ test_and_set(c) \/ set_cpu(c) \/ clear_cpu(c)
           \/ unlock(c) \/ kerneltrap(c) \/ kerneltrap_return(c)
  BY <1>0, <1>8, ZenonT(60) DEF push_off, acquire_locked, test_and_set, set_cpu, clear_cpu, unlock,
     kerneltrap, kerneltrap_return
<1> QED
  BY <1>1, <1>2, <1>3, <1>4, <1>5, <1>6, <1>7, <1>8, ZenonT(60) DEF Step

LEMMA StutterInv == IInv /\ UNCHANGED vars => IInv'
<1> SUFFICES ASSUME IInv, UNCHANGED vars PROVE IInv'
  OBVIOUS
<1> USE DEF vars, IInv
<1>1. TypeOK'
  BY DEF TypeOK
<1>2. Ownership'
  BY SMTT(60) DEF Ownership, Owns, Marked
<1>3. Nesting'
  BY SMTT(60) DEF Nesting, Inside
<1>4. Interrupted' /\ NoPanic'
  BY SMTT(60) DEF Interrupted, NoPanic
<1> QED
  BY <1>1, <1>2, <1>3, <1>4

LEMMA InductiveInv == Spec => []IInv
<1>1. IInv /\ [Next]_vars => IInv'
  BY TypeStep, OwnershipStep, NestingStep, InterruptedStep, NoPanicStep, StutterInv DEF IInv
<1> QED
  BY <1>1, InitInv, PTL DEF Spec

-----------------------------------------------------------------------------
(***************************************************************************)
(* Every variable keeps its type; in particular noff, the depth that       *)
(* pop_off() decrements, never goes below zero.                            *)
(***************************************************************************)
THEOREM TypeCorrect == Spec => []TypeOK
<1>1. IInv => TypeOK
  BY DEF IInv
<1> QED
  BY <1>1, InductiveInv, PTL

(***************************************************************************)
(* acquire() and release() exclude: no two CPUs hold a lock together, for  *)
(* any number of CPUs and locks and with interrupt handlers that lock too. *)
(***************************************************************************)
THEOREM LocksExclude == Spec => []MutualExclusion
<1>1. IInv => MutualExclusion
  <2> SUFFICES ASSUME IInv, NEW c \in CPUs, NEW d \in CPUs, c # d,
                      NEW lk \in held[c], lk \in held[d]
               PROVE  FALSE
    BY DEF MutualExclusion
  <2>1. lk \in Locks
    BY DEF IInv, TypeOK
  <2> QED
    BY <2>1 DEF IInv, Ownership, Owns
<1> QED
  BY <1>1, InductiveInv, PTL

(***************************************************************************)
(* No panic of acquire(), release() or pop_off() is ever reached, although *)
(* holding() reads lk->locked and lk->cpu while other CPUs write them.     *)
(***************************************************************************)
THEOREM NeverPanics == Spec => []NoPanic
<1>1. IInv => NoPanic
  BY DEF IInv
<1> QED
  BY <1>1, InductiveInv, PTL

(***************************************************************************)
(* A CPU takes no interrupt while it holds or spins for a lock, so no      *)
(* handler can spin for a lock that the code it interrupted holds.         *)
(***************************************************************************)
THEOREM HoldersAreNotInterrupted == Spec => []InterruptsOff
<1>1. IInv => InterruptsOff
  <2> SUFFICES ASSUME IInv, NEW c \in CPUs, intr[c] # 0,
                      held[c] # {} \/ pc[c] \in {"spin", "set_cpu"} \/ saved[c] # NoFrame
               PROVE  FALSE
    BY DEF InterruptsOff
  <2>1. intr[c] = 1
    BY DEF IInv, TypeOK
  <2>2. held[c] = {} /\ noff[c] = 0 /\ Inside(c) = 0
    BY <2>1, IntrOn
  <2>3. wanted[c] = 1
    BY <2>1, <2>2, SMTT(60) DEF IInv, Nesting
  <2> QED
    BY <2>2, <2>3 DEF IInv, Interrupted, Inside
<1> QED
  BY <1>1, InductiveInv, PTL

(***************************************************************************)
(* Once all locks are released, in whatever order, interrupts are enabled  *)
(* exactly if they were before the first acquire().                        *)
(***************************************************************************)
THEOREM InterruptsComeBack == Spec => []IntrRestored
<1>1. IInv => IntrRestored
  <2> SUFFICES ASSUME IInv, NEW c \in CPUs, pc[c] = "run", held[c] = {}
               PROVE  noff[c] = 0 /\ intr[c] = wanted[c]
    BY DEF IntrRestored
  <2>1. Cardinality(held[c]) = 0 /\ Inside(c) = 0
    BY HeldCount, ZenonT(60) DEF Inside
  <2> QED
    BY <2>1 DEF IInv, Nesting
<1> QED
  BY <1>1, InductiveInv, PTL
=============================================================================
