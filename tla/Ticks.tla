-------------------------------- MODULE Ticks --------------------------------
(***************************************************************************)
(* The clock: clockintr() of kernel/trap.c counts ticks, sys_pause() of    *)
(* kernel/sysproc.c waits for a number of them.  A step is a critical      *)
(* section of tickslock, or the part of one up to sleep(): kkill() may     *)
(* come between the test of p->killed and sleep().  A process that was     *)
(* woken gets to run before the counter has come round, 2^32 ticks later.  *)
(***************************************************************************)
EXTENDS Integers, FiniteSetsExt

CONSTANTS Procs, TickMod, MaxN

VARIABLES
  ticks,
  call,       \* ticks0, n, and as history the ticks that have passed
  killed

vars == <<ticks, call, killed>>

Idle == [pc |-> "idle", ticks0 |-> 0, n |-> 0, passed |-> 0, ret |-> 0]

Init == ticks = 0 /\ call = [p \in Procs |-> Idle] /\ killed = [p \in Procs |-> 0]

\* tickslock: a process on its way to sleep() has it.
Free == \A p \in Procs : call[p].pc # "sleep"

\* On CPU 0; the others count nothing.
clockintr ==
  /\ Free
  /\ \A p \in Procs : call[p].pc # "idle" => call[p].passed < TickMod - 1
  /\ ticks' = (ticks + 1) % TickMod
  /\ call' = [p \in Procs |->
       IF call[p].pc = "idle" THEN call[p]
       ELSE [call[p] EXCEPT !.passed = @ + 1, !.pc = "woken"]]
  /\ UNCHANGED killed

\* The loop of sys_pause() from its test to its next call of sleep() or its end.
Turn(p, c) ==
  /\ Free
  /\ call' = [call EXCEPT ![p] =
       IF (ticks - c.ticks0) % TickMod >= c.n THEN [c EXCEPT !.pc = "idle", !.ret = 0]
       ELSE IF killed[p] = 1 THEN [c EXCEPT !.pc = "idle", !.ret = -1]
       ELSE [c EXCEPT !.pc = "sleep"]]
  /\ killed' = IF call'[p].pc = "idle" THEN [killed EXCEPT ![p] = 0] ELSE killed
  /\ UNCHANGED ticks

sys_pause(p, n) ==
  /\ call[p].pc = "idle"
  /\ Turn(p, [Idle EXCEPT !.ticks0 = ticks, !.n = Max({n, 0})])

\* sleep(&ticks, &tickslock)
sys_pause_sleep(p) ==
  /\ call[p].pc = "sleep"
  /\ call' = [call EXCEPT ![p].pc = "asleep"]
  /\ UNCHANGED <<ticks, killed>>

sys_pause_woken(p) == call[p].pc = "woken" /\ Turn(p, call[p])

\* It wakes a process that sleeps.
kkill(p) ==
  /\ call[p].pc # "idle" /\ killed[p] = 0
  /\ killed' = [killed EXCEPT ![p] = 1]
  /\ call' = [call EXCEPT ![p].pc = IF @ = "asleep" THEN "woken" ELSE @]
  /\ UNCHANGED ticks

Next ==
  \/ clockintr
  \/ \E p \in Procs : sys_pause_sleep(p) \/ sys_pause_woken(p) \/ kkill(p) \/ \E n \in -1..MaxN : sys_pause(p, n)

Spec == Init /\ [][Next]_vars
-----------------------------------------------------------------------------
\* pause(n) returns 0 after n ticks and not before, and nobody sleeps on when they
\* have passed, also when the counter wraps in between.
PausesEnd ==
  \A p \in Procs :
    /\ call[p].pc = "idle" /\ call[p].ret = 0 => call[p].passed >= call[p].n
    /\ call[p].pc = "asleep" => call[p].passed < call[p].n
=============================================================================
