------------------------------- MODULE Console -------------------------------
(***************************************************************************)
(* Input of the console, kernel/console.c: a circular buffer with three    *)
(* indexes that run freely and wrap, filled by the interrupt handler and   *)
(* emptied by readers.  The handler holds cons.lock from beginning to end  *)
(* and is one step; a reader takes one byte per step, and keeps the lock.  *)
(***************************************************************************)
EXTENDS Integers, Sequences, FiniteSetsExt

CONSTANTS
  Procs,
  INPUT_BUF_SIZE,
  IndexMod,         \* 2^32 in the code; a multiple of INPUT_BUF_SIZE
  MaxN              \* most bytes a read() asks for

\* "nl" and "cr" are \n and \r; "^H" also stands for delete, "0" for the byte 0.
Chars == {"a", "nl", "cr", "0", "^D", "^H", "^U", "^P"}

VARIABLES
  cons,       \* buf, r, w, e
  lock,       \* reader that holds cons.lock
  call,       \* consoleread() of each process
  killed

vars == <<cons, lock, call, killed>>

NoLock == 0
Idle == [pc |-> "idle", n |-> -1, bytes |-> << >>]

Init ==
  /\ cons = [buf |-> [i \in 0..INPUT_BUF_SIZE - 1 |-> "0"], r |-> 0, w |-> 0, e |-> 0]
  /\ lock = NoLock
  /\ call = [p \in Procs |-> Idle]
  /\ killed = [p \in Procs |-> 0]

\* Unsigned arithmetic on the indexes
Sub(a, b) == (a - b) % IndexMod
Char(c, i) == c.buf[(i % IndexMod) % INPUT_BUF_SIZE]

\* wakeup(&cons.r)
Woken == [p \in Procs |-> IF call[p].pc = "asleep" THEN [call[p] EXCEPT !.pc = "woken"] ELSE call[p]]

\* The default case of consoleintr().
Stored(c) ==
  LET k == IF c = "cr" THEN "nl" ELSE c
      a == [cons EXCEPT !.buf[cons.e % INPUT_BUF_SIZE] = k, !.e = Sub(@ + 1, 0)]
  IN [cons |-> IF k \in {"nl", "^D"} \/ Sub(a.e, a.r) = INPUT_BUF_SIZE THEN [a EXCEPT !.w = a.e] ELSE a,
      wakes |-> k \in {"nl", "^D"} \/ Sub(a.e, a.r) = INPUT_BUF_SIZE]

Room == Sub(cons.e, cons.r) < INPUT_BUF_SIZE

\* Steps back of control-U: to w, or to behind a newline.
LineLen ==
  Min({k \in 0..Sub(cons.e, cons.w) : k = Sub(cons.e, cons.w) \/ Char(cons, cons.e - k - 1) = "nl"})

\* Echo goes through uartputc_sync(), which is in module Uart.
consoleintr(c) ==
  /\ lock = NoLock
  /\ \/ c = "^P" /\ UNCHANGED <<cons, call>>
     \/ c = "^U" /\ cons' = [cons EXCEPT !.e = Sub(@, LineLen)] /\ UNCHANGED call
     \/ c = "^H" /\ cons' = [cons EXCEPT !.e = IF @ # cons.w THEN Sub(@, 1) ELSE @] /\ UNCHANGED call
     \/ c \notin {"^P", "^U", "^H"} /\ (c = "0" \/ ~Room) /\ UNCHANGED <<cons, call>>
     \/ /\ c \notin {"^P", "^U", "^H", "0"} /\ Room
        /\ cons' = Stored(c).cons
        /\ call' = IF Stored(c).wakes THEN Woken ELSE call
  /\ UNCHANGED <<lock, killed>>

consoleread(p, n) ==
  /\ lock = NoLock /\ call[p].pc = "idle"
  /\ lock' = p
  /\ call' = [call EXCEPT ![p] = [pc |-> "read", n |-> n, bytes |-> << >>]]
  /\ UNCHANGED <<cons, killed>>

Reading(p) == lock = p /\ call[p].pc = "read"

\* release(&cons.lock) and the return; a killed process does not come back, and
\* another one may get its slot.
Return(p) ==
  /\ lock' = NoLock
  /\ call' = [call EXCEPT ![p] = Idle]
  /\ killed' = [killed EXCEPT ![p] = 0]

\* No input: the test of killed(), and then sleep(); a kill may come between.
consoleread_wait(p) ==
  /\ Reading(p) /\ cons.r = cons.w
  /\ IF killed[p] = 1 THEN Return(p)
     ELSE call' = [call EXCEPT ![p].pc = "sleep"] /\ UNCHANGED <<lock, killed>>
  /\ UNCHANGED cons

consoleread_sleep(p) ==
  /\ lock = p /\ call[p].pc = "sleep"
  /\ lock' = NoLock
  /\ call' = [call EXCEPT ![p].pc = "asleep"]
  /\ UNCHANGED <<cons, killed>>

consoleread_woken(p) ==
  /\ lock = NoLock /\ call[p].pc = "woken"
  /\ lock' = p
  /\ call' = [call EXCEPT ![p].pc = "read"]
  /\ UNCHANGED <<cons, killed>>

KeepEof_Always(p) == TRUE

\* n < target: save the end-of-file for the next call
KeepEof(p) == call[p].bytes # << >>

\* One byte: an end-of-file, a copy to the user, or a copy that fails.
consoleread_char(p) ==
  LET c == Char(cons, cons.r)
      got == Append(call[p].bytes, c)
  IN /\ Reading(p) /\ cons.r # cons.w
     /\ cons' = [cons EXCEPT !.r = IF c = "^D" /\ KeepEof(p) THEN @ ELSE Sub(@ + 1, 0)]
     /\ \/ Return(p)
        \/ /\ c # "^D"
           /\ IF c = "nl" \/ Len(got) = call[p].n THEN Return(p)
              ELSE call' = [call EXCEPT ![p].bytes = got] /\ UNCHANGED <<lock, killed>>

kkill(p) ==
  /\ call[p].pc # "idle" /\ killed[p] = 0
  /\ killed' = [killed EXCEPT ![p] = 1]
  /\ call' = IF call[p].pc = "asleep" THEN [call EXCEPT ![p].pc = "woken"] ELSE call
  /\ UNCHANGED <<cons, lock>>

Next ==
  \/ \E c \in Chars : consoleintr(c)
  \/ \E p \in Procs :
       \/ \E n \in 1..MaxN : consoleread(p, n)
       \/ consoleread_wait(p)
       \/ consoleread_sleep(p)
       \/ consoleread_woken(p)
       \/ consoleread_char(p)
       \/ kkill(p)

Spec == Init /\ [][Next]_vars
-----------------------------------------------------------------------------
\* The refinement mapping to LineInput.
Queue == [k \in 1..Sub(cons.w, cons.r) |-> Char(cons, cons.r + k - 1)]
Line == [k \in 1..Sub(cons.e, cons.w) |-> Char(cons, cons.w + k - 1)]
Got == [p \in Procs |-> [n |-> call[p].n, bytes |-> call[p].bytes]]

\* No reader sleeps while there is finished input, and a full buffer is finished
\* input: otherwise nothing could be typed or read any more.
ReadersWoken ==
  /\ \A p \in Procs : call[p].pc = "asleep" => cons.r = cons.w
  /\ Sub(cons.e, cons.r) <= INPUT_BUF_SIZE
  /\ Sub(cons.e, cons.r) = INPUT_BUF_SIZE => cons.w = cons.e
=============================================================================
