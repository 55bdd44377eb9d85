-------------------------------- MODULE Uart --------------------------------
(***************************************************************************)
(* Output to the serial line, kernel/uart.c, under consolewrite().  Three  *)
(* kinds of writers meet at the transmit register: write() calls, which    *)
(* wait for an interrupt while tx_busy is set; kernel printf and the echo  *)
(* of input, which poll the line status and know nothing of tx_busy.       *)
(* Bytes are counted, not told apart.                                      *)
(***************************************************************************)
EXTENDS Integers, FiniteSets, FiniteSetsExt

CONSTANTS
  Procs,
  Printers,     \* CPUs that are in printf(), at most one byte each at a time
  Handler,      \* the CPU that runs uartintr(), and echoes
  BufSize,      \* sizeof(buf) in consolewrite()
  MaxN, MaxRx

VARIABLES
  thr,          \* device: bytes in the transmit FIFO
  txirq,        \* device: transmit interrupt
  rx,           \* device: bytes received
  tx_busy,
  call,         \* consolewrite() of each process
  sync,         \* uartputc_sync(): bytes to go, and whether the line was seen idle
  intr          \* where the handler is

vars == <<thr, txirq, rx, tx_busy, call, sync, intr>>

Idle == [pc |-> "idle", left |-> 0, nn |-> 0]
NoSync == [left |-> 0, idle |-> 0]

\* Enabling transmit interrupts while nothing is to be sent raises one.
Init ==
  /\ thr = 0 /\ txirq = 1 /\ rx = 0 /\ tx_busy = 0
  /\ call = [p \in Procs |-> Idle]
  /\ sync = [c \in Printers \union {Handler} |-> NoSync]
  /\ intr = "idle"

\* WriteReg(THR, c) takes back an interrupt that says there is room.
WriteTHR == thr' = thr + 1 /\ txirq' = 0

\* The device sends a byte, or receives one.
Sent ==
  /\ thr > 0
  /\ thr' = thr - 1
  /\ txirq' = IF thr = 1 THEN 1 ELSE txirq
  /\ UNCHANGED <<rx, tx_busy, call, sync, intr>>

Received == rx < MaxRx /\ rx' = rx + 1 /\ UNCHANGED <<thr, txirq, tx_busy, call, sync, intr>>
-----------------------------------------------------------------------------
consolewrite(p, n) ==
  /\ call[p].pc = "idle"
  /\ call' = [call EXCEPT ![p] = [pc |-> "copyin", left |-> n, nn |-> 0]]
  /\ UNCHANGED <<thr, txirq, rx, tx_busy, sync, intr>>

\* A turn of the loop of consolewrite(): either_copyin() may fail.
consolewrite_copyin(p) ==
  LET nn == Min({call[p].left, BufSize})
  IN /\ call[p].pc = "copyin"
     /\ \/ call' = [call EXCEPT ![p] = Idle]
        \/ call' = [call EXCEPT ![p] = [pc |-> "write", left |-> call[p].left - nn, nn |-> nn]]
     /\ UNCHANGED <<thr, txirq, rx, tx_busy, sync, intr>>

AfterByte(c) ==
  IF c.nn > 1 THEN [c EXCEPT !.pc = "asleep", !.nn = @ - 1]
  ELSE IF c.left > 0 THEN [c EXCEPT !.pc = "copyin", !.nn = 0] ELSE Idle

\* A critical section of tx_lock: a byte if the UART is free, and then sleep(), as
\* tx_busy is set.
uartwrite(p) ==
  /\ call[p].pc \in {"write", "woken"}
  /\ IF tx_busy = 1
     THEN call' = [call EXCEPT ![p].pc = "asleep"] /\ UNCHANGED <<thr, txirq, tx_busy>>
     ELSE call' = [call EXCEPT ![p] = AfterByte(@)] /\ WriteTHR /\ tx_busy' = 1
  /\ UNCHANGED <<rx, sync, intr>>

\* consputc() of printf()
consputc(c) ==
  /\ c \in Printers /\ sync[c] = NoSync
  /\ sync' = [sync EXCEPT ![c].left = 1]
  /\ UNCHANGED <<thr, txirq, rx, tx_busy, call, intr>>

\* uartputc_sync() sees the line idle ...
uartputc_sync(c) ==
  /\ sync[c].left > 0 /\ sync[c].idle = 0 /\ thr = 0
  /\ sync' = [sync EXCEPT ![c].idle = 1]
  /\ UNCHANGED <<thr, txirq, rx, tx_busy, call, intr>>

\* ... and writes, whoever has written in between.
uartputc_sync_write(c) ==
  /\ sync[c].idle = 1
  /\ WriteTHR
  /\ sync' = [sync EXCEPT ![c] = [left |-> @.left - 1, idle |-> 0]]
  /\ UNCHANGED <<rx, tx_busy, call, intr>>

\* plic_claim() and the ReadReg(ISR) of uartintr(), which takes the transmit
\* interrupt back unless input comes first.
devintr ==
  /\ intr = "idle" /\ (txirq = 1 \/ rx > 0)
  /\ txirq' = IF rx = 0 THEN 0 ELSE txirq
  /\ intr' = "tx"
  /\ UNCHANGED <<thr, rx, tx_busy, call, sync>>

TxIdle_AnyTime == TRUE

\* ReadReg(LSR) & LSR_TX_IDLE
TxIdle == thr = 0

\* The critical section of uartintr().
uartintr ==
  /\ intr = "tx"
  /\ IF TxIdle
     THEN /\ tx_busy' = 0
          /\ call' = [p \in Procs |-> IF call[p].pc = "asleep" THEN [call[p] EXCEPT !.pc = "woken"] ELSE call[p]]
     ELSE UNCHANGED <<tx_busy, call>>
  /\ intr' = "getc"
  /\ UNCHANGED <<thr, txirq, rx, sync>>

\* A turn of its loop: consoleintr() echoes nothing, a byte, or a backspace of three.
uartgetc ==
  /\ intr = "getc" /\ sync[Handler] = NoSync
  /\ IF rx = 0 THEN intr' = "idle" /\ UNCHANGED <<rx, sync>>
     ELSE /\ rx' = rx - 1
          /\ \E k \in {0, 1, 3} : sync' = [sync EXCEPT ![Handler].left = k]
          /\ UNCHANGED intr
  /\ UNCHANGED <<thr, txirq, tx_busy, call>>

Next ==
  \/ Sent \/ Received
  \/ \E p \in Procs : consolewrite_copyin(p) \/ uartwrite(p) \/ \E n \in 1..MaxN : consolewrite(p, n)
  \/ \E c \in Printers \union {Handler} : consputc(c) \/ uartputc_sync(c) \/ uartputc_sync_write(c)
  \/ devintr \/ uartintr \/ uartgetc

Spec == Init /\ [][Next]_vars
-----------------------------------------------------------------------------
\* A writer sleeps only while the UART is busy, and then an interrupt that finds
\* it idle is still to come, although printf and echo write the register without
\* tx_lock and so take interrupts back.  The FIFO never holds more bytes than
\* there are CPUs that poll, and one: with NCPU = 8 its 16 places suffice.
WritersWoken ==
  /\ \A p \in Procs : call[p].pc = "asleep" => tx_busy = 1
  /\ tx_busy = 1 => thr > 0 \/ txirq = 1 \/ intr = "tx"
  /\ thr <= Cardinality(Printers) + 2
=============================================================================
