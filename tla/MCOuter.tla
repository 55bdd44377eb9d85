------------------------------- MODULE MCOuter -------------------------------
(***************************************************************************)
(* The parts around the core of the kernel: console, serial line and       *)
(* clock, and user space with the shell, malloc(), library functions and   *)
(* mkfs.  They share no state; a behaviour is one of one of them.          *)
(***************************************************************************)
EXTENDS Integers, Sequences

VARIABLES
  part, call, killed,
  cons, lock,                             \* Console
  thr, txirq, rx, tx_busy, sync, intr,    \* Uart
  ticks,                                  \* Ticks
  heap, brk, core, used,                  \* Umalloc
  proc, pipe,                             \* Shell
  fs, at, left,                           \* Mkfs
  ret                                     \* Library

callVars == <<call, killed>>
consVars == <<cons, lock>>
uartVars == <<thr, txirq, rx, tx_busy, sync, intr>>
heapVars == <<heap, brk, core, used>>
shVars == <<proc, pipe>>
mkfsVars == <<fs, at, left>>
vars == <<part, callVars, consVars, uartVars, ticks, heapVars, shVars, mkfsVars, ret>>

\* Indexes wrap after twice round the buffer; a read() may ask for more than
\* the buffer holds.
Console == INSTANCE Console WITH Procs <- {1, 2}, INPUT_BUF_SIZE <- 2, IndexMod <- 4, MaxN <- 3

\* A write of two buffers, a printf on another CPU, and echo.
Uart == INSTANCE Uart
          WITH Procs <- {1, 2}, Printers <- {11}, Handler <- 20, BufSize <- 2, MaxN <- 3, MaxRx <- 1

Ticks == INSTANCE Ticks WITH Procs <- {1, 2}, TickMod <- 4, MaxN <- 2

\* sbrk() gives out three pieces or four.
Umalloc == INSTANCE Umalloc WITH HeaderSize <- 2, NALLOC <- 4, Top <- 12, MaxBytes <- 3

\* Lines that ought to end: pipelines whose reader or writer ends first, in
\* blocks, in the background, redirected; and two that do not parse or run.
Lines == {
  <<"e", "|", "c">>, <<"e", "|", "t">>, <<"e", "|", "c", "|", "c">>,
  <<"(", "e", "&", ")", ">", "f", "|", "c">>,
  <<"c", "<", "f">>,
  <<"t", "&", ";", "(", "c", "|", "e", ")", "|", "c">>,
  <<"e", "|">>, <<"e", "&", "e">>}
Shell == INSTANCE Shell WITH MAXARGS <- 3, NPROC <- 7, NPIPE <- 3, PIPESIZE <- 1, MaxLeft <- 0

\* Files that need the indirect block, that are too large, and that fill the disk.
Mkfs == INSTANCE Mkfs
          WITH FSSIZE <- 11, nmeta <- 4, NDIRECT <- 1, NINDIRECT <- 2, BSIZE <- 2, MaxFiles <- 3, MaxSize <- 7

Library == INSTANCE Library WITH MAXARGS <- 3, MemSize <- 5, Width <- 10, DIRSIZ <- 2, MaxLen <- 4

NoCall == call = 0 /\ killed = 0
NoConsole == cons = 0 /\ lock = 0
NoUart == thr = 0 /\ txirq = 0 /\ rx = 0 /\ tx_busy = 0 /\ sync = 0 /\ intr = 0
NoHeap == heap = 0 /\ brk = 0 /\ core = 0 /\ used = 0
NoShell == proc = 0 /\ pipe = 0
NoMkfs == fs = 0 /\ at = 0 /\ left = 0

Init ==
  \/ part = "console" /\ Console!Init /\ NoUart /\ ticks = 0 /\ NoHeap /\ NoShell /\ NoMkfs /\ ret = 0
  \/ part = "uart" /\ Uart!Init /\ killed = 0 /\ NoConsole /\ ticks = 0 /\ NoHeap /\ NoShell /\ NoMkfs /\ ret = 0
  \/ part = "ticks" /\ Ticks!Init /\ NoConsole /\ NoUart /\ NoHeap /\ NoShell /\ NoMkfs /\ ret = 0
  \/ part = "heap" /\ Umalloc!Init /\ NoCall /\ NoConsole /\ NoUart /\ ticks = 0 /\ NoShell /\ NoMkfs /\ ret = 0
  \/ part = "shell" /\ Shell!Init /\ NoCall /\ NoConsole /\ NoUart /\ ticks = 0 /\ NoHeap /\ NoMkfs /\ ret = 0
  \/ part = "mkfs" /\ Mkfs!Init /\ NoCall /\ NoConsole /\ NoUart /\ ticks = 0 /\ NoHeap /\ NoShell /\ ret = 0
  \/ part = "library" /\ Library!Init /\ NoCall /\ NoConsole /\ NoUart /\ ticks = 0 /\ NoHeap /\ NoShell /\ NoMkfs

\* A step A of the shell
Sh(A) ==
  /\ part = "shell" /\ A
  /\ UNCHANGED <<part, callVars, consVars, uartVars, ticks, heapVars, mkfsVars, ret>>

Next ==
  \/ /\ UNCHANGED part
     /\ \/ part = "console" /\ Console!Next /\ UNCHANGED <<uartVars, ticks, heapVars, shVars, mkfsVars, ret>>
        \/ part = "uart" /\ Uart!Next /\ UNCHANGED <<killed, consVars, ticks, heapVars, shVars, mkfsVars, ret>>
        \/ part = "ticks" /\ Ticks!Next /\ UNCHANGED <<consVars, uartVars, heapVars, shVars, mkfsVars, ret>>
        \/ part = "heap" /\ Umalloc!Next /\ UNCHANGED <<callVars, consVars, uartVars, ticks, shVars, mkfsVars, ret>>
        \/ part = "mkfs" /\ Mkfs!Next /\ UNCHANGED <<callVars, consVars, uartVars, ticks, heapVars, shVars, ret>>
        \/ part = "library" /\ Library!Next
           /\ UNCHANGED <<callVars, consVars, uartVars, ticks, heapVars, shVars, mkfsVars>>
  \/ Sh(Shell!Next)

\* The scheduler runs every process of the shell that can run; nobody need type.
Fairness == WF_vars(Sh(Shell!ShStep)) /\ \A p \in 1..7 : WF_vars(Sh(Shell!Step(p)))

Spec == Init /\ [][Next]_vars /\ Fairness
-----------------------------------------------------------------------------
Input ==
  INSTANCE LineInput
    WITH Procs <- {1, 2}, Size <- 2, MaxN <- 3, Chars <- Console!Chars,
         queue <- IF part = "console" THEN Console!Queue ELSE << >>,
         line <- IF part = "console" THEN Console!Line ELSE << >>,
         got <- IF part = "console" THEN Console!Got ELSE [p \in {1, 2} |-> [n |-> -1, bytes |-> << >>]]

\* consoleintr() and consoleread(): three indexes that wrap are a line that is
\* edited and a queue of finished lines; see LineInput.
IsLineInput == Input!Spec

\* Sleepers of the console, the serial line and the clock: consoleintr(), uartintr()
\* and clockintr() leave nobody asleep who could go on, though printf and echo use
\* the transmit register without the lock and the counters wrap.
NoSleeperForgotten ==
  /\ part = "console" => Console!ReadersWoken
  /\ part = "uart" => Uart!WritersWoken
  /\ part = "ticks" => Ticks!PausesEnd

\* main() and runcmd() of the shell: it asks for the next line again and again,
\* whatever fork(), pipe(), open() and exec() fail; every end of a pipe is closed by
\* those who do not use it, or a reader would wait for ever.
ShellReturns == []<>(part = "shell" => Shell!AtPrompt)

\* Sequential code, whatever it is called with: runcmd() gives a program its right
\* descriptors, malloc() and free() partition the heap, mkfs makes a sound image,
\* library functions agree with their references; see the modules.
UserSpaceSound ==
  /\ part = "shell" => Shell!Plumbing
  /\ part = "heap" => Umalloc!HeapPartition
  /\ part = "mkfs" => Mkfs!ImageSound
  /\ part = "library" => Library!Agrees
=============================================================================
