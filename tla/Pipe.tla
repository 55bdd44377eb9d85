-------------------------------- MODULE Pipe --------------------------------
(***************************************************************************)
(* A pipe, kernel/pipe.c, shared by processes that read and processes that *)
(* write.  A step is a part of a critical section of pi->lock between two  *)
(* points where another process or a kill can matter.  sleep() is one      *)
(* step, see module Sched; kkill() needs no pi->lock.                      *)
(***************************************************************************)
EXTENDS Integers, Sequences

CONSTANTS
  Readers, Writers,    \* processes that hold a descriptor of either end
  NoProc,
  Bytes, NoByte,
  PIPESIZE,
  Wrap,                \* 2^32 in the code: nread and nwrite are unsigned ints
  MaxN                 \* most bytes asked for in a call

ASSUME PipeAssumption ==
  /\ NoProc \notin Readers \union Writers /\ Readers \intersect Writers = {}
  /\ NoByte \notin Bytes
  /\ PIPESIZE \in Nat \ {0} /\ MaxN \in Nat
  /\ Wrap \in Nat /\ Wrap > PIPESIZE /\ Wrap % PIPESIZE = 0

Procs == Readers \union Writers

VARIABLES
  data, nread, nwrite, readopen, writeopen,    \* struct pipe
  lock,        \* process that holds pi->lock
  asleep,      \* processes asleep, readers on &pi->nread, writers on &pi->nwrite
  pc, i, n,    \* of pipewrite() and piperead()
  killed,
  received,    \* byte that copyout() has put into a user's buffer last
  freed        \* how many times the page was given to kfree()

pipe == <<data, nread, nwrite, readopen, writeopen>>
vars == <<pipe, lock, asleep, pc, i, n, killed, received, freed>>

\* pipealloc()
Init ==
  /\ data \in {[k \in 0..PIPESIZE - 1 |-> b] : b \in Bytes}
  /\ nread = 0 /\ nwrite = 0
  /\ readopen = 1 /\ writeopen = 1
  /\ lock = NoProc
  /\ asleep = {}
  /\ pc = [p \in Procs |-> "idle"]
  /\ i = [p \in Procs |-> 0]
  /\ n = [p \in Procs |-> 0]
  /\ killed = [p \in Procs |-> 0]
  /\ received = NoByte
  /\ freed = 0

Goto(p, l) == pc' = [pc EXCEPT ![p] = l]

Full_OffByOne == nwrite = (nread + PIPESIZE + 1) % Wrap

\* pi->nwrite == pi->nread + PIPESIZE
Full == nwrite = (nread + PIPESIZE) % Wrap

Empty == nread = nwrite

\* pi->nread++ and pi->nwrite++ of unsigned ints
Inc(index) == (index + 1) % Wrap

\* The call starts with acquire(&pi->lock).
Call(p, l, k) ==
  /\ pc[p] = "idle" /\ killed[p] = 0 /\ lock = NoProc
  /\ lock' = p
  /\ n' = [n EXCEPT ![p] = k]
  /\ Goto(p, l)
  /\ UNCHANGED <<pipe, asleep, i, killed, received, freed>>

\* release(&pi->lock) and return.
Return(p) ==
  /\ lock' = NoProc
  /\ i' = [i EXCEPT ![p] = 0]
  /\ n' = [n EXCEPT ![p] = 0]
  /\ Goto(p, "idle")

\* The end of sleep(): acquire(&pi->lock).
Resume(p, l) ==
  /\ p \notin asleep /\ lock = NoProc
  /\ lock' = p
  /\ Goto(p, l)
  /\ UNCHANGED <<pipe, asleep, i, n, killed, received, freed>>

-----------------------------------------------------------------------------
pipewrite(w, k) == Call(w, "write", k)

\* pi->readopen == 0 || killed(pr)
Broken(w) == readopen = 0 \/ killed[w] = 1

pipewrite_broken(w) ==
  /\ pc[w] = "write" /\ i[w] < n[w] /\ Broken(w)
  /\ Return(w)
  /\ UNCHANGED <<pipe, asleep, killed, received, freed>>

pipewrite_test(w) ==
  /\ pc[w] = "write" /\ i[w] < n[w] /\ ~Broken(w)
  /\ Goto(w, "put")
  /\ UNCHANGED <<pipe, lock, asleep, i, n, killed, received, freed>>

\* wakeup(&pi->nread); sleep(&pi->nwrite, &pi->lock)
pipewrite_full(w) ==
  /\ pc[w] = "put" /\ Full
  /\ asleep' = (asleep \ Readers) \union {w}
  /\ lock' = NoProc
  /\ Goto(w, "write_sleep")
  /\ UNCHANGED <<pipe, i, n, killed, received, freed>>

pipewrite_resume(w) == pc[w] = "write_sleep" /\ Resume(w, "write")

pipewrite_put(w, ch) ==
  /\ pc[w] = "put" /\ ~Full
  /\ data' = [data EXCEPT ![nwrite % PIPESIZE] = ch]
  /\ nwrite' = Inc(nwrite)
  /\ i' = [i EXCEPT ![w] = @ + 1]
  /\ Goto(w, "write")
  /\ UNCHANGED <<nread, readopen, writeopen, lock, asleep, n, killed, received, freed>>

\* copyin() fails
pipewrite_fault(w) ==
  /\ pc[w] = "put" /\ ~Full
  /\ Goto(w, "write_end")
  /\ UNCHANGED <<pipe, lock, asleep, i, n, killed, received, freed>>

WakeReaders_None == asleep

\* wakeup(&pi->nread)
WakeReaders == asleep \ Readers

pipewrite_return(w) ==
  /\ pc[w] = "write_end" \/ (pc[w] = "write" /\ i[w] = n[w])
  /\ asleep' = WakeReaders
  /\ Return(w)
  /\ UNCHANGED <<pipe, killed, received, freed>>

-----------------------------------------------------------------------------
piperead(r, k) == Call(r, "read", k)

\* pi->nread == pi->nwrite && pi->writeopen
Waits == Empty /\ writeopen = 1

piperead_killed(r) ==
  /\ pc[r] = "read" /\ Waits /\ killed[r] = 1
  /\ Return(r)
  /\ UNCHANGED <<pipe, asleep, killed, received, freed>>

piperead_test(r) ==
  /\ pc[r] = "read"
  /\ ~Waits \/ killed[r] = 0
  /\ Goto(r, IF Waits THEN "empty" ELSE "get")
  /\ UNCHANGED <<pipe, lock, asleep, i, n, killed, received, freed>>

\* sleep(&pi->nread, &pi->lock)
piperead_sleep(r) ==
  /\ pc[r] = "empty"
  /\ asleep' = asleep \union {r}
  /\ lock' = NoProc
  /\ Goto(r, "read_sleep")
  /\ UNCHANGED <<pipe, i, n, killed, received, freed>>

piperead_resume(r) == pc[r] = "read_sleep" /\ Resume(r, "read")

\* The byte leaves the pipe, whether copyout() takes it or fails.
piperead_get(r) ==
  /\ pc[r] = "get" /\ i[r] < n[r] /\ ~Empty
  /\ nread' = Inc(nread)
  /\ \/ /\ received' = data[nread % PIPESIZE]
        /\ i' = [i EXCEPT ![r] = @ + 1]
        /\ UNCHANGED pc
     \/ /\ Goto(r, "read_end")
        /\ UNCHANGED <<received, i>>
  /\ UNCHANGED <<data, nwrite, readopen, writeopen, lock, asleep, n, killed, freed>>

\* wakeup(&pi->nwrite)
WakeWriters == asleep \ Writers

piperead_return(r) ==
  /\ pc[r] = "read_end" \/ (pc[r] = "get" /\ (i[r] = n[r] \/ Empty))
  /\ asleep' = WakeWriters
  /\ Return(r)
  /\ UNCHANGED <<pipe, killed, received, freed>>

-----------------------------------------------------------------------------
\* fileclose(): the last descriptor of an end closes it.
fileclose(p) ==
  /\ pc[p] = "idle"
  /\ LET end == IF p \in Readers THEN Readers ELSE Writers
     IN Goto(p, IF \A q \in end \ {p} : pc[q] \in {"close", "closed"} THEN "close" ELSE "closed")
  /\ UNCHANGED <<pipe, lock, asleep, i, n, killed, received, freed>>

LastEnd_Either == readopen' = 0 \/ writeopen' = 0

\* pi->readopen == 0 && pi->writeopen == 0
LastEnd == readopen' = 0 /\ writeopen' = 0

pipeclose(p) ==
  /\ pc[p] = "close" /\ lock = NoProc
  /\ \/ /\ p \in Writers
        /\ writeopen' = 0 /\ UNCHANGED readopen
        /\ asleep' = asleep \ Readers
     \/ /\ p \in Readers
        /\ readopen' = 0 /\ UNCHANGED writeopen
        /\ asleep' = asleep \ Writers
  /\ freed' = IF LastEnd THEN freed + 1 ELSE freed
  /\ Goto(p, "closed")
  /\ UNCHANGED <<data, nread, nwrite, lock, i, n, killed, received>>

\* kkill() of a process that has not exited.
kkill(p) ==
  /\ killed[p] = 0 /\ pc[p] \notin {"close", "closed"}
  /\ killed' = [killed EXCEPT ![p] = 1]
  /\ asleep' = asleep \ {p}
  /\ UNCHANGED <<pipe, lock, pc, i, n, received, freed>>

-----------------------------------------------------------------------------
Write(w) ==
  \/ pipewrite_broken(w) \/ pipewrite_test(w) \/ pipewrite_full(w) \/ pipewrite_resume(w)
  \/ (\E ch \in Bytes : pipewrite_put(w, ch)) \/ pipewrite_fault(w) \/ pipewrite_return(w)

Read(r) ==
  \/ piperead_killed(r) \/ piperead_test(r) \/ piperead_sleep(r) \/ piperead_resume(r)
  \/ piperead_get(r) \/ piperead_return(r)

Next ==
  \/ \E w \in Writers : Write(w) \/ \E k \in 0..MaxN : pipewrite(w, k)
  \/ \E r \in Readers : Read(r) \/ \E k \in 0..MaxN : piperead(r, k)
  \/ \E p \in Procs : fileclose(p) \/ pipeclose(p) \/ kkill(p)

Spec == Init /\ [][Next]_vars

-----------------------------------------------------------------------------
TypeOK ==
  /\ data \in [0..PIPESIZE - 1 -> Bytes]
  /\ nread \in 0..Wrap - 1 /\ nwrite \in 0..Wrap - 1
  /\ readopen \in {0, 1} /\ writeopen \in {0, 1}
  /\ lock \in Procs \union {NoProc}
  /\ asleep \subseteq Procs
  /\ pc \in [Procs -> {"idle", "write", "put", "write_sleep", "write_end", "read", "empty", "get",
                       "read_sleep", "read_end", "close", "closed"}]
  /\ i \in [Procs -> 0..MaxN] /\ n \in [Procs -> 0..MaxN]
  /\ killed \in [Procs -> {0, 1}]
  /\ received \in Bytes \union {NoByte}
  /\ freed \in {0, 1}

(***************************************************************************)
(* A pipe is a bounded queue: bytes come out once, in the order they went  *)
(* in, although both indexes wrap around.  A byte whose copyout() fails is *)
(* lost.                                                                   *)
(***************************************************************************)
Used == (nwrite - nread) % Wrap

Queue == INSTANCE Fifo WITH
           Size <- PIPESIZE,
           queue <- [k \in 1..Used |-> data[(nread + k - 1) % PIPESIZE]]

IsQueue == Queue!Spec

(***************************************************************************)
(* The page of the pipe is freed when nobody can use it any more, and only *)
(* once: pipeclose() of both ends may run at the same time.                *)
(***************************************************************************)
NoUseAfterFree ==
  /\ TypeOK
  /\ freed > 0 => freed = 1 /\ lock = NoProc /\ \A p \in Procs : pc[p] = "closed"

(***************************************************************************)
(* A reader sleeps only "while the pipe is empty" and can still be filled, *)
(* and a writer only while it is full and can be emptied: whoever changes  *)
(* that wakes the sleepers before it gives pi->lock back.  One case is     *)
(* left: a writer that was killed returns at once and leaves the bytes it  *)
(* has put in without a wakeup(), until the next call on the pipe.         *)
(***************************************************************************)
NoLostWakeup ==
  lock = NoProc =>
    /\ \A r \in Readers \intersect asleep :
         writeopen = 1 /\ (Empty \/ \E w \in Writers : killed[w] = 1)
    /\ \A w \in Writers \intersect asleep : Full /\ readopen = 1
=============================================================================
