----------------------------- MODULE AtomicDisk -----------------------------
(***************************************************************************)
(* What the write-ahead log of kernel/log.c promises to the file system:   *)
(* block updates made between begin_op() and end_op() are seen at once,    *)
(* and a crash takes the disk back to its contents at some instant at      *)
(* which no file-system system call was in progress.                       *)
(***************************************************************************)

CONSTANTS Procs, Blocks, Values

VARIABLES current,  \* what reading a block returns now
          durable,  \* what reading a block would return after a crash
          open      \* processes between begin_op() and end_op()

vars == <<current, durable, open>>

Init ==
  /\ durable \in [Blocks -> Values]
  /\ current = durable
  /\ open = {}

Begin(p) ==
  /\ p \notin open
  /\ open' = open \union {p}
  /\ UNCHANGED <<current, durable>>

Update(p, b, v) ==
  /\ p \in open
  /\ current' = [current EXCEPT ![b] = v]
  /\ UNCHANGED <<durable, open>>

End(p) ==
  /\ p \in open
  /\ open' = open \ {p}
  /\ UNCHANGED <<current, durable>>

\* The updates of all finished operations become durable together.
Commit ==
  /\ open = {}
  /\ durable' = current
  /\ UNCHANGED <<current, open>>

Crash ==
  /\ current' = durable
  /\ open' = {}
  /\ UNCHANGED durable

Next ==
  \/ \E p \in Procs : Begin(p) \/ End(p)
  \/ \E p \in Procs, b \in Blocks, v \in Values : Update(p, b, v)
  \/ Commit
  \/ Crash

Spec == Init /\ [][Next]_vars
=============================================================================
