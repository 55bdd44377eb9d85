----------------------------- MODULE UserMemory -----------------------------
(***************************************************************************)
(* What the kernel promises of user memory: each process has an array of   *)
(* pages of its own.  A system call that fails leaves the array as it was; *)
(* running out of physical pages half-way is nowhere to be seen.           *)
(***************************************************************************)
EXTENDS Integers, Sequences, SequencesExt

CONSTANTS
  Procs, Values,
  Programs      \* arrays that exec can produce

VARIABLE mem    \* process -> sequence of [val, perm], << >> when it has none

Zeroed == [val |-> "zero", perm |-> "rw"]

UInit == mem = [p \in Procs |-> << >>]

\* A store, or a system call that fills a buffer, up to where it fails.
Written(a, b) ==
  /\ Len(b) = Len(a)
  /\ \A j \in DOMAIN a : b[j] # a[j] => /\ a[j].perm = "rw" /\ b[j].perm = "rw"
                                        /\ b[j].val \in Values

Grown(a, b) ==
  /\ IsPrefix(a, b)
  /\ \A j \in Len(a) + 1..Len(b) : b[j] = Zeroed

Shrunk(a, b) == IsPrefix(b, a)

\* A process that had none gets a copy of another's.
Forked(a, b) == a = << >> /\ \E q \in Procs : b = mem[q]

Execed(b) == b \in Programs

UNext ==
  LET old == mem
      new == mem'
  IN \E p \in Procs :
       /\ \A q \in Procs \ {p} : new[q] = old[q]
       /\ \/ Written(old[p], new[p])
          \/ Grown(old[p], new[p])
          \/ Shrunk(old[p], new[p])
          \/ Forked(old[p], new[p])
          \/ Execed(new[p])

USpec == UInit /\ [][UNext]_mem
=============================================================================
