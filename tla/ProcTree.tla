------------------------------ MODULE ProcTree ------------------------------
(***************************************************************************)
(* What fork, exit and wait promise to user programs: a tree of processes, *)
(* each with a pid of its own, changed by one process at a time.           *)
(***************************************************************************)
EXTENDS Integers

CONSTANT Pids    \* what may be a pid

VARIABLE tree    \* from the pids in use to [parent, dead]

Init == tree = [n \in {1} |-> [parent |-> 0, dead |-> 0]]

Alive(n) == n \in DOMAIN tree /\ tree[n].dead = 0

Fork(p, n) ==
  /\ Alive(p) /\ n \notin DOMAIN tree
  /\ tree' = [m \in DOMAIN tree \union {n} |->
                IF m = n THEN [parent |-> p, dead |-> 0] ELSE tree[m]]

\* init, pid 1, never exits and adopts the children of those who do.
Exit(p) ==
  /\ Alive(p) /\ p # 1
  /\ tree' = [m \in DOMAIN tree |->
                IF m = p THEN [tree[m] EXCEPT !.dead = 1]
                ELSE IF tree[m].parent = p THEN [tree[m] EXCEPT !.parent = 1]
                ELSE tree[m]]

Wait(p, n) ==
  /\ Alive(p) /\ n \in DOMAIN tree
  /\ tree[n].parent = p /\ tree[n].dead = 1
  /\ tree' = [m \in DOMAIN tree \ {n} |-> tree[m]]

\* A new pid is any of Pids, which may be infinite: it is one of the new tree's.
Next ==
  \E p \in DOMAIN tree : \/ Exit(p)
                         \/ \E n \in DOMAIN tree' \intersect Pids : Fork(p, n)
                         \/ \E n \in DOMAIN tree : Wait(p, n)

Spec == Init /\ [][Next]_tree
=============================================================================
