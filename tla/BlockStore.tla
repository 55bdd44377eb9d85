----------------------------- MODULE BlockStore -----------------------------
(***************************************************************************)
(* What the buffer cache promises: blocks that one process at a time can   *)
(* have and change.  A change that has been handed to the log or written   *)
(* stays; any other may be taken back once nobody has the block.           *)
(***************************************************************************)
CONSTANTS Procs, NoProc, Blocks, Values

VARIABLES
  contents,   \* what bread() returns
  saved,      \* what stays
  logged,     \* blocks in the log: all changes of theirs stay
  holder

vars == <<contents, saved, logged, holder>>

Init ==
  /\ contents \in [Blocks -> Values]
  /\ saved = contents
  /\ logged = {}
  /\ holder = [b \in Blocks |-> NoProc]

Get(p, b) ==
  /\ holder[b] = NoProc
  /\ holder' = [holder EXCEPT ![b] = p]
  /\ UNCHANGED <<contents, saved, logged>>

Set(p, b, v) ==
  /\ holder[b] = p
  /\ contents' = [contents EXCEPT ![b] = v]
  /\ saved' = IF b \in logged THEN [saved EXCEPT ![b] = v] ELSE saved
  /\ UNCHANGED <<logged, holder>>

Write(p, b) ==
  /\ holder[b] = p
  /\ saved' = [saved EXCEPT ![b] = contents[b]]
  /\ UNCHANGED <<contents, logged, holder>>

Log(p, b) ==
  /\ holder[b] = p
  /\ logged' = logged \union {b}
  /\ saved' = [saved EXCEPT ![b] = contents[b]]
  /\ UNCHANGED <<contents, holder>>

Install(p, b) ==
  /\ holder[b] = p
  /\ logged' = logged \ {b}
  /\ UNCHANGED <<contents, saved, holder>>

Put(p, b) ==
  /\ holder[b] = p
  /\ holder' = [holder EXCEPT ![b] = NoProc]
  /\ UNCHANGED <<contents, saved, logged>>

Revert(b) ==
  /\ holder[b] = NoProc /\ b \notin logged
  /\ contents' = [contents EXCEPT ![b] = saved[b]]
  /\ UNCHANGED <<saved, logged, holder>>

Next ==
  \E b \in Blocks :
    \/ Revert(b)
    \/ \E p \in Procs : \/ Get(p, b) \/ Write(p, b) \/ Log(p, b) \/ Install(p, b) \/ Put(p, b)
                        \/ \E v \in Values : Set(p, b, v)

Spec == Init /\ [][Next]_vars
=============================================================================
