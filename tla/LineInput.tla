------------------------------ MODULE LineInput ------------------------------
(***************************************************************************)
(* What the console promises its readers: lines that are edited until they *)
(* end, a queue of finished input, and read() calls that take from its     *)
(* head, never past the end of a line.  An end-of-file ends the call that  *)
(* meets it, and is used up only by a call that has nothing to return.     *)
(***************************************************************************)
EXTENDS Sequences, Integers

CONSTANTS Procs, Chars, Size, MaxN

VARIABLES
  queue,    \* finished input
  line,     \* input that can still be edited
  got       \* process -> bytes its read() has so far, and how many it wants

None == [n |-> -1, bytes |-> << >>]

Init == queue = << >> /\ line = << >> /\ got = [p \in Procs |-> None]

Ends(c) == c \in {"nl", "^D"}

Erase == line # << >> /\ line' = SubSeq(line, 1, Len(line) - 1) /\ UNCHANGED <<queue, got>>
Kill == line' = << >> /\ UNCHANGED <<queue, got>>

Key(c) ==
  LET l == Append(line, c)
  IN /\ Len(queue) + Len(line) < Size
     /\ IF Ends(c) \/ Len(queue \o l) = Size THEN queue' = queue \o l /\ line' = << >>
                                             ELSE line' = l /\ UNCHANGED queue
     /\ UNCHANGED got

Whole(g) == Len(g.bytes) = g.n \/ (g.bytes # << >> /\ g.bytes[Len(g.bytes)] = "nl")

Begin(p, n) == got[p] = None /\ got' = [got EXCEPT ![p] = [n |-> n, bytes |-> << >>]] /\ UNCHANGED <<queue, line>>

\* The byte may also be the last one of the call.
Get(p) ==
  LET g == [got[p] EXCEPT !.bytes = Append(@, Head(queue))]
  IN /\ got[p] # None /\ ~Whole(got[p]) /\ queue # << >> /\ Head(queue) # "^D"
     /\ got' = [got EXCEPT ![p] = IF Whole(g) THEN None ELSE g]
     /\ queue' = Tail(queue)
     /\ UNCHANGED line

Eof(p) ==
  /\ got[p] # None /\ ~Whole(got[p]) /\ queue # << >> /\ Head(queue) = "^D"
  /\ got' = [got EXCEPT ![p] = None]
  /\ queue' = IF got[p].bytes = << >> THEN Tail(queue) ELSE queue
  /\ UNCHANGED line

\* The buffer of the reader is bad: the byte is lost.
Bad(p) ==
  /\ got[p] # None /\ queue # << >> /\ Head(queue) # "^D"
  /\ got' = [got EXCEPT ![p] = None]
  /\ queue' = Tail(queue)
  /\ UNCHANGED line

\* A reader that waits is killed.
Killed(p) == got[p] # None /\ queue = << >> /\ got' = [got EXCEPT ![p] = None] /\ UNCHANGED <<queue, line>>

Next ==
  \/ Erase \/ Kill
  \/ \E c \in Chars : Key(c)
  \/ \E p \in Procs : Get(p) \/ Eof(p) \/ Bad(p) \/ Killed(p) \/ \E n \in 1..MaxN : Begin(p, n)

Spec == Init /\ [][Next]_<<queue, line, got>>
=============================================================================
