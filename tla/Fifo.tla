-------------------------------- MODULE Fifo --------------------------------
(* What a pipe promises: a bounded queue of bytes, first in, first out. *)
EXTENDS Sequences, Integers

CONSTANTS Bytes, Size, NoByte

VARIABLES
  queue,
  received    \* byte that was handed to a reader last

Init == queue = <<>> /\ received = NoByte

Put(b) == Len(queue) < Size /\ queue' = Append(queue, b) /\ UNCHANGED received

Get == queue # <<>> /\ received' = Head(queue) /\ queue' = Tail(queue)

\* The reader's buffer turns out to be bad: the byte is gone.
Drop == queue # <<>> /\ queue' = Tail(queue) /\ UNCHANGED received

Next == (\E b \in Bytes : Put(b)) \/ Get \/ Drop

Spec == Init /\ [][Next]_<<queue, received>>
=============================================================================
