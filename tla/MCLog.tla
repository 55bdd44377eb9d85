------------------------------- MODULE MCLog -------------------------------
(***************************************************************************)
(* Two instances of the log.  In the roomy one two blocks are written by   *)
(* operations of one or two blocks each.  In the tight one there are as    *)
(* many blocks as the log has room for, so that operations that begin_op   *)
(* let in too early would fill it.                                         *)
(***************************************************************************)
EXTENDS Log

CONSTANTS ManyBlocks, OneValue

VARIABLE part

Tight == INSTANCE Log WITH Blocks <- ManyBlocks, Values <- OneValue,
                           LOGBLOCKS <- 4, MAXOPBLOCKS <- 2, OpBlocks <- 1

MCInit == (part = "roomy" /\ Init) \/ (part = "tight" /\ Tight!Init)

MCNext ==
  /\ (part = "roomy" /\ Next) \/ (part = "tight" /\ Tight!Next)
  /\ UNCHANGED part

MCSpec ==
  /\ MCInit /\ [][MCNext]_<<vars, part>>
  /\ (part = "roomy") => Fairness
  /\ (part = "tight") => Tight!Fairness
=============================================================================
