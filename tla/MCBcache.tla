------------------------------ MODULE MCBcache ------------------------------
(***************************************************************************)
(* Processes, values and blocks of files are alike; a block of the log and *)
(* the bitmap are not, and there is one of each.                           *)
(***************************************************************************)
EXTENDS Bcache, TLC

MCSymmetry == Permutations(Procs) \union Permutations(Values) \union Permutations(FileBlocks)
=============================================================================
