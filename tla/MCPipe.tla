------------------------------- MODULE MCPipe -------------------------------
EXTENDS Pipe, TLC

MCSymmetry == Permutations(Readers) \union Permutations(Writers) \union Permutations(Bytes)
=============================================================================
