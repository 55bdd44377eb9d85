------------------------------- MODULE Umalloc -------------------------------
(***************************************************************************)
(* malloc() and free() of user programs, user/umalloc.c: a circular list   *)
(* of free blocks in the order of their addresses.  Addresses and sizes    *)
(* are in units of a header.  Another caller of sbrk() may leave a gap     *)
(* between two pieces of the heap.                                         *)
(***************************************************************************)
EXTENDS Integers, FiniteSets, FiniteSetsExt

CONSTANTS
  HeaderSize,   \* bytes in a header
  NALLOC,       \* 4096 in morecore()
  Top,          \* sbrk() fails beyond this address
  MaxBytes

NULL == 0
Base == 1
HeapStart == 3
Units == 1..Top

VARIABLES
  heap,     \* headers and freep
  brk,
  core,     \* units that morecore() got
  used      \* blocks the program has: address of the header, bytes it asked for

vars == <<heap, brk, core, used>>

Blank == [ptr |-> NULL, size |-> 0]

Init ==
  /\ heap = [node |-> [a \in Units |-> Blank], freep |-> NULL]
  /\ brk = HeapStart
  /\ core = {}
  /\ used = {}

\* The free block after which bp belongs: the loop of free().
RECURSIVE Place(_, _, _)
Place(h, p, bp) ==
  LET q == h.node[p].ptr
  IN IF (bp > p /\ bp < q) \/ (p >= q /\ (bp > p \/ bp < q)) THEN p ELSE Place(h, q, bp)

\* bp->s.ptr, and its size when the next block is joined to it
JoinNext(h, bp, q) ==
  IF bp + h.node[bp].size = q
  THEN [h.node EXCEPT ![bp] = [ptr |-> h.node[q].ptr, size |-> @.size + h.node[q].size], ![q] = Blank]
  ELSE [h.node EXCEPT ![bp].ptr = q]

JoinPrev(node, bp, p) ==
  IF p + node[p].size = bp
  THEN [node EXCEPT ![p] = [ptr |-> node[bp].ptr, size |-> @.size + node[bp].size], ![bp] = Blank]
  ELSE [node EXCEPT ![p].ptr = bp]

Freed(h, bp) ==
  LET p == Place(h, h.freep, bp)
  IN [node |-> JoinPrev(JoinNext(h, bp, h.node[p].ptr), bp, p), freep |-> p]

\* The block before the first that is large enough, from freep on; NULL if none is.
RECURSIVE Search(_, _, _)
Search(h, prevp, nunits) ==
  LET p == h.node[prevp].ptr
  IN IF h.node[p].size >= nunits THEN prevp
     ELSE IF p = h.freep THEN NULL ELSE Search(h, p, nunits)

\* The whole block, or its end; at is where it begins.  The pointer in the header of
\* a block in use is never read; it is NULL here.
Taken(h, prevp, nunits) ==
  LET p == h.node[prevp].ptr
      rest == h.node[p].size - nunits
  IN IF rest = 0
     THEN [at |-> p, h |-> [node |-> [h.node EXCEPT ![prevp].ptr = h.node[p].ptr, ![p].ptr = NULL], freep |-> prevp]]
     ELSE [at |-> p + rest,
           h |-> [node |-> [h.node EXCEPT ![p].size = rest, ![p + rest] = [ptr |-> NULL, size |-> nunits]],
                  freep |-> prevp]]

Nunits_NoHeader(nbytes) == (nbytes + HeaderSize - 1) \div HeaderSize

Nunits(nbytes) == (nbytes + HeaderSize - 1) \div HeaderSize + 1

\* The list with its first node, which is made by the first call.
Started(h) ==
  IF h.freep = NULL THEN [node |-> [h.node EXCEPT ![Base] = [ptr |-> Base, size |-> 0]], freep |-> Base] ELSE h

morecore(h, at, nu) == Freed([h EXCEPT !.node[at] = [ptr |-> NULL, size |-> nu]], at)

malloc(nbytes) ==
  LET n == Nunits(nbytes)
      h == Started(heap)
      prevp == Search(h, h.freep, n)
      t == Taken(h, prevp, n)
  IN /\ prevp # NULL
     /\ heap' = t.h
     /\ used' = used \union {[at |-> t.at, bytes |-> nbytes]}
     /\ UNCHANGED <<brk, core>>

\* Nothing is large enough; gap units went to somebody else since the last sbrk().
malloc_morecore(nbytes, gap) ==
  LET n == Nunits(nbytes)
      nu == Max({n, NALLOC})
      h0 == Started(heap)
      at == brk + gap
      h == morecore(h0, at, nu)
      t == Taken(h, Search(h, h.freep, n), n)
  IN /\ Search(h0, h0.freep, n) = NULL
     /\ \/ heap' = h0 /\ UNCHANGED <<brk, core, used>>
        \/ /\ at + nu <= Top + 1
           /\ brk' = at + nu
           /\ core' = core \union (at..at + nu - 1)
           /\ heap' = t.h
           /\ used' = used \union {[at |-> t.at, bytes |-> nbytes]}

free(u) ==
  /\ heap' = Freed(heap, u.at)
  /\ used' = used \ {u}
  /\ UNCHANGED <<brk, core>>

Next ==
  \/ \E nbytes \in 0..MaxBytes : malloc(nbytes) \/ \E gap \in 0..1 : malloc_morecore(nbytes, gap)
  \/ \E u \in used : free(u)

Spec == Init /\ [][Next]_vars
-----------------------------------------------------------------------------
\* Headers of free blocks: what has a successor.
FreeNodes == {a \in Units \ {u.at : u \in used} : heap.node[a].ptr # NULL}
Block(a) == a..a + heap.node[a].size - 1

\* Whatever is allocated and freed in whatever order: free blocks and blocks in
\* use share no unit and are together what sbrk() gave, a block holds its header
\* and the bytes asked for, and the list of free blocks is one circle in the
\* order of addresses, without two neighbours that touch.
HeapPartition ==
  /\ UNION {Block(a) : a \in FreeNodes \union {u.at : u \in used}} = core
  /\ Cardinality(core) = FoldSet(LAMBDA a, s : s + heap.node[a].size, 0,
                                               FreeNodes \union {u.at : u \in used})
  /\ \A u \in used : (heap.node[u.at].size - 1) * HeaderSize >= u.bytes
  /\ heap.freep # NULL => heap.freep \in FreeNodes /\ Base \in FreeNodes
  /\ \A a \in FreeNodes :
       LET later == {b \in FreeNodes : b > a}
       IN /\ heap.node[a].ptr = IF later = {} THEN Base ELSE Min(later)
          /\ a # Base => heap.node[a].ptr # a + heap.node[a].size /\ heap.node[a].size > 0
=============================================================================
