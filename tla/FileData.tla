------------------------------ MODULE FileData ------------------------------
(***************************************************************************)
(* The contents of files, kernel/fs.c: the block bitmap, the map from      *)
(* offsets to blocks, and filewrite(), which splits a write into           *)
(* transactions.  A step of a write is one block.  The log keeps the       *)
(* promise of module AtomicDisk: what ops changed reaches the disk when    *)
(* the last of them ends.  A buffer that was changed but not logged may be *)
(* dropped from the cache at any time.                                     *)
(***************************************************************************)
EXTENDS Integers, Sequences, FiniteSets, FiniteSetsExt

CONSTANTS
  Procs,          \* also the bytes they write: positive numbers
  Files,
  Blocks,         \* numbers of the data blocks, positive
  NDIRECT,
  BSIZE,          \* bytes in a block, and entries in an indirect one
  MAXOPBLOCKS,
  MaxN,           \* most bytes in a call
  MaxCalls        \* bound on the calls

NINDIRECT == BSIZE
MAXFILE == NDIRECT + NINDIRECT

\* int max in filewrite()
MaxPiece == ((MAXOPBLOCKS - 1 - 1 - 2) \div 2) * BSIZE

\* The one bitmap block and the block of the inodes.
BBLOCK == 0
IBLOCK == -1

VARIABLES
  m,          \* memory: bitmap, inodes, cached blocks, blocks in the transaction
  disk,       \* the same on disk
  lock,       \* process that holds a file's inode lock, 0 if none
  call,       \* the call a process is in
  outstanding,
  calls,
  wrote,      \* history: what the bytes of each file may be, in memory ...
  wroteDisk,  \* ... and on disk
  panicked

vars == <<m, disk, lock, call, outstanding, calls, wrote, wroteDisk, panicked>>

Zero == [k \in 0..BSIZE - 1 |-> 0]
Idle == [pc |-> "idle", f |-> 0, off |-> 0, left |-> 0, n1 |-> 0, tot |-> 0, logged |-> {}]

Init ==
  /\ m = [bitmap |-> {}, content |-> [b \in Blocks |-> Zero], log |-> {},
          inode |-> [f \in Files |-> [size |-> 0, addrs |-> [k \in 0..NDIRECT |-> 0]]]]
  /\ disk = m
  /\ lock = [f \in Files |-> 0]
  /\ call = [p \in Procs |-> Idle]
  /\ outstanding = 0
  /\ calls = 0
  /\ wrote = [f \in Files |-> << >>]
  /\ wroteDisk = wrote
  /\ panicked = 0

log_write(s, b) == [s EXCEPT !.log = @ \union {b}]

BallocZero_Not(s, b) == s

\* bzero()
BallocZero(s, b) == log_write([s EXCEPT !.content[b] = Zero], b)

\* The lowest free block, zeroed; 0 when there is none.
balloc(s) ==
  IF Blocks \ s.bitmap = {} THEN [s |-> s, addr |-> 0]
  ELSE LET b == Min(Blocks \ s.bitmap)
       IN [s |-> BallocZero(log_write([s EXCEPT !.bitmap = @ \union {b}], BBLOCK), b), addr |-> b]

\* An entry of ip->addrs[], filled when it is 0.
InodeEntry(s, f, k) ==
  LET a == balloc(s)
  IN IF s.inode[f].addrs[k] # 0 THEN [s |-> s, addr |-> s.inode[f].addrs[k]]
     ELSE [a EXCEPT !.s.inode[f].addrs[k] = a.addr]

\* An entry of the indirect block b, filled when it is 0.
IndirectEntry(s, b, k) ==
  LET a == balloc(s)
  IN IF s.content[b][k] # 0 THEN [s |-> s, addr |-> s.content[b][k]]
     ELSE IF a.addr = 0 THEN a
     ELSE [a EXCEPT !.s = log_write([@ EXCEPT !.content[b][k] = a.addr], b)]

bmap(s, f, bn) ==
  LET i == InodeEntry(s, f, NDIRECT)
  IN IF bn < NDIRECT THEN InodeEntry(s, f, bn)
     ELSE IF i.addr = 0 THEN i
     ELSE IndirectEntry(i.s, i.addr, bn - NDIRECT)

\* Blocks that an inode leads to, by entry; ind is where the indirect block is read.
Data(inode, content) ==
  LET ind == inode.addrs[NDIRECT]
  IN [bn \in 0..MAXFILE - 1 |-> IF bn < NDIRECT THEN inode.addrs[bn]
                                ELSE IF ind \in Blocks THEN content[ind][bn - NDIRECT] ELSE 0]

\* iupdate() logs the inode; copies of inodes in the cache and in the table agree.
iupdate(s) == log_write(s, IBLOCK)

\* Blocks given to bfree() by itrunc().
ItruncFrees(s, f) ==
  ({Data(s.inode[f], s.content)[bn] : bn \in 0..MAXFILE - 1} \union {s.inode[f].addrs[NDIRECT]}) \ {0}

\* bfree() of a free block panics.
itrunc(s, f) ==
  LET B == ItruncFrees(s, f)
      a == [s EXCEPT !.bitmap = @ \ B, !.inode[f] = [size |-> 0, addrs |-> [k \in 0..NDIRECT |-> 0]]]
  IN iupdate(IF B = {} THEN a ELSE log_write(a, BBLOCK))

\* end_op(): the last one commits what the log holds.
Committed(s) ==
  [s EXCEPT !.content = [b \in Blocks |-> IF b \in s.log THEN s.content[b] ELSE disk.content[b]],
            !.inode = IF IBLOCK \in s.log THEN @ ELSE disk.inode,
            !.bitmap = IF BBLOCK \in s.log THEN @ ELSE disk.bitmap,
            !.log = {}]

end_op(s, w) ==
  /\ outstanding' = outstanding - 1
  /\ wrote' = w
  /\ IF outstanding = 1
     THEN m' = [s EXCEPT !.log = {}] /\ disk' = Committed(s) /\ wroteDisk' = w
     ELSE m' = s /\ UNCHANGED <<disk, wroteDisk>>
-----------------------------------------------------------------------------
Enter(p, c) ==
  /\ panicked = 0 /\ calls < MaxCalls /\ call[p].pc = "idle"
  /\ calls' = calls + 1
  /\ call' = [call EXCEPT ![p] = c]

\* sys_open(): an offset of 0; with O_TRUNC the file is emptied.
sys_open(p, f, trunc) ==
  /\ lock[f] = 0
  /\ IF trunc
     THEN /\ Enter(p, [Idle EXCEPT !.pc = "truncated", !.f = f])
          /\ lock' = [lock EXCEPT ![f] = p]
          /\ outstanding' = outstanding + 1
          /\ panicked' = IF ItruncFrees(m, f) \subseteq m.bitmap THEN 0 ELSE 1
          /\ m' = itrunc(m, f)
          /\ wrote' = [wrote EXCEPT ![f] = << >>]
     ELSE /\ Enter(p, [Idle EXCEPT !.f = f])
          /\ UNCHANGED <<m, lock, outstanding, panicked, wrote>>
  /\ UNCHANGED <<disk, wroteDisk>>

\* iunlock() and end_op() at the end of sys_open()
sys_open_end(p) ==
  /\ panicked = 0 /\ call[p].pc = "truncated"
  /\ call' = [call EXCEPT ![p].pc = "idle"]
  /\ lock' = [lock EXCEPT ![call[p].f] = 0]
  /\ end_op(m, wrote)
  /\ UNCHANGED <<calls, panicked>>

\* Bytes that readi() returns, and the blocks it asks bmap() for.
readi(ip, off, n) == IF off > ip.size THEN 0 ELSE Min({n, ip.size - off})
ReadiBlocks(ip, off, n) == {k \div BSIZE : k \in off..off + readi(ip, off, n) - 1}

\* fileread(), which leaves the offset alone when either_copyout() fails.  The
\* blocks below the size are all there, or bmap() would allocate outside of a
\* transaction.
fileread(p, n) ==
  LET c == call[p]
      ip == m.inode[c.f]
  IN /\ c.f # 0 /\ lock[c.f] = 0
     /\ \E r \in {0, readi(ip, c.off, n)} : Enter(p, [c EXCEPT !.off = @ + r])
     /\ panicked' = IF \A bn \in ReadiBlocks(ip, c.off, n) : Data(ip, m.content)[bn] # 0 THEN 0 ELSE 1
     /\ UNCHANGED <<m, disk, lock, outstanding, wrote, wroteDisk>>

filewrite(p, n) ==
  /\ call[p].f # 0
  /\ Enter(p, [call[p] EXCEPT !.pc = "piece", !.left = n])
  /\ UNCHANGED <<m, disk, lock, outstanding, wrote, wroteDisk, panicked>>

\* begin_op() and ilock() of the next piece, and the tests of writei()
filewrite_piece(p) ==
  LET c == call[p]
      n1 == Min({c.left, MaxPiece})
      fits == c.off <= m.inode[c.f].size /\ c.off + n1 <= MAXFILE * BSIZE
  IN /\ panicked = 0 /\ c.pc = "piece" /\ lock[c.f] = 0
     /\ lock' = [lock EXCEPT ![c.f] = p]
     /\ outstanding' = outstanding + 1
     /\ call' = [call EXCEPT ![p].pc = IF fits THEN "writei" ELSE "refused",
                             ![p].n1 = n1, ![p].tot = 0, ![p].logged = {}]
     /\ UNCHANGED <<m, disk, calls, wrote, wroteDisk, panicked>>

\* The length of the part that lies in the block at the offset.
InBlock(c) == Min({c.n1 - c.tot, BSIZE - (c.off % BSIZE)})

\* Bytes off, ..., off + k - 1 of a file become v, or may have become v.
Put(w, off, k, v) ==
  [i \in 1..IF off + k > Len(w) THEN off + k ELSE Len(w) |->
     IF i \in off + 1..off + k THEN {v} ELSE w[i]]
MayPut(w, off, k, v) == [i \in DOMAIN w |-> IF i \in off + 1..off + k THEN w[i] \union {v} ELSE w[i]]

CopiedTo(s, b, at, k, v) == [s EXCEPT !.content[b] = [i \in DOMAIN @ |-> IF i \in at..at + k - 1 THEN v ELSE @[i]]]

\* One turn of the loop of writei(): bmap(), either_copyin(), log_write().
writei_block(p) ==
  LET c == call[p]
      k == InBlock(c)
      a == bmap(m, c.f, c.off \div BSIZE)
      s == log_write(CopiedTo(a.s, a.addr, c.off % BSIZE, k, p), a.addr)
  IN /\ panicked = 0 /\ c.pc = "writei" /\ c.tot < c.n1
     /\ IF a.addr = 0
        THEN /\ m' = a.s
             /\ call' = [call EXCEPT ![p].pc = "written", ![p].logged = @ \union (a.s.log \ m.log)]
             /\ UNCHANGED wrote
        ELSE /\ m' = s
             /\ call' = [call EXCEPT ![p].tot = @ + k, ![p].off = @ + k,
                                     ![p].logged = @ \union (s.log \ m.log)]
             /\ wrote' = [wrote EXCEPT ![c.f] = Put(@, c.off, k, p)]
     /\ UNCHANGED <<disk, lock, outstanding, calls, wroteDisk, panicked>>

\* The same turn when either_copyin() fails, after j bytes.
writei_badcopy(p) ==
  LET c == call[p]
      a == bmap(m, c.f, c.off \div BSIZE)
  IN /\ panicked = 0 /\ c.pc = "writei" /\ c.tot < c.n1 /\ a.addr # 0
     /\ call' = [call EXCEPT ![p].pc = "written", ![p].logged = @ \union (a.s.log \ m.log)]
     /\ \E j \in 0..InBlock(c) - 1 :
          /\ m' = CopiedTo(a.s, a.addr, c.off % BSIZE, j, p)
          /\ wrote' = [wrote EXCEPT ![c.f] = MayPut(@, c.off, j, p)]
     /\ UNCHANGED <<disk, lock, outstanding, calls, wroteDisk, panicked>>

NewSize_Always(c) == c.off

\* if(off > ip->size) ip->size = off
NewSize(c) == Max({c.off, m.inode[c.f].size})

\* The end of writei(), and the turn of filewrite()'s loop up to end_op().
writei_end(p) ==
  LET c == call[p]
      done == c.tot = c.n1
  IN /\ panicked = 0
     /\ \/ c.pc = "written"
        \/ c.pc = "writei" /\ c.tot = c.n1
     /\ call' = [call EXCEPT ![p].pc = IF done /\ c.left > c.tot THEN "piece" ELSE "idle",
                             ![p].left = IF done THEN @ - c.tot ELSE 0,
                             ![p].n1 = 0, ![p].tot = 0, ![p].logged = {}]
     /\ lock' = [lock EXCEPT ![c.f] = 0]
     /\ end_op(iupdate([m EXCEPT !.inode[c.f].size = NewSize(c)]), wrote)
     /\ UNCHANGED <<calls, panicked>>

\* writei() returned -1 at once.
filewrite_refused(p) ==
  /\ panicked = 0 /\ call[p].pc = "refused"
  /\ call' = [call EXCEPT ![p].pc = "idle", ![p].left = 0, ![p].n1 = 0]
  /\ lock' = [lock EXCEPT ![call[p].f] = 0]
  /\ end_op(m, wrote)
  /\ UNCHANGED <<calls, panicked>>

\* bget() recycles the buffer of a block that no transaction has pinned.
Evict(b) ==
  /\ panicked = 0 /\ b \notin m.log /\ m.content[b] # disk.content[b]
  /\ m' = [m EXCEPT !.content[b] = disk.content[b]]
  /\ UNCHANGED <<disk, lock, call, outstanding, calls, wrote, wroteDisk, panicked>>

\* The machine stops and starts again.
Crash ==
  /\ m' = disk /\ wrote' = wroteDisk
  /\ lock' = [f \in Files |-> 0]
  /\ call' = [p \in Procs |-> Idle]
  /\ outstanding' = 0
  /\ UNCHANGED <<disk, calls, wroteDisk, panicked>>

Next ==
  \/ \E p \in Procs :
       \/ \E f \in Files, trunc \in BOOLEAN : sys_open(p, f, trunc)
       \/ sys_open_end(p)
       \/ \E n \in 1..MaxN : fileread(p, n) \/ filewrite(p, n)
       \/ filewrite_piece(p)
       \/ writei_block(p)
       \/ writei_badcopy(p)
       \/ writei_end(p)
       \/ filewrite_refused(p)
  \/ \E b \in Blocks : Evict(b)
  \/ Crash

Spec == Init /\ [][Next]_vars
-----------------------------------------------------------------------------
\* Places that hold a block of a file: entries, and last the indirect block.
BlockAt(s, f, bn) == IF bn = MAXFILE THEN s.inode[f].addrs[NDIRECT] ELSE Data(s.inode[f], s.content)[bn]

Holders(s) == {h \in Files \X (0..MAXFILE) : BlockAt(s, h[1], h[2]) # 0}

Partition(s) ==
  /\ {BlockAt(s, h[1], h[2]) : h \in Holders(s)} = s.bitmap
  /\ Cardinality(Holders(s)) = Cardinality(s.bitmap)
  /\ \A f \in Files : \A bn \in 0..MAXFILE - 1 :
       bn * BSIZE < s.inode[f].size => Data(s.inode[f], s.content)[bn] # 0

\* Whoever allocates and frees between whose steps, after failures in the middle
\* of writei() and after a crash: the blocks marked in the bitmap are exactly those
\* of the files, none belongs to two, a file has no holes below its size (so
\* readi() never allocates), nothing frees a free block, and a piece of a write
\* logs fewer blocks than begin_op() reserves, which log_write()'s test needs.
BlocksPartition ==
  /\ panicked = 0
  /\ outstanding \in 0..Cardinality(Procs)
  /\ Partition(m) /\ Partition(disk)
  /\ \A p \in Procs : Cardinality(call[p].logged \union {IBLOCK}) < MAXOPBLOCKS

\* A file holds, in memory and in what a crash leaves, the bytes last written at
\* each place: what the log knows nothing of after a failed copy may come or go
\* only where that copy was.
ReadsBack ==
  \A f \in Files :
    /\ Len(wroteDisk[f]) = disk.inode[f].size
    /\ lock[f] = 0 => Len(wrote[f]) = m.inode[f].size
    /\ \A k \in 0..m.inode[f].size - 1 :
         m.content[Data(m.inode[f], m.content)[k \div BSIZE]][k % BSIZE] \in wrote[f][k + 1]
    /\ \A k \in 0..disk.inode[f].size - 1 :
         disk.content[Data(disk.inode[f], disk.content)[k \div BSIZE]][k % BSIZE] \in wroteDisk[f][k + 1]
=============================================================================
