-------------------------------- MODULE Mkfs --------------------------------
(***************************************************************************)
(* mkfs/mkfs.c, which makes the first image of the file system.  A step is *)
(* a turn of a loop of main().  A byte of a file is a number that tells    *)
(* the file and the place; a directory entry and a block number take one   *)
(* byte each.                                                              *)
(***************************************************************************)
EXTENDS Integers, Sequences, FiniteSets, FiniteSetsExt

CONSTANTS
  FSSIZE,       \* blocks of the image
  nmeta,        \* boot block, superblock, log, inodes, bitmap
  NDIRECT, NINDIRECT, BSIZE,
  MaxFiles,     \* files named on the command line
  MaxSize       \* bytes in one of them

VARIABLES
  fs,           \* inodes, blocks, freeinode, freeblock, bitmap; dead after die() or assert()
  at,           \* where main() is
  left          \* bytes of the open file not yet read

vars == <<fs, at, left>>

MAXFILE == NDIRECT + NINDIRECT
ROOTINO == 1
Inums == ROOTINO..ROOTINO + MaxFiles
NoInode == [type |-> "none", addrs |-> [k \in 0..NDIRECT |-> 0], size |-> 0]
Zeroes == [k \in 0..BSIZE - 1 |-> 0]

\* Every block zeroed, the superblock written.
Init ==
  /\ fs = [inode |-> [i \in Inums |-> NoInode], block |-> [b \in 0..FSSIZE - 1 |-> Zeroes],
           freeinode |-> 1, freeblock |-> nmeta, bitmap |-> {}, dead |-> 0]
  /\ at = "root" /\ left = 0

ialloc(f, type) ==
  [f EXCEPT !.inode[f.freeinode] = [NoInode EXCEPT !.type = type], !.freeinode = @ + 1]

\* f->addrs or the indirect block with a block for fbn.  Reading a block beyond the
\* end of the image dies.
Direct(f, inum, k) ==
  IF f.inode[inum].addrs[k] # 0 THEN f
  ELSE [f EXCEPT !.inode[inum].addrs[k] = f.freeblock, !.freeblock = @ + 1]

rsect(f, b) == IF b < FSSIZE THEN f ELSE [f EXCEPT !.dead = 1]

Indirect(f0, inum, k) ==
  LET f == rsect(Direct(f0, inum, NDIRECT), Direct(f0, inum, NDIRECT).inode[inum].addrs[NDIRECT])
      b == f.inode[inum].addrs[NDIRECT]
  IN IF f.dead = 1 \/ f.block[b][k] # 0 THEN f
     ELSE [f EXCEPT !.block[b][k] = f.freeblock, !.freeblock = @ + 1]

\* Where block fbn of a file is; 0 if nowhere.
BlockOf(f, inum, fbn) ==
  IF fbn < NDIRECT THEN f.inode[inum].addrs[fbn]
  ELSE IF f.inode[inum].addrs[NDIRECT] = 0 THEN 0
  ELSE f.block[f.inode[inum].addrs[NDIRECT]][fbn - NDIRECT]

\* off - fbn * BSIZE
Place(off) == off % BSIZE

\* The loop of iappend(), a block at a time.
RECURSIVE iappend(_, _, _)
iappend(f0, inum, p) ==
  LET off == f0.inode[inum].size
      fbn == off \div BSIZE
      f1 == IF fbn >= MAXFILE THEN [f0 EXCEPT !.dead = 1]
            ELSE IF fbn < NDIRECT THEN Direct(f0, inum, fbn)
            ELSE Indirect(f0, inum, fbn - NDIRECT)
      x == BlockOf(f1, inum, fbn)
      f == IF f1.dead = 1 THEN f1 ELSE rsect(f1, x)
      n1 == Min({Len(p), (fbn + 1) * BSIZE - off})
      first == Place(off)
  IN IF p = << >> \/ f.dead = 1 THEN f
     ELSE iappend([f EXCEPT !.block[x] = [k \in 0..BSIZE - 1 |->
                                IF k \in first..first + n1 - 1 THEN p[k - first + 1] ELSE @[k]],
                            !.inode[inum].size = @ + n1],
                  inum, SubSeq(p, n1 + 1, Len(p)))

Running(pc) == fs.dead = 0 /\ at = pc

\* The root directory with "." and "..".
main_root ==
  /\ Running("root")
  /\ fs' = iappend(iappend(ialloc(fs, "dir"), ROOTINO, <<ROOTINO>>), ROOTINO, <<ROOTINO>>)
  /\ at' = "file"
  /\ UNCHANGED left

\* A file of size bytes: its inode and its entry.
main_file(size) ==
  /\ Running("file") /\ fs.freeinode \in Inums
  /\ fs' = iappend(ialloc(fs, "file"), ROOTINO, <<fs.freeinode>>)
  /\ left' = size
  /\ at' = "read"

Byte(inum, off) == 100 * inum + off

\* read() of cc bytes, or of none at the end of the file.
main_read ==
  LET inum == fs.freeinode - 1
      off == fs.inode[inum].size
  IN /\ Running("read")
     /\ \/ left = 0 /\ at' = "file" /\ UNCHANGED <<fs, left>>
        \/ \E cc \in 1..Min({left, BSIZE}) :
             /\ fs' = iappend(fs, inum, [k \in 1..cc |-> Byte(inum, off + k - 1)])
             /\ left' = left - cc
             /\ UNCHANGED at

\* The size of the root directory goes up to whole blocks; balloc().
main_end ==
  /\ Running("file")
  /\ fs' = [fs EXCEPT !.inode[ROOTINO].size = (@ \div BSIZE + 1) * BSIZE,
                      !.bitmap = 0..fs.freeblock - 1]
  /\ at' = "exit"
  /\ UNCHANGED left

Next == main_root \/ main_read \/ main_end \/ \E size \in 0..MaxSize : main_file(size)

Spec == Init /\ [][Next]_vars
-----------------------------------------------------------------------------
\* The blocks an inode refers to, with how often.
Refs(inum) ==
  {<<inum, k>> : k \in {j \in 0..NDIRECT : fs.inode[inum].addrs[j] # 0}}
  \union {<<inum, NDIRECT + 1 + k>> : k \in {j \in 0..NINDIRECT - 1 : BlockOf(fs, inum, NDIRECT + j) # 0}}
Target(r) == IF r[2] <= NDIRECT THEN fs.inode[r[1]].addrs[r[2]] ELSE BlockOf(fs, r[1], r[2] - 1)

\* What iappend() wrote can be read back, in whatever pieces it came; the blocks
\* handed out belong to one inode each, and exactly they and the metadata are marked
\* in the bitmap.  The kernel finds no hole, unless the entries of the root fill
\* their last block: rounding its size up then adds a block that is not there.
ImageSound ==
  fs.dead = 0 =>
    LET refs == UNION {Refs(i) : i \in Inums}
    IN /\ {Target(r) : r \in refs} = nmeta..fs.freeblock - 1
       /\ Cardinality(refs) = fs.freeblock - nmeta
       /\ fs.freeblock <= FSSIZE
       /\ \A i \in Inums \ {ROOTINO} : \A off \in 0..fs.inode[i].size - 1 :
            fs.block[BlockOf(fs, i, off \div BSIZE)][off % BSIZE] = Byte(i, off)
       /\ at = "exit" =>
            /\ fs.bitmap = 0..fs.freeblock - 1
            /\ \A off \in 0..fs.freeinode - 1 :
                 fs.block[BlockOf(fs, ROOTINO, off \div BSIZE)][off % BSIZE] = IF off < 2 THEN ROOTINO ELSE off
            /\ \A b \in 0..fs.inode[ROOTINO].size \div BSIZE - 1 :
                 b < MAXFILE /\ BlockOf(fs, ROOTINO, b) = 0 => b * BSIZE = fs.freeinode
=============================================================================
