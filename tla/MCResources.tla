---------------------------- MODULE MCResources ----------------------------
(***************************************************************************)
(* What system calls allocate and must not lose: pages, the blocks and     *)
(* contents of files, the file table, and the inodes of directories.  The  *)
(* four share no state in the models; a behaviour is one of one of them.   *)
(***************************************************************************)
EXTENDS Memory

VARIABLES
  part, call, stopped,
  m, disk, lock, outstanding, calls, wrote, wroteDisk,    \* FileData
  file, ofile, alive, iref, pipe,                         \* Ftable
  node, cwd, lost                                         \* Directory

fileVars == <<call, stopped>>
dataVars == <<m, disk, lock, outstanding, calls, wrote, wroteDisk>>
tableVars == <<file, ofile, alive, iref, pipe>>
treeVars == <<node, cwd, lost>>
allVars == <<part, vars, fileVars, dataVars, tableVars, treeVars>>

-----------------------------------------------------------------------------
Seg(vaddr, memsz, filesz, w) ==
  [header |-> TRUE, load |-> TRUE, read |-> TRUE,
   vaddr |-> vaddr, memsz |-> memsz, filesz |-> filesz, w |-> w]

TextSeg == Seg(0, 2, 2, 0)
DataSeg == Seg(2, 2, 1, 1)
Elf(segs) == [exists |-> TRUE, elf |-> TRUE, segs |-> segs]

\* Pointers in a page that may be lazy, strings in the text, one that fits.
Run(image) == [path |-> 0, uargv |-> 3, uarg |-> 0, args |-> <<1>>, image |-> image]
Small == Elf(<<TextSeg>>)

\* Two programs, files that stop exec at each of its tests, and calls with too
\* many or too long strings and with bad pointers of each kind.
MCCalls ==
  { Run(image) : image \in
      { Small, Elf(<<[TextSeg EXCEPT !.load = FALSE], TextSeg, DataSeg>>),
        [Small EXCEPT !.exists = FALSE], [Small EXCEPT !.elf = FALSE],
        Elf(<<TextSeg, [DataSeg EXCEPT !.header = FALSE]>>),
        Elf(<<TextSeg, [DataSeg EXCEPT !.read = FALSE]>>),
        Elf(<<TextSeg, Seg(2, 1, 2, 1)>>), Elf(<<TextSeg, Seg(3, 2, 1, 1)>>),
        Elf(<<TextSeg, Seg(2, WORD - 1, 1, 1)>>),
        Elf(<<Seg(0, 0, 0, 0)>>) } }
  \union { [Run(Small) EXCEPT !.args = <<1, 1>>], [Run(Small) EXCEPT !.args = <<2>>],
           [Run(Small) EXCEPT !.path = 3], [Run(Small) EXCEPT !.uarg = 3],
           [Run(Small) EXCEPT !.uargv = 2, !.args = << >>] }

-----------------------------------------------------------------------------
\* Four blocks: a file of three blocks and its indirect one fill the disk.
Data == INSTANCE FileData
          WITH Procs <- {1, 2}, Files <- {1, 2}, Blocks <- 1..4, NDIRECT <- 1, BSIZE <- 2,
               MAXOPBLOCKS <- 6, MaxN <- 5, MaxCalls <- 4, panicked <- stopped

\* Tables small enough that open() and pipe() fail at each place.
Table == INSTANCE Ftable
           WITH Procs <- {1, 2}, First <- 1, NFILE <- 3, NOFILE <- 2, NPIPE <- 1,
                panicked <- stopped

\* A directory within a directory.
Tree == INSTANCE Directory
          WITH Procs <- {1, 2}, Names <- {"a"}, Dots <- {}, NINUM <- 3, panicked <- stopped

NoData ==
  m = 0 /\ disk = 0 /\ lock = 0 /\ outstanding = 0 /\ calls = 0 /\ wrote = 0 /\ wroteDisk = 0
NoFiles == file = 0 /\ ofile = 0 /\ alive = 0 /\ iref = 0 /\ pipe = 0
NoTree == node = 0 /\ cwd = 0 /\ lost = 0

MCInit ==
  /\ Init
  /\ \/ part = "memory" /\ call = 0 /\ stopped = 0 /\ NoData /\ NoFiles /\ NoTree
     \/ part = "data" /\ Data!Init /\ NoFiles /\ NoTree
     \/ part = "table" /\ Table!Init /\ NoData /\ NoTree
     \/ part = "tree" /\ Tree!Init /\ NoData /\ NoFiles

MCNext ==
  /\ UNCHANGED part
  /\ \/ part = "memory" /\ Next /\ UNCHANGED <<fileVars, dataVars, tableVars, treeVars>>
     \/ part = "data" /\ Data!Next /\ UNCHANGED <<vars, tableVars, treeVars>>
     \/ part = "table" /\ Table!Next /\ UNCHANGED <<vars, dataVars, treeVars>>
     \/ part = "tree" /\ Tree!Next /\ UNCHANGED <<vars, dataVars, tableVars>>

MCSpec == MCInit /\ [][MCNext]_allVars
-----------------------------------------------------------------------------
\* balloc(), bfree(), bmap() and itrunc(): the blocks marked in use are exactly
\* those of the files, each of one, also after a crash; see FileData.
BlocksPartition == part = "data" => Data!BlocksPartition

\* writei() and filewrite(): a file holds the bytes written last; see FileData.
ReadsBack == part = "data" => Data!ReadsBack

\* filealloc(), filedup() and fileclose(): files count their pointers and close
\* what they refer to once; see Ftable.
FilesCounted == part = "table" => Table!FilesCounted

\* namex(), create() and sys_unlink(): link counts and entries agree, and nothing
\* in use is freed; see Directory.
TreeSound == part = "tree" => Tree!TreeSound
=============================================================================
