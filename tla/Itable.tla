------------------------------- MODULE Itable -------------------------------
(***************************************************************************)
(* The table of in-memory inodes of kernel/fs.c, under the system calls of *)
(* kernel/sysfile.c that create, open, close, link and unlink plain files  *)
(* of one directory, and ireclaim() when the machine boots.                *)
(*                                                                         *)
(* A step is a critical section of itable.lock, or what a process does     *)
(* under the sleep lock of an inode or of the directory between two places *)
(* where another process can tell the difference.  The disk is that of     *)
(* module AtomicDisk: a crash goes back to the last instant at which no    *)
(* operation was outstanding.                                              *)
(***************************************************************************)
EXTENDS Integers, FiniteSets

CONSTANTS
  Procs, NoProc,
  First,       \* process that boots the file system, in forkret()
  Names,       \* names in the directory
  NINUM,       \* inodes on the disk
  NINODE       \* entries of itable

ASSUME ItableAssumption ==
  /\ IsFiniteSet(Procs) /\ First \in Procs /\ NoProc \notin Procs
  /\ IsFiniteSet(Names) /\ Names # {}
  /\ NINUM \in Nat \ {0} /\ NINODE \in Nat \ {0}

Inums == 1..NINUM
Slots == 1..NINODE

VARIABLES
  disk,         \* type and nlink of the dinodes, and inum of each name or 0
  committed,    \* what a crash leaves of the disk
  outstanding,  \* operations between begin_op() and end_op()
  inode,        \* itable.inode[]
  dlock,        \* process with the sleep lock of the directory
  pr,           \* system call that each process is in
  file,         \* f->ip of the file that each process has open, or 0
  scan,         \* inum in ireclaim()
  panicked      \* 0, NoInodes, or 1 when another assertion failed

vars == <<disk, committed, outstanding, inode, dlock, pr, file, scan, panicked>>

FreeInode == [ref |-> 0, inum |-> 0, valid |-> 0, type |-> 0, nlink |-> 0, lock |-> NoProc]

NoInodes == 2    \* panic("iget: no inodes")

NoName == CHOOSE nm \in Names : TRUE

Idle(l) == [pc |-> l, op |-> "none", name |-> NoName, ip |-> 1]

\* A disk that mkfs has made, without files, and the first boot.
Init ==
  /\ disk = [type |-> [i \in Inums |-> 0], nlink |-> [i \in Inums |-> 0], entry |-> [nm \in Names |-> 0]]
  /\ committed = disk
  /\ outstanding = 0
  /\ inode = [s \in Slots |-> FreeInode]
  /\ dlock = NoProc
  /\ pr = [p \in Procs |-> Idle(IF p = First THEN "ireclaim" ELSE "off")]
  /\ file = [p \in Procs |-> 0]
  /\ scan = 1
  /\ panicked = 0

\* The machine loses its memory and boots again.
crash ==
  /\ disk' = committed
  /\ outstanding' = 0
  /\ inode' = [s \in Slots |-> FreeInode]
  /\ dlock' = NoProc
  /\ pr' = [p \in Procs |-> Idle(IF p = First THEN "ireclaim" ELSE "off")]
  /\ file' = [p \in Procs |-> 0]
  /\ scan' = 1
  /\ UNCHANGED <<committed, panicked>>

At(p, l) == pr[p].pc = l

Goto(p, l) == pr' = [pr EXCEPT ![p].pc = l]

ip(p) == inode[pr[p].ip]

-----------------------------------------------------------------------------
\* iget(): the entry of inode i
Entries(i) == {s \in Slots : inode[s].ref > 0 /\ inode[s].inum = i}

Empty == {s \in Slots : inode[s].ref = 0}

Recycled(s, i) == [inode[s] EXCEPT !.inum = i, !.ref = 1, !.valid = 0]

\* ip = iget(dev, i), then step l
iget(p, i, l) ==
  \/ \E s \in Entries(i) :
       /\ inode' = [inode EXCEPT ![s].ref = @ + 1]
       /\ pr' = [pr EXCEPT ![p].ip = s, ![p].pc = l]
       /\ UNCHANGED panicked
  \/ /\ Entries(i) = {}
     /\ \E s \in Empty :
          /\ \A t \in Empty : s <= t
          /\ inode' = [inode EXCEPT ![s] = Recycled(s, i)]
          /\ pr' = [pr EXCEPT ![p].ip = s, ![p].pc = l]
     /\ UNCHANGED panicked
  \/ /\ Entries(i) = {} /\ Empty = {}
     /\ panicked' = NoInodes
     /\ UNCHANGED <<inode, pr>>

\* ilock(ip), then step l
ilock(p, l) ==
  LET s == pr[p].ip
      i == ip(p).inum
  IN /\ ip(p).lock = NoProc
     /\ inode' = [inode EXCEPT ![s].lock = p, ![s].valid = 1,
                    ![s].type = IF ip(p).valid = 1 THEN @ ELSE disk.type[i],
                    ![s].nlink = IF ip(p).valid = 1 THEN @ ELSE disk.nlink[i]]
     /\ panicked' = IF ip(p).ref < 1 \/ (ip(p).valid = 0 /\ disk.type[i] = 0) THEN 1 ELSE 0
     /\ Goto(p, l)
     /\ UNCHANGED <<disk, committed, outstanding, dlock, file, scan>>

\* ip->type = t; ip->nlink = n; iupdate(ip), then the lock is o's
iupdate(p, t, n, o) ==
  /\ inode' = [inode EXCEPT ![pr[p].ip].type = t, ![pr[p].ip].nlink = n, ![pr[p].ip].lock = o]
  /\ disk' = [disk EXCEPT !.type[ip(p).inum] = t, !.nlink[ip(p).inum] = n]

iunlock(p) == inode' = [inode EXCEPT ![pr[p].ip].lock = NoProc]

-----------------------------------------------------------------------------
Frees_Never(i) == FALSE

Frees_Shared(i) == i.valid = 1 /\ i.nlink = 0

\* ip->ref == 1 && ip->valid && ip->nlink == 0
Frees(i) == i.ref = 1 /\ i.valid = 1 /\ i.nlink = 0

\* iput() when others use the inode too, or it has links.
iput(p) ==
  /\ At(p, "iput") /\ ~Frees(ip(p))
  /\ inode' = [inode EXCEPT ![pr[p].ip].ref = @ - 1]
  /\ Goto(p, "end_op")
  /\ UNCHANGED <<disk, committed, outstanding, dlock, file, scan, panicked>>

\* acquiresleep() while itable.lock is held: sched() would panic if it had to sleep.
iput_last(p) ==
  /\ At(p, "iput") /\ Frees(ip(p))
  /\ panicked' = IF ip(p).lock = NoProc THEN 0 ELSE 1
  /\ inode' = [inode EXCEPT ![pr[p].ip].lock = p]
  /\ Goto(p, "itrunc")
  /\ UNCHANGED <<disk, committed, outstanding, dlock, file, scan>>

\* itrunc(ip); ip->type = 0; iupdate(ip)
iput_free(p) ==
  /\ At(p, "itrunc")
  /\ iupdate(p, 0, ip(p).nlink, p)
  /\ Goto(p, "freed")
  /\ UNCHANGED <<committed, outstanding, dlock, file, scan, panicked>>

Invalid(i) == [i EXCEPT !.valid = 0, !.lock = NoProc]

\* ip->valid = 0; releasesleep(&ip->lock)
iput_release(p) ==
  /\ At(p, "freed")
  /\ inode' = [inode EXCEPT ![pr[p].ip] = Invalid(@)]
  /\ Goto(p, "unref")
  /\ UNCHANGED <<disk, committed, outstanding, dlock, file, scan, panicked>>

iput_unref(p) ==
  /\ At(p, "unref")
  /\ inode' = [inode EXCEPT ![pr[p].ip].ref = @ - 1]
  /\ Goto(p, "end_op")
  /\ UNCHANGED <<disk, committed, outstanding, dlock, file, scan, panicked>>

-----------------------------------------------------------------------------
\* begin_op(); how it waits for the log is in module Log
Begun == outstanding + 1

\* A system call that looks up a name.
Begin(p, o, nm) ==
  /\ At(p, "idle")
  /\ outstanding' = Begun
  /\ pr' = [pr EXCEPT ![p] = [pc |-> "lookup", op |-> o, name |-> nm, ip |-> 1]]
  /\ UNCHANGED <<disk, committed, inode, dlock, file, scan, panicked>>

\* A process opens one file at a time.
sys_open(p, nm) == file[p] = 0 /\ Begin(p, "open", nm)
sys_open_create(p, nm) == file[p] = 0 /\ Begin(p, "create", nm)
sys_link(p, nm) == Begin(p, "link", nm)
sys_unlink(p, nm) == Begin(p, "unlink", nm)

\* sys_close() and the part of fileclose() for the last reference to a file
sys_close(p) ==
  /\ At(p, "idle") /\ file[p] # 0
  /\ outstanding' = Begun
  /\ pr' = [pr EXCEPT ![p] = [pc |-> "iput", op |-> "close", name |-> NoName, ip |-> file[p]]]
  /\ file' = [file EXCEPT ![p] = 0]
  /\ UNCHANGED <<disk, committed, inode, dlock, scan, panicked>>

Committed_Always == disk

\* The last operation out commits.
Committed == IF outstanding = 1 THEN disk ELSE committed

\* Return to the system call's caller, with iunlockput(dp) if need be.
end_op(p) ==
  /\ At(p, "end_op")
  /\ outstanding' = outstanding - 1
  /\ committed' = Committed
  /\ dlock' = IF dlock = p THEN NoProc ELSE dlock
  /\ pr' = [pr EXCEPT ![p] = Idle(IF @.op = "ireclaim" THEN "ireclaim" ELSE "idle")]
  /\ UNCHANGED <<disk, inode, file, scan, panicked>>

-----------------------------------------------------------------------------
Found(p) == disk.entry[pr[p].name]

\* Only unlink keeps the directory locked while it works on the inode.
KeepsDir(o) == o = "unlink"

\* ilock(dp); dirlookup(dp, name) finds the inode.
dirlookup(p) ==
  /\ At(p, "lookup") /\ dlock = NoProc /\ Found(p) # 0
  /\ iget(p, Found(p), "ilock")
  /\ dlock' = IF KeepsDir(pr[p].op) THEN p ELSE NoProc
  /\ UNCHANGED <<disk, committed, outstanding, file, scan>>

\* There is no such name; create() keeps the directory locked.
dirlookup_fails(p) ==
  /\ At(p, "lookup") /\ dlock = NoProc /\ Found(p) = 0
  /\ \/ /\ pr[p].op = "create"
        /\ dlock' = p
        /\ Goto(p, "ialloc")
     \/ /\ pr[p].op # "create"
        /\ Goto(p, "end_op")
        /\ UNCHANGED dlock
  /\ UNCHANGED <<disk, committed, outstanding, inode, file, scan, panicked>>

\* The dinode is marked before it has an entry in the table; ip is the local variable
\* inum.  The loop looks at one dinode at a time and others are freed behind it, so
\* that it may find any that is free, or none.
ialloc(p, i) ==
  /\ At(p, "ialloc") /\ disk.type[i] = 0
  /\ disk' = [disk EXCEPT !.type[i] = 1, !.nlink[i] = 0]
  /\ pr' = [pr EXCEPT ![p].pc = "iget", ![p].ip = i]
  /\ UNCHANGED <<committed, outstanding, inode, dlock, file, scan, panicked>>

ialloc_fails(p) ==
  /\ At(p, "ialloc")
  /\ Goto(p, "end_op")
  /\ UNCHANGED <<disk, committed, outstanding, inode, dlock, file, scan, panicked>>

ialloc_iget(p) ==
  /\ At(p, "iget")
  /\ iget(p, pr[p].ip, "create")
  /\ UNCHANGED <<disk, committed, outstanding, dlock, file, scan>>

-----------------------------------------------------------------------------
\* Where a system call goes on with the inode locked.
Body(o) == IF o \in {"open", "create"} THEN "opened" ELSE o

call_ilock(p) == At(p, "ilock") /\ ilock(p, Body(pr[p].op))

create_ilock(p) == At(p, "create") /\ ilock(p, "create_update")

\* ip->nlink = 1; iupdate(ip)
create_update(p) ==
  /\ At(p, "create_update")
  /\ iupdate(p, ip(p).type, 1, p)
  /\ Goto(p, "create_dirlink")
  /\ UNCHANGED <<committed, outstanding, dlock, file, scan, panicked>>

\* dirlink(dp, name, ip->inum); iunlockput(dp)
create_dirlink(p) ==
  /\ At(p, "create_dirlink")
  /\ disk' = [disk EXCEPT !.entry[pr[p].name] = ip(p).inum]
  /\ dlock' = NoProc
  /\ Goto(p, "opened")
  /\ UNCHANGED <<committed, outstanding, inode, file, scan, panicked>>

\* dirlink() fails for want of a block; the directory stays locked until iput() is done.
create_fail(p) ==
  /\ At(p, "create_dirlink")
  /\ iupdate(p, ip(p).type, 0, NoProc)
  /\ Goto(p, "iput")
  /\ UNCHANGED <<committed, outstanding, dlock, file, scan, panicked>>

\* f->ip = ip; iunlock(ip)
open_file(p) ==
  /\ At(p, "opened")
  /\ file' = [file EXCEPT ![p] = pr[p].ip]
  /\ iunlock(p)
  /\ Goto(p, "end_op")
  /\ UNCHANGED <<disk, committed, outstanding, dlock, scan, panicked>>

\* No file structure or no descriptor is left: iunlockput(ip).
open_fails(p) ==
  /\ At(p, "opened")
  /\ iunlock(p)
  /\ Goto(p, "iput")
  /\ UNCHANGED <<disk, committed, outstanding, dlock, file, scan, panicked>>

-----------------------------------------------------------------------------
\* The entry is cleared; iunlockput(dp).
unlink_entry(p) ==
  /\ At(p, "unlink")
  /\ panicked' = IF ip(p).nlink < 1 THEN 1 ELSE 0
  /\ disk' = [disk EXCEPT !.entry[pr[p].name] = 0]
  /\ dlock' = NoProc
  /\ Goto(p, "nlink_dec")
  /\ UNCHANGED <<committed, outstanding, inode, file, scan>>

\* ip->nlink--; iupdate(ip); iunlockput(ip): in sys_unlink(), and in sys_link() when it fails
nlink_dec(p) ==
  /\ At(p, "nlink_dec")
  /\ iupdate(p, ip(p).type, ip(p).nlink - 1, NoProc)
  /\ Goto(p, "iput")
  /\ UNCHANGED <<committed, outstanding, dlock, file, scan, panicked>>

\* ip->nlink++; iupdate(ip); iunlock(ip)
link_nlink(p) ==
  /\ At(p, "link")
  /\ iupdate(p, ip(p).type, ip(p).nlink + 1, NoProc)
  /\ Goto(p, "link_dirlink")
  /\ UNCHANGED <<committed, outstanding, dlock, file, scan, panicked>>

(***************************************************************************)
(* ilock(dp); dirlink(dp, new, ip->inum).  It fails if the name is in use  *)
(* (its iget() and iput() of that inode cancel out) or a block is wanting. *)
(***************************************************************************)
link_dirlink(p, new) ==
  /\ At(p, "link_dirlink") /\ dlock = NoProc
  /\ \/ /\ disk.entry[new] = 0
        /\ disk' = [disk EXCEPT !.entry[new] = ip(p).inum]
        /\ Goto(p, "iput")
     \/ /\ Goto(p, "link_bad")
        /\ UNCHANGED disk
  /\ UNCHANGED <<committed, outstanding, inode, dlock, file, scan, panicked>>

link_bad(p) == At(p, "link_bad") /\ ilock(p, "nlink_dec")

-----------------------------------------------------------------------------
\* dip->type != 0 && dip->nlink == 0
Orphan(i) == disk.type[i] # 0 /\ disk.nlink[i] = 0

\* iget() and begin_op() for the next inode that nothing refers to.
ireclaim(p) ==
  /\ At(p, "ireclaim") /\ scan \in Inums /\ Orphan(scan)
  /\ scan' = scan + 1
  /\ outstanding' = Begun
  /\ iget(p, scan, "ireclaim_ilock")
  /\ UNCHANGED <<disk, committed, dlock, file>>

ireclaim_skip(p) ==
  /\ At(p, "ireclaim") /\ scan \in Inums /\ ~Orphan(scan)
  /\ scan' = scan + 1
  /\ UNCHANGED <<disk, committed, outstanding, inode, dlock, pr, file, panicked>>

ireclaim_ilock(p) == At(p, "ireclaim_ilock") /\ ilock(p, "ireclaim_iput")

\* iunlock(ip), on the way to iput(ip)
ireclaim_iput(p) ==
  /\ At(p, "ireclaim_iput")
  /\ iunlock(p)
  /\ pr' = [pr EXCEPT ![p].pc = "iput", ![p].op = "ireclaim"]
  /\ UNCHANGED <<disk, committed, outstanding, dlock, file, scan, panicked>>

\* The file system is ready, and other processes come to be.
ireclaim_return(p) ==
  /\ At(p, "ireclaim") /\ scan \notin Inums
  /\ pr' = [q \in Procs |-> Idle("idle")]
  /\ scan' = 1
  /\ UNCHANGED <<disk, committed, outstanding, inode, dlock, file, panicked>>

-----------------------------------------------------------------------------
Step(p) ==
  \/ iput(p) \/ iput_last(p) \/ iput_free(p) \/ iput_release(p) \/ iput_unref(p) \/ end_op(p)
  \/ dirlookup(p) \/ dirlookup_fails(p)
  \/ (\E i \in Inums : ialloc(p, i)) \/ ialloc_fails(p) \/ ialloc_iget(p)
  \/ call_ilock(p) \/ create_ilock(p) \/ create_update(p) \/ create_dirlink(p) \/ create_fail(p)
  \/ open_file(p) \/ open_fails(p) \/ unlink_entry(p) \/ nlink_dec(p)
  \/ link_nlink(p) \/ (\E new \in Names : link_dirlink(p, new)) \/ link_bad(p)
  \/ ireclaim(p) \/ ireclaim_skip(p) \/ ireclaim_ilock(p) \/ ireclaim_iput(p) \/ ireclaim_return(p)

Call(p) ==
  \/ sys_close(p)
  \/ \E nm \in Names : sys_open(p, nm) \/ sys_open_create(p, nm) \/ sys_link(p, nm) \/ sys_unlink(p, nm)

Next == panicked = 0 /\ (crash \/ \E p \in Procs : Step(p) \/ Call(p))

Spec == Init /\ [][Next]_vars

-----------------------------------------------------------------------------
Nlinks == 0..Cardinality(Names) + Cardinality(Procs)

Disks == [type : [Inums -> {0, 1}], nlink : [Inums -> Nlinks], entry : [Names -> {0} \union Inums]]

Inodes == [ref : 0..2 * Cardinality(Procs), inum : {0} \union Inums, valid : {0, 1}, type : {0, 1},
           nlink : Nlinks, lock : Procs \union {NoProc}]

Calls == [pc : {"off", "idle", "lookup", "ilock", "ialloc", "iget", "create", "create_update",
                "create_dirlink", "opened", "unlink", "nlink_dec", "link", "link_dirlink", "link_bad",
                "iput", "itrunc", "freed", "unref", "end_op", "ireclaim", "ireclaim_ilock",
                "ireclaim_iput"},
          op : {"none", "open", "create", "link", "unlink", "close", "ireclaim"},
          name : Names,
          ip : Slots \union Inums]

TypeOK ==
  /\ disk \in Disks /\ committed \in Disks
  /\ outstanding \in 0..Cardinality(Procs)
  /\ inode \in [Slots -> Inodes]
  /\ dlock \in Procs \union {NoProc}
  /\ pr \in [Procs -> Calls]
  /\ file \in [Procs -> {0} \union Slots]
  /\ scan \in 1..NINUM + 1
  /\ panicked \in {0, 1, NoInodes}

\* Pointers to entry s in system calls and in open files
Users(s) ==
  {p \in Procs : /\ pr[p].ip = s
                 /\ pr[p].pc \notin {"off", "idle", "lookup", "ialloc", "iget", "end_op", "ireclaim"}}

Files(s) == {p \in Procs : file[p] = s}

(***************************************************************************)
(* iput() frees an inode only when no name and no open file leads to it,   *)
(* although it gives itable.lock up while it does so, and ialloc() may     *)
(* give the inode out again before iput() is through: ip->ref counts the   *)
(* pointers to the entry, an inode has one entry, and what is valid there  *)
(* and not locked agrees with the disk.  No assertion fails: the           *)
(* acquiresleep() that iput() calls with itable.lock held does not wait    *)
(* ("ip->ref == 1 means that no other process can have ip locked"), and    *)
(* neither "ilock: no type" nor "unlink: nlink < 1" occurs; "iget: no      *)
(* inodes" is for a table whose entries are all in use.                    *)
(***************************************************************************)
InUseIsAllocated ==
  /\ TypeOK
  /\ panicked # 1
  /\ panicked = NoInodes => Empty = {}
  /\ \A p \in Procs : file[p] # 0 => disk.type[inode[file[p]].inum] = 1
  /\ \A nm \in Names : disk.entry[nm] # 0 => disk.type[disk.entry[nm]] = 1
  /\ \A s \in Slots : inode[s].ref = Cardinality(Users(s)) + Cardinality(Files(s))
  /\ \A s, t \in Slots :
       inode[s].ref > 0 /\ inode[t].ref > 0 /\ inode[s].inum = inode[t].inum => s = t
  /\ \A s \in Slots :
       inode[s].ref > 0 /\ inode[s].valid = 1 /\ inode[s].lock = NoProc =>
         /\ inode[s].type = disk.type[inode[s].inum]
         /\ inode[s].nlink = disk.nlink[inode[s].inum]

(***************************************************************************)
(* A crash at any instant leaves a consistent file system: every name      *)
(* leads to an allocated inode, and its nlink is the number of its names.  *)
(***************************************************************************)
CrashConsistent ==
  \A i \in Inums :
    LET names == {nm \in Names : committed.entry[nm] = i}
    IN /\ committed.type[i] = 1 => committed.nlink[i] = Cardinality(names)
       /\ committed.type[i] = 0 => names = {}

(***************************************************************************)
(* When ireclaim() is through, no inode is left that nothing refers to,    *)
(* wherever the crash came, and even if one came in an earlier ireclaim(). *)
(***************************************************************************)
ReclaimIsComplete ==
  At(First, "ireclaim") => \A i \in 1..scan - 1 : ~Orphan(i)
=============================================================================
