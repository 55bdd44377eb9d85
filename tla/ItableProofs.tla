---------------------------- MODULE ItableProofs ----------------------------
(***************************************************************************)
(* Proofs about module Itable, for every number of processes, names,       *)
(* inodes and entries of the table: no inode is freed while a name, an     *)
(* open file or a system call leads to it, what a crash leaves is          *)
(* consistent, and ireclaim() leaves no inode behind that nothing refers   *)
(* to.                                                                     *)
(***************************************************************************)
EXTENDS Itable, TLAPS

USE ZenonT(60)

\* The arithmetic the proofs need
LEMMA Numbers == 0 # 1 /\ 1 # 0 /\ 1 + 0 = 1 /\ 0 + 1 = 1 /\ 0 + 0 = 0
  BY SMT

LEMMA NatInt == \A n \in Nat : n \in Int
  BY SMT

LEMMA AddOne == \A n \in Nat : n + 1 \in Nat /\ n + 1 + 0 = n + 1
  BY SMT

LEMMA LessOne == \A n \in Nat : n > 0 => n - 1 \in Nat /\ n - 1 + 1 = n + 0 /\ ~(n < 1)
  BY SMT

LEMMA OnlyOne == \A m, n \in Nat : m + n = 1 /\ m > 0 => m = 1 /\ n = 0
  BY SMT

LEMMA OnlyPending == \A m, n \in Nat : m + n = 1 /\ n > 0 => m = 0 /\ n = 1
  BY SMT

LEMMA OneAtLeast == \A m, n \in Nat : n > 0 => m + n > 0
  BY SMT

\* Entries of the table and inodes have numbers from 1.
LEMMA SlotNumbers == \A u \in Slots : u # 0 /\ 1 + 0 = 0 + 1
  BY SMT DEF Slots

LEMMA InumNumbers == \A i \in Inums : i # 0
  BY SMT DEF Inums

\* How scan goes on
LEMMA ScanNext == \A i \in Inums : i + 1 \in 1..NINUM + 1 /\ i + 1 - 1 = i /\ i + 1 - 2 = i - 1
  BY ItableAssumption, SMT DEF Inums

LEMMA ScanPast ==
  \A n \in 1..NINUM + 1, i \in Inums : n - 1 = i => \A j \in 1..n - 1 : j # i => j \in 1..n - 2 /\ j \in Inums
  BY ItableAssumption, SMT DEF Inums

\* Where a system call is about to open a file, it has none open yet.
Opens(p) ==
  \/ pr[p].pc \in {"ialloc", "iget", "create", "create_update", "create_dirlink", "opened"}
  \/ pr[p].pc \in {"lookup", "ilock"} /\ pr[p].op \in {"open", "create"}

Opening == \A p \in Procs : Opens(p) => file[p] = 0

LEMMA OpeningKeeps ==
  ASSUME pr \in [Procs -> Calls], file \in [Procs -> {0} \union Slots], Opening, Next
  PROVE  Opening'
<1>t. pr \in [Procs -> Calls] /\ file \in [Procs -> {0} \union Slots]
  OBVIOUS
<1> DEFINE L == {"ialloc", "iget", "create", "create_update", "create_dirlink", "opened", "lookup", "ilock"}
<1>a. \A q \in Procs : Opens(q) => file[q] = 0
  BY DEF Opening
<1>1. ASSUME NEW p \in Procs, \A q \in Procs : q # p => pr'[q] = pr[q] /\ file'[q] = file[q],
             Opens(p)' => file'[p] = 0
      PROVE  Opening'
  BY <1>a, <1>1 DEF Opening, Opens
<1>2. ASSUME NEW p \in Procs, NEW l, Goto(p, l), file' = file, Opens(p) \/ l \notin L
      PROVE  Opening'
  <2>1. pr'[p].pc = l /\ \A q \in Procs : q # p => pr'[q] = pr[q] /\ file'[q] = file[q]
    BY <1>t, <1>2 DEF Goto, Calls
  <2>2. Opens(p)' => file'[p] = 0
    BY <1>a, <1>2, <2>1 DEF Opens
  <2> QED
    BY <1>1, <2>1, <2>2
<1>3. ASSUME NEW p \in Procs, NEW j, NEW l, iget(p, j, l), file' = file,
             \/ Opens(p)
             \/ l \notin L
             \/ l = "ilock" /\ pr[p].op \notin {"open", "create"}
      PROVE  Opening'
  <2>1. ASSUME NEW s, pr' = [pr EXCEPT ![p].ip = s, ![p].pc = l]
        PROVE  Opening'
    <3>1. /\ pr'[p].pc = l /\ pr'[p].op = pr[p].op
          /\ \A q \in Procs : q # p => pr'[q] = pr[q] /\ file'[q] = file[q]
      BY <1>t, <1>3, <2>1 DEF Calls
    <3>2. Opens(p)' => file'[p] = 0
      BY <1>a, <1>3, <3>1 DEF Opens
    <3> QED
      BY <1>1, <3>1, <3>2
  <2>2. ASSUME pr' = pr
        PROVE  Opening'
    BY <1>3, <1>a, <2>2 DEF Opening, Opens
  <2> QED
    BY <1>3, <2>1, <2>2 DEF iget
<1>4. ASSUME NEW p \in Procs, NEW r, pr' = [pr EXCEPT ![p] = r], r.pc \notin L,
             \A q \in Procs : q # p => file'[q] = file[q]
      PROVE  Opening'
  <2>1. pr'[p] = r /\ \A q \in Procs : q # p => pr'[q] = pr[q] /\ file'[q] = file[q]
    BY <1>t, <1>4
  <2>2. ~Opens(p)'
    BY <1>4, <2>1 DEF Opens
  <2> QED
    BY <1>1, <2>1, <2>2
<1>5. CASE crash
  <2>1. \A q \in Procs : file'[q] = 0
    BY <1>5 DEF crash
  <2> QED
    BY <2>1 DEF Opening
<1>6. ASSUME NEW p \in Procs, Step(p)
      PROVE  Opening'
  <2>1. CASE iput(p) \/ iput_last(p) \/ iput_free(p) \/ iput_release(p) \/ iput_unref(p)
    <3>1. file' = file /\ \E l \in {"end_op", "itrunc", "freed", "unref"} : Goto(p, l)
      BY <2>1 DEF iput, iput_last, iput_free, iput_release, iput_unref
    <3> QED
      BY <1>2, <3>1
  <2>2. CASE end_op(p)
    <3>1. PICK l \in {"ireclaim", "idle"} : pr' = [pr EXCEPT ![p] = Idle(l)]
      BY <2>2 DEF end_op
    <3>2. Idle(l).pc \notin L /\ file' = file
      BY <2>2 DEF Idle, end_op
    <3> QED
      BY <1>4, <3>1, <3>2
  <2>3. CASE dirlookup(p)
    <3>1. pr[p].pc = "lookup" /\ iget(p, Found(p), "ilock") /\ file' = file
      BY <2>3 DEF dirlookup, At
    <3>2. Opens(p) \/ pr[p].op \notin {"open", "create"}
      BY <3>1 DEF Opens
    <3> QED
      BY <1>3, <3>1, <3>2
  <2>4. CASE dirlookup_fails(p)
    <3>1. /\ pr[p].pc = "lookup" /\ file' = file
          /\ (pr[p].op = "create" /\ Goto(p, "ialloc")) \/ Goto(p, "end_op")
      BY <2>4 DEF dirlookup_fails, At
    <3>2. pr[p].op = "create" => Opens(p)
      BY <3>1 DEF Opens
    <3> QED
      BY <1>2, <3>1, <3>2
  <2>5. CASE \E i \in Inums : ialloc(p, i)
    <3>1. PICK i \in Inums : pr[p].pc = "ialloc" /\ pr' = [pr EXCEPT ![p].pc = "iget", ![p].ip = i] /\ file' = file
      BY <2>5 DEF ialloc, At
    <3>2. file[p] = 0
      BY <1>a, <3>1 DEF Opens
    <3> QED
      BY <1>t, <1>1, <3>1, <3>2
  <2>6. CASE ialloc_fails(p) \/ open_fails(p) \/ create_fail(p) \/ unlink_entry(p) \/ nlink_dec(p) \/ link_nlink(p)
             \/ (\E new \in Names : link_dirlink(p, new))
    <3>1. file' = file /\ \E l \in {"end_op", "iput", "nlink_dec", "link_dirlink", "link_bad"} : Goto(p, l)
      BY <2>6 DEF ialloc_fails, open_fails, create_fail, unlink_entry, nlink_dec, link_nlink, link_dirlink
    <3> QED
      BY <1>2, <3>1
  <2>7. CASE ialloc_iget(p)
    <3>1. pr[p].pc = "iget" /\ iget(p, pr[p].ip, "create") /\ file' = file
      BY <2>7 DEF ialloc_iget, At
    <3> QED
      BY <1>3, <3>1 DEF Opens
  <2>8. CASE call_ilock(p)
    <3>1. pr[p].pc = "ilock" /\ Goto(p, Body(pr[p].op)) /\ file' = file
      BY <2>8 DEF call_ilock, At, ilock
    <3>2. Opens(p) \/ Body(pr[p].op) \notin L
      <4>0. pr[p].op \in {"none", "open", "create", "link", "unlink", "close", "ireclaim"}
        BY <1>t DEF Calls
      <4>1. pr[p].op # "create" => pr[p].op \notin L
        BY <4>0
      <4>2. CASE pr[p].op \in {"open", "create"}
        BY <3>1, <4>2 DEF Opens
      <4>3. CASE pr[p].op \notin {"open", "create"}
        BY <4>1, <4>3 DEF Body
      <4> QED
        BY <4>2, <4>3
    <3> QED
      BY <1>2, <3>1, <3>2
  <2>9. CASE create_ilock(p) \/ create_update(p) \/ create_dirlink(p)
    <3>1. /\ pr[p].pc \in {"create", "create_update", "create_dirlink"} /\ file' = file
          /\ \E l \in {"create_update", "create_dirlink", "opened"} : Goto(p, l)
      BY <2>9 DEF create_ilock, create_update, create_dirlink, ilock, At
    <3>2. Opens(p)
      BY <3>1 DEF Opens
    <3> QED
      BY <1>2, <3>1, <3>2
  <2>10. CASE open_file(p)
    <3>1. /\ pr' = [pr EXCEPT ![p].pc = "end_op"] /\ file' = [file EXCEPT ![p] = pr[p].ip]
      BY <2>10 DEF open_file, Goto
    <3>2. /\ pr'[p].pc = "end_op"
          /\ \A q \in Procs : q # p => pr'[q] = pr[q] /\ file'[q] = file[q]
      BY <1>t, <3>1 DEF Calls
    <3>3. ~Opens(p)'
      BY <3>2 DEF Opens
    <3> QED
      BY <1>1, <3>2, <3>3
  <2>11. CASE link_bad(p) \/ ireclaim_ilock(p)
    <3>1. file' = file /\ \E l \in {"nlink_dec", "ireclaim_iput"} : Goto(p, l)
      BY <2>11 DEF link_bad, ireclaim_ilock, ilock
    <3> QED
      BY <1>2, <3>1
  <2>12. CASE ireclaim(p)
    <3>1. iget(p, scan, "ireclaim_ilock") /\ file' = file
      BY <2>12 DEF ireclaim
    <3> QED
      BY <1>3, <3>1
  <2>13. CASE ireclaim_skip(p)
    BY <1>a, <2>13 DEF ireclaim_skip, Opening, Opens
  <2>14. CASE ireclaim_iput(p)
    <3>1. pr' = [pr EXCEPT ![p].pc = "iput", ![p].op = "ireclaim"] /\ file' = file
      BY <2>14 DEF ireclaim_iput
    <3>2. pr'[p].pc = "iput" /\ \A q \in Procs : q # p => pr'[q] = pr[q] /\ file'[q] = file[q]
      BY <1>t, <3>1 DEF Calls
    <3>3. ~Opens(p)'
      BY <3>2 DEF Opens
    <3> QED
      BY <1>1, <3>2, <3>3
  <2>15. CASE ireclaim_return(p)
    <3>1. \A q \in Procs : pr'[q].pc = "idle"
      BY <2>15 DEF ireclaim_return, Idle
    <3> QED
      BY <3>1 DEF Opening, Opens
  <2> QED
    BY <1>6, <2>1, <2>2, <2>3, <2>4, <2>5, <2>6, <2>7, <2>8, <2>9, <2>10, <2>11, <2>12, <2>13, <2>14, <2>15 DEF Step
<1>7. ASSUME NEW p \in Procs, NEW nm \in Names, NEW o, Begin(p, o, nm), file[p] = 0 \/ o \in {"link", "unlink"}
      PROVE  Opening'
  <2>1. pr' = [pr EXCEPT ![p] = [pc |-> "lookup", op |-> o, name |-> nm, ip |-> 1]] /\ file' = file
    BY <1>7 DEF Begin
  <2>2. pr'[p].pc = "lookup" /\ pr'[p].op = o /\ \A q \in Procs : q # p => pr'[q] = pr[q] /\ file'[q] = file[q]
    BY <1>t, <2>1
  <2>3. Opens(p)' => file'[p] = 0
    BY <1>7, <2>1, <2>2 DEF Opens
  <2> QED
    BY <1>1, <2>2, <2>3
<1>8. ASSUME NEW p \in Procs, Call(p)
      PROVE  Opening'
  <2>1. CASE sys_close(p)
    <3> DEFINE r == [pc |-> "iput", op |-> "close", name |-> NoName, ip |-> file[p]]
    <3>1. pr' = [pr EXCEPT ![p] = r] /\ file' = [file EXCEPT ![p] = 0]
      BY <2>1 DEF sys_close
    <3>2. r.pc \notin L /\ \A q \in Procs : q # p => file'[q] = file[q]
      BY <1>t, <3>1
    <3> QED
      BY <1>4, <3>1, <3>2
  <2>2. CASE \E nm \in Names : sys_open(p, nm) \/ sys_open_create(p, nm) \/ sys_link(p, nm) \/ sys_unlink(p, nm)
    BY <1>7, <2>2 DEF sys_open, sys_open_create, sys_link, sys_unlink
  <2> QED
    BY <1>8, <2>1, <2>2 DEF Call
<1> QED
  BY <1>5, <1>6, <1>8 DEF Next

-----------------------------------------------------------------------------
\* Where a system call has a pointer to an entry, where it has its lock, and
\* where iput() has freed the inode on the disk.
Using == {"ilock", "create", "create_update", "create_dirlink", "opened", "unlink", "nlink_dec",
          "link", "link_dirlink", "link_bad", "iput", "itrunc", "freed", "unref",
          "ireclaim_ilock", "ireclaim_iput"}

Locking == {"create_update", "create_dirlink", "opened", "unlink", "nlink_dec", "link",
            "itrunc", "freed", "ireclaim_iput"}

Leaving == {"freed", "unref"}

\* Where create() has an inode of its own, and where ireclaim() is at work.
Creating == {"iget", "create", "create_update", "create_dirlink"}

Reclaiming == {"ireclaim", "ireclaim_ilock", "ireclaim_iput"}

Inum(p) == inode[pr[p].ip].inum

NewInum(p) == IF pr[p].pc = "iget" THEN pr[p].ip ELSE Inum(p)

\* The types, without the bounds that follow from what is counted.
Dinodes == [type : [Inums -> {0, 1}], nlink : [Inums -> Nat], entry : [Names -> {0} \union Inums]]

Cached == [ref : Nat, inum : {0} \union Inums, valid : {0, 1}, type : {0, 1}, nlink : Nat,
           lock : Procs \union {NoProc}]

Types ==
  /\ disk \in Dinodes /\ committed \in Dinodes
  /\ outstanding \in Nat
  /\ inode \in [Slots -> Cached]
  /\ dlock \in Procs \union {NoProc}
  /\ pr \in [Procs -> Calls]
  /\ file \in [Procs -> {0} \union Slots]
  /\ scan \in 1..NINUM + 1
  /\ panicked \in {0, 1, NoInodes}

\* nlink in memory is one that the disk can have.
Bounded == \A s \in Slots : inode[s].nlink <= Cardinality(Names) + Cardinality(Procs)

Pointers ==
  /\ \A p \in Procs : pr[p].pc \in Using => pr[p].ip \in Slots
  /\ \A p \in Procs : pr[p].pc = "iget" => pr[p].ip \in Inums
  /\ \A s \in Slots : inode[s].ref > 0 => inode[s].inum \in Inums
  /\ \A p \in Procs : pr[p].pc \in {"lookup", "ilock"} => pr[p].op \in {"open", "create", "link", "unlink"}

Counted == \A s \in Slots : inode[s].ref = Cardinality(Users(s)) + Cardinality(Files(s))

OneEntry ==
  \A s, t \in Slots :
    inode[s].ref > 0 /\ inode[t].ref > 0 /\ inode[s].inum = inode[t].inum => s = t

Locks ==
  /\ \A p \in Procs : pr[p].pc \in Locking => inode[pr[p].ip].lock = p /\ inode[pr[p].ip].valid = 1
  /\ \A s \in Slots : inode[s].lock # NoProc =>
       pr[inode[s].lock].pc \in Locking /\ pr[inode[s].lock].ip = s

\* What the lock of the directory protects: the name that create() found free, and
\* the entry that unlink found.
Dir ==
  \A p \in Procs :
    /\ pr[p].pc \in Creating \union {"ialloc"} => dlock = p /\ disk.entry[pr[p].name] = 0
    /\ pr[p].pc = "unlink" \/ (pr[p].pc = "ilock" /\ pr[p].op = "unlink") =>
         dlock = p /\ disk.entry[pr[p].name] = Inum(p)

\* Until create() has entered its inode in the directory, only those who are
\* about to let go of an earlier use of it have a pointer to it.
Fresh ==
  \A p \in Procs : pr[p].pc \in Creating =>
    /\ disk.type[NewInum(p)] = 1
    /\ disk.nlink[NewInum(p)] = IF pr[p].pc = "create_dirlink" THEN 1 ELSE 0
    /\ \A q \in Procs : q # p /\ pr[q].pc \in Using /\ Inum(q) = NewInum(p) => pr[q].pc \in Leaving
    /\ \A q \in Procs : file[q] # 0 => inode[file[q]].inum # NewInum(p)

Allocated ==
  /\ \A p \in Procs : pr[p].pc \in Using \ Leaving => disk.type[Inum(p)] = 1
  /\ \A p \in Procs : file[p] # 0 => disk.type[inode[file[p]].inum] = 1

\* iput() frees an inode that it alone points to, and that has no links.
Alone ==
  \A p \in Procs : pr[p].pc = "itrunc" =>
    /\ disk.nlink[Inum(p)] = 0 /\ inode[pr[p].ip].nlink = 0
    /\ \A q \in Procs : q # p /\ pr[q].pc \in Using => pr[q].ip # pr[p].ip
    /\ \A q \in Procs : file[q] # pr[p].ip

Freeing(s) == inode[s].lock # NoProc /\ pr[inode[s].lock].pc = "freed"

\* A valid entry is that of an allocated inode and agrees with the disk, but for
\* the moment between iupdate() and ip->valid = 0 in iput().
Agree ==
  \A s \in Slots : inode[s].ref > 0 /\ inode[s].valid = 1 =>
    \/ Freeing(s)
    \/ /\ disk.type[inode[s].inum] = 1 /\ inode[s].type = 1
       /\ inode[s].nlink = disk.nlink[inode[s].inum]

NamesOf(d, i) == {nm \in Names : d.entry[nm] = i}

\* System calls that have counted a link which is not in the directory yet, or
\* no longer.
Ahead == {"create_dirlink", "nlink_dec", "link_dirlink", "link_bad"}

Pending(i) == {p \in Procs : pr[p].pc \in Ahead /\ Inum(p) = i}

Linked == \A i \in Inums : disk.nlink[i] = Cardinality(NamesOf(disk, i)) + Cardinality(Pending(i))

FreeUnlinked == \A i \in Inums : disk.type[i] = 0 => disk.nlink[i] = 0

Consistent ==
  \A i \in Inums :
    /\ committed.nlink[i] = Cardinality(NamesOf(committed, i))
    /\ committed.type[i] = 0 => committed.nlink[i] = 0

Active == {p \in Procs : pr[p].pc \notin {"off", "idle", "ireclaim"}}

Outstanding == outstanding = Cardinality(Active)

Booting == pr[First].pc \in Reclaiming \/ pr[First].op = "ireclaim"

\* ireclaim() runs alone; up to scan nothing is left to free, but for the inode
\* that iput() is about to free.
Boot ==
  /\ \A p \in Procs \ {First} : pr[p].pc \notin Reclaiming /\ pr[p].op # "ireclaim"
  /\ pr[First].op = "ireclaim" => pr[First].pc \in {"iput", "itrunc", "freed", "unref", "end_op"}
  /\ Booting =>
       /\ \A p \in Procs \ {First} : pr[p].pc = "off"
       /\ \A p \in Procs : file[p] = 0
       /\ pr[First].pc \in {"ireclaim", "freed", "unref", "end_op"} =>
            \A i \in 1..scan - 1 : ~Orphan(i)
       /\ pr[First].pc \in {"ireclaim_ilock", "ireclaim_iput", "iput", "itrunc"} =>
            /\ scan - 1 = Inum(First) /\ disk.nlink[scan - 1] = 0
            /\ \A i \in 1..scan - 2 : ~Orphan(i)
       /\ pr[First].pc = "iput" => inode[pr[First].ip].valid = 1

Panics == panicked # 1 /\ (panicked = NoInodes => Empty = {})

IInv ==
  /\ Types /\ Bounded /\ Pointers /\ Counted /\ OneEntry /\ Locks /\ Dir /\ Fresh /\ Allocated
  /\ Alone /\ Agree /\ Linked /\ FreeUnlinked /\ Consistent /\ Outstanding /\ Boot /\ Panics

\* What is committed changes in end_op() and crash() only.
LEMMA CommittedStays ==
  ASSUME IInv, committed' = committed, panicked' = 0
  PROVE  Consistent' /\ Panics'
<1>1. Consistent'
  BY DEF IInv, Consistent, NamesOf
<1>2. Panics'
  BY SMT DEF Panics, NoInodes
<1> QED
  BY <1>1, <1>2

Touches(i) ==
  \A j \in Inums : j # i => disk'.type[j] = disk.type[j] /\ disk'.nlink[j] = disk.nlink[j]

\* The dinode i is written.
Writes(i, t, n) ==
  /\ disk' \in Dinodes /\ disk'.entry = disk.entry /\ Touches(i)
  /\ disk'.type[i] = t /\ disk'.nlink[i] = n

LEMMA ValueSet ==
  ASSUME NEW S, NEW T, NEW f \in [S -> T], NEW x \in S, NEW v \in T
  PROVE  LET g == [f EXCEPT ![x] = v]
         IN  g \in [S -> T] /\ g[x] = v /\ \A y \in S : y # x => g[y] = f[y]
  OBVIOUS

LEMMA DinodeWrites ==
  ASSUME disk \in Dinodes, NEW i \in Inums, NEW t \in {0, 1}, NEW n \in Nat,
         disk' = [disk EXCEPT !.type[i] = t, !.nlink[i] = n]
  PROVE  Writes(i, t, n)
<1>1. disk'.type = [disk.type EXCEPT ![i] = t]
  BY DEF Dinodes
<1>2. disk'.nlink = [disk.nlink EXCEPT ![i] = n]
  BY DEF Dinodes
<1>3. disk'.entry = disk.entry
  BY DEF Dinodes
<1>4. disk' = [type |-> disk'.type, nlink |-> disk'.nlink, entry |-> disk'.entry]
  BY DEF Dinodes
<1>5. disk.type \in [Inums -> {0, 1}] /\ disk.nlink \in [Inums -> Nat] /\ disk.entry \in [Names -> {0} \union Inums]
  BY DEF Dinodes
<1> DEFINE ty == disk'.type
           nl == disk'.nlink
<1>6. ty \in [Inums -> {0, 1}] /\ ty[i] = t /\ \A j \in Inums : j # i => ty[j] = disk.type[j]
  BY <1>1, <1>5, ValueSet, SMT
<1>7. nl \in [Inums -> Nat] /\ nl[i] = n /\ \A j \in Inums : j # i => nl[j] = disk.nlink[j]
  BY <1>2, <1>5, ValueSet, SMT
<1>8. disk' \in Dinodes
  BY <1>3, <1>4, <1>5, <1>6, <1>7 DEF Dinodes
<1> QED
  BY <1>3, <1>6, <1>7, <1>8 DEF Writes, Touches

\* The entry of name nm is written.
Enters(nm, e) ==
  /\ disk' \in Dinodes /\ disk'.type = disk.type /\ disk'.nlink = disk.nlink
  /\ disk'.entry[nm] = e /\ \A n \in Names : n # nm => disk'.entry[n] = disk.entry[n]

LEMMA EntryEnters ==
  ASSUME disk \in Dinodes, NEW nm \in Names, NEW e \in {0} \union Inums,
         disk' = [disk EXCEPT !.entry[nm] = e]
  PROVE  Enters(nm, e)
<1>1. disk'.entry = [disk.entry EXCEPT ![nm] = e]
  BY DEF Dinodes
<1>2. disk'.type = disk.type /\ disk'.nlink = disk.nlink
  BY DEF Dinodes
<1>4. disk' = [type |-> disk'.type, nlink |-> disk'.nlink, entry |-> disk'.entry]
  BY DEF Dinodes
<1>5. disk.type \in [Inums -> {0, 1}] /\ disk.nlink \in [Inums -> Nat] /\ disk.entry \in [Names -> {0} \union Inums]
  BY DEF Dinodes
<1> DEFINE en == disk'.entry
<1>6. en \in [Names -> {0} \union Inums] /\ en[nm] = e /\ \A n \in Names : n # nm => en[n] = disk.entry[n]
  BY <1>1, <1>5, ValueSet, SMT
<1>8. disk' \in Dinodes
  BY <1>2, <1>4, <1>5, <1>6 DEF Dinodes
<1> QED
  BY <1>2, <1>6, <1>8 DEF Enters

\* panic(): nothing else changes.
LEMMA Same ==
  ASSUME IInv, panicked' \in {0, 1, NoInodes}, Panics',
         UNCHANGED <<disk, committed, outstanding, inode, dlock, pr, file, scan>>
  PROVE  IInv'
<1>1. /\ disk' = disk /\ committed' = committed /\ outstanding' = outstanding /\ inode' = inode
      /\ dlock' = dlock /\ pr' = pr /\ file' = file /\ scan' = scan
  OBVIOUS
<1>2. Types' /\ Bounded' /\ Pointers' /\ OneEntry' /\ Locks' /\ Dir'
  BY <1>1 DEF IInv, Types, Bounded, Pointers, OneEntry, Locks, Dir, Inum
<1>3. Fresh'
  BY <1>1 DEF IInv, Fresh, Inum, NewInum
<1>4. Allocated' /\ Alone' /\ FreeUnlinked'
  BY <1>1 DEF IInv, Allocated, Alone, FreeUnlinked, Inum
<1>5. Agree'
  BY <1>1 DEF IInv, Agree, Freeing
<1>6. \A s \in Slots : Users(s)' = Users(s) /\ Files(s)' = Files(s)
  BY <1>1 DEF Users, Files
<1>7. Counted'
  BY <1>1, <1>6 DEF IInv, Counted
<1>8. Active' = Active /\ \A i \in Inums : Pending(i)' = Pending(i)
  BY <1>1 DEF Pending, Inum, Active
<1>9. Linked' /\ Outstanding' /\ Consistent'
  BY <1>1, <1>8 DEF IInv, Linked, NamesOf, Outstanding, Consistent
<1>10. Boot'
  BY <1>1 DEF IInv, Boot, Booting, Inum, Orphan
<1> QED
  BY <1>2, <1>3, <1>4, <1>5, <1>7, <1>9, <1>10 DEF IInv

-----------------------------------------------------------------------------
\* What the proofs use of the cardinality of finite sets (see CountingHolds).
Counting ==
  /\ \A S : IsFiniteSet(S) => Cardinality(S) \in Nat /\ (Cardinality(S) = 0 <=> S = {})
  /\ \A S : IsFiniteSet(S) /\ Cardinality(S) = 1 => \E x : S = {x}
  /\ \A S, x : IsFiniteSet(S) /\ x \notin S =>
       IsFiniteSet(S \union {x}) /\ Cardinality(S \union {x}) = Cardinality(S) + 1
  /\ \A S, x : IsFiniteSet(S) /\ x \in S =>
       IsFiniteSet(S \ {x}) /\ Cardinality(S \ {x}) = Cardinality(S) - 1
  /\ \A S, T : IsFiniteSet(T) /\ S \subseteq T => IsFiniteSet(S) /\ Cardinality(S) <= Cardinality(T)
  /\ Cardinality({}) = 0 /\ \A x : Cardinality({x}) = 1

LEMMA Occupied ==
  ASSUME Counting, NEW S, IsFiniteSet(S), NEW x \in S
  PROVE  /\ Cardinality(S) \in Nat /\ Cardinality(S) > 0
         /\ Cardinality(S) = 1 => \A y \in S : y = x
<1>1. Cardinality(S) \in Nat /\ Cardinality(S) # 0
  BY DEF Counting
<1> ASSUME Cardinality(S) = 1 PROVE \A y \in S : y = x
  BY SMT DEF Counting
<1> QED
  BY <1>1, SMT

LEMMA UsersAre ==
  ASSUME pr \in [Procs -> Calls], NEW s
  PROVE  Users(s) = {p \in Procs : pr[p].pc \in Using /\ pr[p].ip = s}
<1>1. \A p \in Procs : pr[p].pc \in Using <=>
         pr[p].pc \notin {"off", "idle", "lookup", "ialloc", "iget", "end_op", "ireclaim"}
  BY DEF Calls, Using
<1> QED
  BY <1>1 DEF Users

\* nlink = 0 is no name and no link to come.
LEMMA Unlinked ==
  ASSUME Counting, IInv, NEW i \in Inums, disk.nlink[i] = 0
  PROVE  /\ \A nm \in Names : disk.entry[nm] # i
         /\ \A p \in Procs : pr[p].pc \in Ahead => Inum(p) # i
<1>1. IsFiniteSet(NamesOf(disk, i)) /\ IsFiniteSet(Pending(i))
  BY ItableAssumption DEF Counting, NamesOf, Pending
<1>2. Cardinality(NamesOf(disk, i)) \in Nat /\ Cardinality(Pending(i)) \in Nat
  BY <1>1 DEF Counting
<1>3. 0 = Cardinality(NamesOf(disk, i)) + Cardinality(Pending(i))
  BY DEF IInv, Linked
<1>4. Cardinality(NamesOf(disk, i)) = 0 /\ Cardinality(Pending(i)) = 0
  BY <1>2, <1>3, SMT
<1>5. NamesOf(disk, i) = {} /\ Pending(i) = {}
  BY <1>1, <1>4 DEF Counting
<1> QED
  BY <1>5 DEF NamesOf, Pending

\* A name has a link.
LEMMA NamedLinked ==
  ASSUME Counting, IInv, NEW nm \in Names, disk.entry[nm] # 0
  PROVE  disk.entry[nm] \in Inums /\ disk.nlink[disk.entry[nm]] > 0 /\ disk.type[disk.entry[nm]] = 1
<1> DEFINE i == disk.entry[nm]
<1>0. i \in Inums /\ disk.nlink[i] \in Nat /\ disk.type[i] \in {0, 1}
  BY DEF IInv, Types, Dinodes
<1>1. disk.nlink[i] # 0
  BY <1>0, Unlinked
<1>2. disk.type[i] # 0
  BY <1>0, <1>1 DEF IInv, FreeUnlinked
<1> QED
  BY <1>0, <1>1, <1>2, SMT

LEMMA LinksBounded ==
  ASSUME Counting, Linked, NEW i \in Inums
  PROVE  disk.nlink[i] <= Cardinality(Names) + Cardinality(Procs)
<1>1. /\ Cardinality(NamesOf(disk, i)) <= Cardinality(Names) /\ IsFiniteSet(NamesOf(disk, i))
      /\ Cardinality(Pending(i)) <= Cardinality(Procs) /\ IsFiniteSet(Pending(i))
  BY ItableAssumption DEF Counting, NamesOf, Pending
<1>2. /\ Cardinality(NamesOf(disk, i)) \in Nat /\ Cardinality(Names) \in Nat
      /\ Cardinality(Pending(i)) \in Nat /\ Cardinality(Procs) \in Nat
  BY <1>1, ItableAssumption DEF Counting
<1> QED
  BY <1>1, <1>2, SMT DEF Linked

\* What the invariant says of the properties.
LEMMA TypesBounded ==
  ASSUME Counting, IInv
  PROVE  TypeOK
<1> DEFINE N == Cardinality(Names)
           P == Cardinality(Procs)
<1>0. N \in Nat /\ P \in Nat
  BY ItableAssumption DEF Counting
<1>1. \A i \in Inums : disk.nlink[i] <= N + P
  BY LinksBounded DEF IInv
<1>2. \A i \in Inums : committed.nlink[i] <= N
  <2>1. \A i \in Inums : Cardinality(NamesOf(committed, i)) <= N
    BY ItableAssumption DEF Counting, NamesOf
  <2> QED
    BY <2>1 DEF IInv, Consistent
<1>3. outstanding <= P
  <2>1. Active \subseteq Procs
    BY DEF Active
  <2>2. Cardinality(Active) <= P
    BY <2>1, ItableAssumption DEF Counting
  <2> QED
    BY <2>2 DEF IInv, Outstanding
<1>4. \A s \in Slots : inode[s].ref <= 2 * P
  <2> SUFFICES ASSUME NEW s \in Slots PROVE inode[s].ref <= 2 * P
    OBVIOUS
  <2> DEFINE u == Cardinality(Users(s))
             f == Cardinality(Files(s))
  <2>1. IsFiniteSet(Users(s)) /\ IsFiniteSet(Files(s)) /\ u <= P /\ f <= P
    BY ItableAssumption DEF Counting, Users, Files
  <2>2. u \in Nat /\ f \in Nat
    BY <2>1 DEF Counting
  <2>3. inode[s].ref = u + f
    BY DEF IInv, Counted
  <2> HIDE DEF u, f, P, N
  <2>4. u + f <= 2 * P
    BY <1>0, <2>1, <2>2, SMT
  <2> QED
    BY <2>3, <2>4
<1>5. \A s \in Slots : inode[s].nlink <= N + P
  BY DEF IInv, Bounded
<1>t. Types
  BY DEF IInv
<1> HIDE DEF N, P
<1>6. disk.type \in [Inums -> {0, 1}] /\ disk.nlink \in [Inums -> 0..N + P] /\ disk.entry \in [Names -> {0} \union Inums]
  <2>1. disk.type \in [Inums -> {0, 1}] /\ disk.nlink \in [Inums -> Nat] /\ disk.entry \in [Names -> {0} \union Inums]
    BY <1>t DEF Types, Dinodes
  <2> QED
    BY <1>0, <1>1, <2>1, SMT
<1>7. committed.type \in [Inums -> {0, 1}] /\ committed.nlink \in [Inums -> 0..N + P]
      /\ committed.entry \in [Names -> {0} \union Inums]
  <2>1. committed.type \in [Inums -> {0, 1}] /\ committed.nlink \in [Inums -> Nat]
        /\ committed.entry \in [Names -> {0} \union Inums]
    BY <1>t DEF Types, Dinodes
  <2> QED
    BY <1>0, <1>2, <2>1, SMT
<1>8. disk \in Disks /\ committed \in Disks
  <2>1. disk = [type |-> disk.type, nlink |-> disk.nlink, entry |-> disk.entry]
    BY <1>t DEF Types, Dinodes
  <2>2. committed = [type |-> committed.type, nlink |-> committed.nlink, entry |-> committed.entry]
    BY <1>t DEF Types, Dinodes
  <2> QED
    BY <1>6, <1>7, <2>1, <2>2 DEF Disks, Nlinks, N, P
<1>9. inode \in [Slots -> Inodes]
  <2>1. inode \in [Slots -> Cached]
    BY <1>t DEF Types
  <2>2. ASSUME NEW s \in Slots PROVE inode[s] \in Inodes
    <3> DEFINE r == inode[s]
    <3>1. r \in Cached
      BY <2>1
    <3>2. /\ r = [ref |-> r.ref, inum |-> r.inum, valid |-> r.valid, type |-> r.type, nlink |-> r.nlink, lock |-> r.lock]
          /\ r.ref \in Nat /\ r.nlink \in Nat /\ r.inum \in {0} \union Inums /\ r.valid \in {0, 1} /\ r.type \in {0, 1}
          /\ r.lock \in Procs \union {NoProc}
      BY <3>1 DEF Cached
    <3>3. r.ref \in Nat /\ r.nlink \in Nat /\ r.ref <= 2 * P /\ r.nlink <= N + P
      BY <1>4, <1>5, <3>2
    <3> HIDE DEF r
    <3>4. r.ref \in 0..2 * P /\ r.nlink \in 0..N + P
      BY <1>0, <3>3, SMT
    <3>5. r \in Inodes
      BY <3>2, <3>4 DEF Inodes, Nlinks, N, P
    <3> QED
      BY <3>5 DEF r
  <2> QED
    BY <2>1, <2>2
<1>10. outstanding \in 0..P
  <2>1. outstanding \in Nat
    BY <1>t DEF Types
  <2> QED
    BY <1>0, <1>3, <2>1, SMT
<1> QED
  BY <1>t, <1>8, <1>9, <1>10 DEF TypeOK, Types, P

LEMMA Implied ==
  ASSUME Counting, IInv
  PROVE  InUseIsAllocated /\ CrashConsistent /\ ReclaimIsComplete
<1>1. InUseIsAllocated
  <2>1. \A nm \in Names : disk.entry[nm] # 0 => disk.type[disk.entry[nm]] = 1
    BY NamedLinked
  <2>2. \A s \in Slots : inode[s].ref > 0 /\ inode[s].valid = 1 /\ inode[s].lock = NoProc =>
          /\ inode[s].type = disk.type[inode[s].inum]
          /\ inode[s].nlink = disk.nlink[inode[s].inum]
    BY DEF IInv, Agree, Freeing
  <2>3. \A p \in Procs : file[p] # 0 => disk.type[inode[file[p]].inum] = 1
    BY DEF IInv, Allocated
  <2>4. /\ panicked # 1 /\ (panicked = NoInodes => Empty = {})
        /\ \A s \in Slots : inode[s].ref = Cardinality(Users(s)) + Cardinality(Files(s))
        /\ \A s, t \in Slots :
             inode[s].ref > 0 /\ inode[t].ref > 0 /\ inode[s].inum = inode[t].inum => s = t
    BY DEF IInv, Panics, Counted, OneEntry
  <2> QED
    BY <2>1, <2>2, <2>3, <2>4, TypesBounded DEF InUseIsAllocated
<1>2. CrashConsistent
  <2> SUFFICES ASSUME NEW i \in Inums
               PROVE  /\ committed.nlink[i] = Cardinality(NamesOf(committed, i))
                      /\ committed.type[i] = 0 => NamesOf(committed, i) = {}
    BY DEF CrashConsistent, NamesOf
  <2>1. IsFiniteSet(NamesOf(committed, i))
    BY ItableAssumption DEF Counting, NamesOf
  <2>2. /\ committed.nlink[i] = Cardinality(NamesOf(committed, i))
        /\ committed.type[i] = 0 => committed.nlink[i] = 0
    BY DEF IInv, Consistent
  <2> HIDE DEF NamesOf
  <2> QED
    BY <2>1, <2>2 DEF Counting
<1>3. ReclaimIsComplete
  BY DEF ReclaimIsComplete, At, IInv, Boot, Booting, Reclaiming
<1> QED
  BY <1>1, <1>2, <1>3

-----------------------------------------------------------------------------
\* No system call is under way and no file is open.
Still ==
  /\ Types /\ Bounded /\ Consistent /\ Boot /\ Panics /\ outstanding = 0
  /\ \A p \in Procs : pr[p].pc \in {"off", "idle", "ireclaim"} /\ file[p] = 0
  /\ \A s \in Slots : inode[s].ref = 0 /\ inode[s].lock = NoProc
  /\ \A i \in Inums : /\ disk.nlink[i] = Cardinality(NamesOf(disk, i))
                      /\ disk.type[i] = 0 => disk.nlink[i] = 0

LEMMA StillHolds == Counting /\ Still => IInv
<1> SUFFICES ASSUME Counting, Still PROVE IInv
  OBVIOUS
<1> /\ Types /\ Bounded /\ Consistent /\ Boot /\ Panics /\ outstanding = 0
    /\ \A p \in Procs : pr[p].pc \in {"off", "idle", "ireclaim"} /\ file[p] = 0
    /\ \A s \in Slots : inode[s].ref = 0 /\ inode[s].lock = NoProc
    /\ \A i \in Inums : /\ disk.nlink[i] = Cardinality(NamesOf(disk, i))
                        /\ disk.type[i] = 0 => disk.nlink[i] = 0
  BY DEF Still
<1> \A p \in Procs : /\ pr[p].pc \notin Using /\ pr[p].pc \notin Locking /\ pr[p].pc \notin Creating \union {"ialloc"}
                     /\ pr[p].pc \notin Ahead /\ pr[p].pc \notin Creating
                     /\ pr[p].pc \notin {"iget", "lookup", "ilock", "unlink", "itrunc"}
  BY DEF Using, Locking, Creating, Ahead
<1>3. \A s \in Slots : ~(inode[s].ref > 0)
  BY SMT
<1>4. Pointers /\ OneEntry
  BY <1>3 DEF Pointers, OneEntry
<1>5. Locks
  BY DEF Locks
<1>6. Dir /\ Fresh
  BY DEF Dir, Fresh
<1>7. Allocated /\ Alone
  BY DEF Allocated, Alone
<1>8. Agree
  BY <1>3 DEF Agree
<1>9. Counted
  <2> SUFFICES ASSUME NEW s \in Slots PROVE inode[s].ref = Cardinality(Users(s)) + Cardinality(Files(s))
    BY DEF Counted
  <2>0. s # 0 /\ pr \in [Procs -> Calls]
    BY SMT DEF Slots, Types
  <2>1. Users(s) = {p \in Procs : pr[p].pc \in Using /\ pr[p].ip = s}
    BY <2>0, UsersAre
  <2>2. Users(s) = {}
    BY <2>1
  <2>3. Files(s) = {}
    BY <2>0 DEF Files
  <2>4. inode[s].ref = 0
    OBVIOUS
  <2> QED
    BY <2>2, <2>3, <2>4, SMT DEF Counting
<1>10. Linked
  <2> SUFFICES ASSUME NEW i \in Inums PROVE disk.nlink[i] = Cardinality(NamesOf(disk, i)) + Cardinality(Pending(i))
    BY DEF Linked
  <2>1. Pending(i) = {}
    BY DEF Pending
  <2>2. disk.nlink[i] = Cardinality(NamesOf(disk, i))
    OBVIOUS
  <2>3. disk.nlink[i] \in Nat
    BY DEF Types, Dinodes
  <2> QED
    BY <2>1, <2>2, <2>3, SMT DEF Counting
<1>11. FreeUnlinked
  BY DEF FreeUnlinked
<1>12. Outstanding
  <2>1. Active = {}
    BY DEF Active
  <2> QED
    BY <2>1 DEF Counting, Outstanding
<1> QED
  BY <1>4, <1>5, <1>6, <1>7, <1>8, <1>9, <1>10, <1>11, <1>12 DEF IInv

LEMMA StillHoldsNext == (Counting /\ Still => IInv)'
  BY StillHolds, PTL

LEMMA NameIsName == NoName \in Names
  BY ItableAssumption DEF NoName

\* The memory after a boot
LEMMA BootMemory ==
  /\ FreeInode \in Cached /\ FreeInode.ref = 0 /\ FreeInode.lock = NoProc /\ FreeInode.nlink = 0
  /\ \A l : /\ l \in {"off", "idle", "ireclaim"} => Idle(l) \in Calls
            /\ Idle(l).pc = l /\ Idle(l).op = "none"
<1>1. FreeInode \in Cached /\ FreeInode.ref = 0 /\ FreeInode.lock = NoProc /\ FreeInode.nlink = 0
  BY DEF FreeInode, Cached
<1>2. 1 \in Slots \union Inums
  BY ItableAssumption, SMT DEF Slots, Inums
<1> ASSUME NEW l \in {"off", "idle", "ireclaim"} PROVE Idle(l) \in Calls
  BY <1>2, NameIsName DEF Idle, Calls
<1>4. \A l : Idle(l).pc = l /\ Idle(l).op = "none"
  BY DEF Idle
<1> QED
  BY <1>1, <1>4

LEMMA InitHolds ==
  ASSUME Counting, Init
  PROVE  IInv
<1> SUFFICES Still
  BY StillHolds
<1> /\ committed = disk /\ outstanding = 0 /\ inode = [s \in Slots |-> FreeInode] /\ dlock = NoProc
    /\ pr = [p \in Procs |-> Idle(IF p = First THEN "ireclaim" ELSE "off")]
    /\ file = [p \in Procs |-> 0] /\ scan = 1 /\ panicked = 0
  BY DEF Init
<1>2. /\ disk = [type |-> [i \in Inums |-> 0], nlink |-> [i \in Inums |-> 0], entry |-> [nm \in Names |-> 0]]
  BY DEF Init
<1> disk \in Dinodes /\ \A i \in Inums : disk.nlink[i] = 0 /\ NamesOf(disk, i) = {}
  <2>1. disk \in Dinodes
    BY <1>2 DEF Dinodes
  <2>2. \A i \in Inums : disk.nlink[i] = 0
    BY <1>2
  <2>3. \A nm \in Names : disk.entry[nm] = 0
    BY <1>2
  <2>4. \A i \in Inums : i # 0
    BY SMT DEF Inums
  <2>5. \A i \in Inums : NamesOf(disk, i) = {}
    BY <2>3, <2>4 DEF NamesOf
  <2> QED
    BY <2>1, <2>2, <2>5
<1>4. \A i \in Inums : disk.nlink[i] = Cardinality(NamesOf(disk, i))
  BY DEF Counting
<1>5. Consistent
  BY <1>4 DEF Consistent
<1> /\ \A p \in Procs : pr[p] = Idle(IF p = First THEN "ireclaim" ELSE "off")
    /\ \A p \in Procs : file[p] = 0
    /\ \A s \in Slots : inode[s] = FreeInode
  OBVIOUS
<1>7. \A p \in Procs : pr[p].pc \in {"off", "idle", "ireclaim"} /\ pr[p].op = "none" /\ (p # First => pr[p].pc = "off")
                       /\ (p = First => pr[p].pc = "ireclaim")
  BY BootMemory
<1>8. Types
  <2>1. pr \in [Procs -> Calls]
    <3>1. \A p \in Procs : Idle(IF p = First THEN "ireclaim" ELSE "off") \in Calls
      BY BootMemory
    <3> QED
      BY <3>1
  <2>2. inode \in [Slots -> Cached] /\ file \in [Procs -> {0} \union Slots]
    BY BootMemory
  <2>3. scan \in 1..NINUM + 1 /\ outstanding \in Nat /\ panicked \in {0, 1, NoInodes} /\ dlock \in Procs \union {NoProc}
    BY ItableAssumption, SMT
  <2> QED
    BY <2>1, <2>2, <2>3 DEF Types
<1>9. Bounded
  <2>1. 0 <= Cardinality(Names) + Cardinality(Procs)
    BY ItableAssumption, SMT DEF Counting
  <2> QED
    BY <2>1, BootMemory DEF Bounded
<1>10. Boot
  <2>1. First \in Procs /\ \A i \in 1..scan - 1 : ~Orphan(i)
    BY ItableAssumption, SMT
  <2> QED
    BY <1>7, <2>1 DEF Boot, Reclaiming
<1>11. Panics
  BY SMT DEF Panics, NoInodes
<1> QED
  BY <1>4, <1>5, <1>7, <1>8, <1>9, <1>10, <1>11, BootMemory DEF Still

LEMMA crashKeeps ==
  ASSUME Counting, IInv, panicked = 0, crash
  PROVE  IInv'
<1> SUFFICES Still'
  BY StillHoldsNext
<1> /\ disk' = committed /\ outstanding' = 0 /\ inode' = [s \in Slots |-> FreeInode] /\ dlock' = NoProc
    /\ pr' = [p \in Procs |-> Idle(IF p = First THEN "ireclaim" ELSE "off")]
    /\ file' = [p \in Procs |-> 0] /\ scan' = 1 /\ panicked' = 0 /\ committed' = committed
  BY DEF crash
<1>2. Consistent /\ committed \in Dinodes
  BY DEF IInv, Types
<1>3. \A i \in Inums : /\ disk'.nlink[i] = Cardinality(NamesOf(disk', i))
                       /\ disk'.type[i] = 0 => disk'.nlink[i] = 0
  BY <1>2 DEF Consistent
<1>4. Consistent'
  BY <1>2 DEF Consistent, NamesOf
<1> /\ \A p \in Procs : pr'[p] = Idle(IF p = First THEN "ireclaim" ELSE "off")
    /\ \A p \in Procs : file'[p] = 0
    /\ \A s \in Slots : inode'[s] = FreeInode
  OBVIOUS
<1>7. \A p \in Procs : pr'[p].pc \in {"off", "idle", "ireclaim"} /\ pr'[p].op = "none" /\ (p # First => pr'[p].pc = "off")
                       /\ (p = First => pr'[p].pc = "ireclaim")
  BY BootMemory
<1>8. Types'
  <2>1. pr' \in [Procs -> Calls]
    <3>1. \A p \in Procs : Idle(IF p = First THEN "ireclaim" ELSE "off") \in Calls
      BY BootMemory
    <3> QED
      BY <3>1
  <2>2. inode' \in [Slots -> Cached] /\ file' \in [Procs -> {0} \union Slots]
    BY BootMemory
  <2>3. scan' \in 1..NINUM + 1 /\ outstanding' \in Nat /\ panicked' \in {0, 1, NoInodes} /\ dlock' \in Procs \union {NoProc}
    BY ItableAssumption, SMT
  <2> QED
    BY <1>2, <2>1, <2>2, <2>3 DEF Types
<1>9. Bounded'
  <2>1. 0 <= Cardinality(Names) + Cardinality(Procs)
    BY ItableAssumption, SMT DEF Counting
  <2> QED
    BY <2>1, BootMemory DEF Bounded
<1>10. Boot'
  <2>1. First \in Procs /\ \A i \in 1..scan' - 1 : ~Orphan(i)'
    BY ItableAssumption, SMT
  <2>2. /\ \A p \in Procs \ {First} : pr'[p].pc \notin Reclaiming /\ pr'[p].op # "ireclaim"
        /\ pr'[First].op # "ireclaim" /\ pr'[First].pc = "ireclaim"
    BY <1>7, <2>1 DEF Reclaiming
  <2> QED
    BY <1>7, <2>1, <2>2 DEF Boot
<1>11. Panics'
  BY SMT DEF Panics, NoInodes
<1> QED
  BY <1>3, <1>4, <1>7, <1>8, <1>9, <1>10, <1>11, BootMemory DEF Still, NamesOf

\* While ireclaim() looks for the next inode the table is empty.
LEMMA TableEmpty ==
  ASSUME Counting, IInv, NEW p \in Procs, pr[p].pc = "ireclaim"
  PROVE  /\ p = First /\ Booting
         /\ \A q \in Procs : /\ pr[q].pc \in {"off", "ireclaim"} /\ file[q] = 0
                             /\ pr[q].pc \notin Using /\ pr[q].pc \notin Locking /\ pr[q].pc \notin Ahead
         /\ \A s \in Slots : inode[s].ref = 0 /\ inode[s].lock = NoProc
<1>2. p = First /\ Booting
  BY DEF IInv, Boot, Booting, Reclaiming
<1> \A q \in Procs : pr[q].pc \in {"off", "ireclaim"} /\ file[q] = 0
  BY <1>2 DEF IInv, Boot
<1>4. \A q \in Procs : pr[q].pc \notin Using /\ pr[q].pc \notin Locking /\ pr[q].pc \notin Ahead
  BY DEF Using, Locking, Ahead
<1>5. \A s \in Slots : inode[s].ref = 0 /\ inode[s].lock = NoProc
  <2> SUFFICES ASSUME NEW s \in Slots PROVE inode[s].ref = 0 /\ inode[s].lock = NoProc
    OBVIOUS
  <2>0. s # 0 /\ pr \in [Procs -> Calls] /\ inode[s].lock \in Procs \union {NoProc}
    BY SMT DEF Slots, IInv, Types, Cached
  <2>1. Users(s) = {q \in Procs : pr[q].pc \in Using /\ pr[q].ip = s}
    BY <2>0, UsersAre
  <2>2. Users(s) = {}
    BY <1>4, <2>1
  <2>3. Files(s) = {}
    BY <2>0 DEF Files
  <2>4. inode[s].ref = 0 + 0
    <3>1. Cardinality(Users(s)) = 0 /\ Cardinality(Files(s)) = 0
      BY <2>2, <2>3 DEF Counting
    <3> QED
      BY <3>1 DEF IInv, Counted
  <2>5. inode[s].lock = NoProc
    BY <1>4, <2>0 DEF IInv, Locks
  <2>6. 0 + 0 = 0
    BY SMT
  <2> QED
    BY <2>4, <2>5, <2>6
<1> QED
  BY <1>2, <1>4, <1>5

LEMMA ireclaim_returnKeeps ==
  ASSUME Counting, IInv, panicked = 0, NEW p \in Procs, ireclaim_return(p)
  PROVE  IInv'
<1> SUFFICES Still'
  BY StillHoldsNext
<1> /\ pr[p].pc = "ireclaim" /\ pr' = [q \in Procs |-> Idle("idle")] /\ scan' = 1 /\ disk' = disk
    /\ committed' = committed /\ outstanding' = outstanding /\ inode' = inode /\ dlock' = dlock
    /\ file' = file /\ panicked' = 0
  BY DEF ireclaim_return, At
<1>e. /\ \A q \in Procs : pr[q].pc \in {"off", "ireclaim"} /\ file[q] = 0 /\ pr[q].pc \notin Ahead
      /\ \A s \in Slots : inode[s].ref = 0 /\ inode[s].lock = NoProc
  BY TableEmpty
<1>6. \A i \in Inums : /\ disk.nlink[i] = Cardinality(NamesOf(disk, i))
                       /\ disk.type[i] = 0 => disk.nlink[i] = 0
  <2> SUFFICES ASSUME NEW i \in Inums PROVE disk.nlink[i] = Cardinality(NamesOf(disk, i))
    BY DEF IInv, FreeUnlinked
  <2>1. Pending(i) = {}
    BY <1>e DEF Pending
  <2>2. disk.nlink[i] = Cardinality(NamesOf(disk, i)) + Cardinality(Pending(i))
    BY DEF IInv, Linked
  <2>3. Cardinality(NamesOf(disk, i)) \in Nat
    BY ItableAssumption DEF Counting, NamesOf
  <2> QED
    BY <2>1, <2>2, <2>3, SMT DEF Counting
<1>7. outstanding = 0
  <2>1. Active = {}
    BY <1>e DEF Active
  <2> QED
    BY <2>1 DEF Counting, IInv, Outstanding
<1>8. \A q \in Procs : pr'[q] = Idle("idle")
  OBVIOUS
<1>9. \A q \in Procs : pr'[q].pc = "idle" /\ pr'[q].op = "none" /\ pr'[q] \in Calls
  BY <1>8, BootMemory
<1>10. Types'
  <2>1. pr' \in [Procs -> Calls]
    BY <1>8, <1>9
  <2>2. scan' \in 1..NINUM + 1
    BY ItableAssumption, SMT
  <2> QED
    BY <2>1, <2>2 DEF IInv, Types
<1>11. Bounded' /\ Consistent' /\ Panics'
  BY SMT DEF IInv, Bounded, Consistent, NamesOf, Panics, NoInodes
<1>12. Boot'
  BY <1>9, ItableAssumption DEF Boot, Booting, Reclaiming
<1> QED
  BY <1>e, <1>6, <1>7, <1>9, <1>10, <1>11, <1>12 DEF Still, NamesOf

-----------------------------------------------------------------------------
Bit(b) == IF b THEN 1 ELSE 0

\* Two sets that differ in one element at most
LEMMA CountStep ==
  ASSUME Counting, NEW S, NEW T, NEW p, IsFiniteSet(S), \A q : q # p => (q \in S <=> q \in T)
  PROVE  /\ IsFiniteSet(T) /\ Cardinality(S) \in Nat /\ Cardinality(T) \in Nat
         /\ Cardinality(T) + Bit(p \in S) = Cardinality(S) + Bit(p \in T)
<1> Cardinality(S) \in Nat
  BY DEF Counting
<1> CASE p \in S /\ p \in T
  <2>1. S = T
    BY SMT
  <2> QED
    BY <2>1 DEF Bit
<1> CASE p \notin S /\ p \notin T
  <2>1. S = T
    BY SMT
  <2> QED
    BY <2>1 DEF Bit
<1> CASE p \notin S /\ p \in T
  <2>1. T = S \union {p}
    OBVIOUS
  <2>2. IsFiniteSet(T) /\ Cardinality(T) = Cardinality(S) + 1
    BY <2>1 DEF Counting
  <2> QED
    BY <2>2, SMT DEF Bit
<1> CASE p \in S /\ p \notin T
  <2>1. T = S \ {p}
    OBVIOUS
  <2>2. IsFiniteSet(T) /\ Cardinality(T) = Cardinality(S) - 1
    BY <2>1 DEF Counting
  <2>3. Cardinality(T) \in Nat
    BY <2>2 DEF Counting
  <2> QED
    BY <2>2, <2>3, SMT DEF Bit
<1> QED
  OBVIOUS

\* One reference less, and one pointer less
LEMMA OneLess == \A r \in Nat, b \in {0, 1} : r - 1 + (1 + b) = r + (0 + b)
  BY SMT

Level(m, a, n, b) == m + a = n + b

LEMMA AddBoth ==
  \A m, n \in Nat, a, b, e \in {0, 1} : Level(m, a, n, b) => Level(m, e + a, n, e + b)
  BY SMT DEF Level

LEMMA BitInt == \A b \in {0, 1} : b \in Int
  BY SMT

LEMMA BitType == \A b : Bit(b) \in {0, 1}
  BY DEF Bit

\* A count r of u and f, of which a and b are p's
Balanced(r, u, f, a, b, r1, u1, f1, a1, b1) ==
  /\ r \in Int /\ u \in Int /\ f \in Int /\ a \in Int /\ b \in Int
  /\ r1 \in Int /\ u1 \in Int /\ f1 \in Int /\ a1 \in Int /\ b1 \in Int
  /\ u1 + a = u + a1 /\ f1 + b = f + b1 /\ r1 + (a + b) = r + (a1 + b1) /\ r = u + f

LEMMA Balance ==
  ASSUME NEW r, NEW u, NEW f, NEW a, NEW b, NEW r1, NEW u1, NEW f1, NEW a1, NEW b1,
         Balanced(r, u, f, a, b, r1, u1, f1, a1, b1)
  PROVE  r1 = u1 + f1
  BY SMT DEF Balanced

\* Who has a pointer to an entry keeps it in the table.
LEMMA Referenced ==
  ASSUME Counting, IInv
  PROVE  /\ \A p \in Procs : pr[p].pc \in Using => /\ pr[p].ip \in Slots /\ inode[pr[p].ip].ref > 0
                                                   /\ Inum(p) \in Inums
         /\ \A p \in Procs : file[p] # 0 => /\ file[p] \in Slots /\ inode[file[p]].ref > 0
                                            /\ inode[file[p]].inum \in Inums
<1>0. pr \in [Procs -> Calls] /\ file \in [Procs -> {0} \union Slots]
  BY DEF IInv, Types
<1>1. \A s : IsFiniteSet(Users(s)) /\ IsFiniteSet(Files(s))
  BY ItableAssumption DEF Counting, Users, Files
<1>2. \A s : Cardinality(Users(s)) \in Nat /\ Cardinality(Files(s)) \in Nat
  BY <1>1 DEF Counting
<1>c. \A s \in Slots : inode[s].ref = Cardinality(Users(s)) + Cardinality(Files(s))
  BY DEF IInv, Counted
<1> ASSUME NEW p \in Procs, pr[p].pc \in Using PROVE pr[p].ip \in Slots /\ inode[pr[p].ip].ref > 0
  <2>1. pr[p].ip \in Slots
    BY DEF IInv, Pointers
  <2>2. p \in Users(pr[p].ip)
    BY <1>0, UsersAre
  <2>3. Cardinality(Users(pr[p].ip)) > 0
    BY <2>2, <1>1, Occupied
  <2> QED
    BY <2>1, <2>3, <1>2, <1>c, SMT
<1> ASSUME NEW p \in Procs, file[p] # 0 PROVE file[p] \in Slots /\ inode[file[p]].ref > 0
  <2>1. file[p] \in Slots
    BY <1>0
  <2>2. p \in Files(file[p])
    BY DEF Files
  <2>3. Cardinality(Files(file[p])) > 0
    BY <2>2, <1>1, Occupied
  <2> QED
    BY <2>1, <2>3, <1>2, <1>c, SMT
<1>5. \A s \in Slots : inode[s].ref > 0 => inode[s].inum \in Inums
  BY DEF IInv, Pointers
<1> QED
  BY <1>5 DEF Inum

LEMMA LinksBoundedNow == Counting /\ Linked => \A i \in Inums : disk.nlink[i] <= Cardinality(Names) + Cardinality(Procs)
  BY LinksBounded

LEMMA LinksBoundedNext ==
  (Counting /\ Linked => \A i \in Inums : disk.nlink[i] <= Cardinality(Names) + Cardinality(Procs))'
  BY LinksBoundedNow, PTL

-----------------------------------------------------------------------------
(***************************************************************************)
(* A step is one of process p, on entry s and on dinode i, and may change  *)
(* one name nm.  For each part of the invariant there is what the step     *)
(* must see to itself; then the rest is as it was.                         *)
(***************************************************************************)
Others(p, s) ==
  /\ \A q \in Procs : q # p => pr'[q] = pr[q]
  /\ \A q \in Procs : q # p => file'[q] = file[q]
  /\ \A t \in Slots : t # s => inode'[t] = inode[t]
  /\ inode[s].ref = 0 \/ inode'[s].inum = inode[s].inum

SameDinode(i) == disk'.type[i] = disk.type[i] /\ disk'.nlink[i] = disk.nlink[i]

\* Where p's pointers were and are.
Held(p) == pr[p].pc \in Using \ Leaving

LEMMA InumsStay ==
  ASSUME Counting, IInv, NEW p \in Procs, NEW s \in Slots, Others(p, s)
  PROVE  /\ \A q \in Procs : pr[q].pc \in Using => inode'[pr[q].ip].inum = Inum(q)
         /\ \A q \in Procs : file[q] # 0 => inode'[file[q]].inum = inode[file[q]].inum
         /\ \A q \in Procs : q # p /\ pr[q].pc \in Using => Inum(q)' = Inum(q)
         /\ \A q \in Procs : q # p => (pr[q].pc \in Creating => NewInum(q)' = NewInum(q))
<1>1. \A t \in Slots : inode[t].ref > 0 => inode'[t].inum = inode[t].inum
  BY SMT DEF Others
<1>2. \A q \in Procs : pr[q].pc \in Using => inode'[pr[q].ip].inum = Inum(q)
  BY <1>1, Referenced DEF Inum
<1>3. \A q \in Procs : file[q] # 0 => inode'[file[q]].inum = inode[file[q]].inum
  BY <1>1, Referenced
<1>4. \A q \in Procs : q # p /\ pr[q].pc \in Using => Inum(q)' = Inum(q)
  BY <1>2 DEF Inum, Others
<1>5. \A q \in Procs : pr[q].pc \in Creating => pr[q].pc = "iget" \/ pr[q].pc \in Using
  BY DEF Creating, Using
<1>6. \A q \in Procs : q # p => (pr[q].pc \in Creating => NewInum(q)' = NewInum(q))
  BY <1>4, <1>5 DEF NewInum, Others
<1> QED
  BY <1>2, <1>3, <1>4, <1>6

PointersHere(p, s) ==
  /\ pr'[p].pc \in Using => pr'[p].ip \in Slots
  /\ pr'[p].pc = "iget" => pr'[p].ip \in Inums
  /\ inode'[s].ref > 0 => inode'[s].inum \in Inums
  /\ pr'[p].pc \in {"lookup", "ilock"} => pr'[p].op \in {"open", "create", "link", "unlink"}

OneEntryHere(s) ==
  inode'[s].ref > 0 => \A t \in Slots : t # s /\ inode[t].ref > 0 => inode[t].inum # inode'[s].inum

LocksHere(p, s) ==
  /\ pr[p].pc \in Locking => pr[p].ip = s
  /\ pr'[p].pc \in Locking => pr'[p].ip = s /\ inode'[s].lock = p /\ inode'[s].valid = 1
  /\ inode[s].lock \notin {p, NoProc} => inode'[s].lock = inode[s].lock /\ inode'[s].valid = inode[s].valid
  /\ inode[s].lock \in {p, NoProc} =>
       inode'[s].lock = NoProc \/ (inode'[s].lock = p /\ pr'[p].pc \in Locking)

DirHere(p) ==
  /\ dlock \notin {p, NoProc} => dlock' = dlock /\ disk'.entry = disk.entry
  /\ pr'[p].pc \in Creating \union {"ialloc"} => dlock' = p /\ disk'.entry[pr'[p].name] = 0
  /\ pr'[p].pc = "unlink" \/ (pr'[p].pc = "ilock" /\ pr'[p].op = "unlink") =>
       dlock' = p /\ disk'.entry[pr'[p].name] = inode'[pr'[p].ip].inum

AllocatedHere(p, i) ==
  /\ pr'[p].pc \in Using \ Leaving => disk'.type[inode'[pr'[p].ip].inum] = 1
  /\ file'[p] # 0 => disk'.type[inode'[file'[p]].inum] = 1
  /\ \/ disk'.type[i] = 1
     \/ disk'.type[i] = disk.type[i]
     \/ \A q \in Procs : q # p => (Held(q) => Inum(q) # i) /\ (file[q] # 0 => inode[file[q]].inum # i)

FreshFor(p) ==
  LET i == IF pr'[p].pc = "iget" THEN pr'[p].ip ELSE inode'[pr'[p].ip].inum
  IN /\ disk'.type[i] = 1
     /\ disk'.nlink[i] = IF pr'[p].pc = "create_dirlink" THEN 1 ELSE 0
     /\ \A q \in Procs : q # p /\ Held(q) => Inum(q) # i
     /\ \A q \in Procs : q # p /\ file[q] # 0 => inode[file[q]].inum # i
     /\ file'[p] # 0 => inode'[file'[p]].inum # i

FreshHere(p, i) ==
  /\ pr'[p].pc \in Creating => FreshFor(p)
  /\ \A q \in Procs : q # p /\ pr[q].pc \in Creating =>
       /\ NewInum(q) # i \/ SameDinode(i)
       /\ pr'[p].pc \in Using \ Leaving => inode'[pr'[p].ip].inum # NewInum(q)
       /\ file'[p] # 0 => inode'[file'[p]].inum # NewInum(q)

AloneFor(p) ==
  /\ disk'.nlink[inode'[pr'[p].ip].inum] = 0 /\ inode'[pr'[p].ip].nlink = 0
  /\ \A q \in Procs : q # p /\ pr[q].pc \in Using => pr[q].ip # pr'[p].ip
  /\ \A q \in Procs : q # p => file[q] # pr'[p].ip
  /\ file'[p] # pr'[p].ip

AloneHere(p, s, i) ==
  /\ pr'[p].pc = "itrunc" => AloneFor(p)
  /\ \A q \in Procs : q # p /\ pr[q].pc = "itrunc" =>
       /\ Inum(q) # i \/ SameDinode(i)
       /\ pr[q].ip # s \/ inode'[s].nlink = inode[s].nlink
       /\ pr'[p].pc \in Using => pr'[p].ip # pr[q].ip
       /\ file'[p] # pr[q].ip

AgreeHere(p, s, i) ==
  /\ pr[p].pc \in Locking => pr[p].ip = s
  /\ inode'[s].ref > 0 /\ inode'[s].valid = 1 =>
       \/ inode'[s].lock # NoProc /\ pr'[inode'[s].lock].pc = "freed"
       \/ /\ disk'.type[inode'[s].inum] = 1 /\ inode'[s].type = 1
          /\ inode'[s].nlink = disk'.nlink[inode'[s].inum]
  /\ \A t \in Slots : t # s /\ inode[t].ref > 0 /\ inode[t].valid = 1 /\ inode[t].inum = i =>
       Freeing(t) \/ SameDinode(i)

BootHere(p) ==
  /\ ~Booting
  /\ pr'[p].pc \notin Reclaiming /\ pr'[p].op # "ireclaim"

LEMMA BootMove ==
  ASSUME Boot, NEW p \in Procs, NEW s \in Slots, Others(p, s), BootHere(p)
  PROVE  Boot'
<1>1. \A q \in Procs : q # p => pr'[q] = pr[q]
  BY DEF Others
<1>2. \A q \in Procs : pr[q].pc \notin Reclaiming /\ pr[q].op # "ireclaim"
  BY DEF Boot, Booting, BootHere
<1>3. \A q \in Procs : pr'[q].pc \notin Reclaiming /\ pr'[q].op # "ireclaim"
  BY <1>1, <1>2 DEF BootHere
<1>4. First \in Procs
  BY ItableAssumption
<1> QED
  BY <1>3, <1>4 DEF Boot, Booting

BoundedHere(s) ==
  inode'[s].nlink = inode[s].nlink \/ \E j \in Inums : inode'[s].nlink = disk'.nlink[j]

Points(p, s) ==
  Bit(pr[p].pc \in Using /\ pr[p].ip = s) + Bit(file[p] = s)

CountedHere(p) == \A t \in Slots : inode'[t].ref + Points(p, t) = inode[t].ref + Points(p, t)'

Owes(p, nm, i) == Bit(disk.entry[nm] = i) + Bit(pr[p].pc \in Ahead /\ Inum(p) = i)

LinkedHere(p, nm) ==
  /\ \A n \in Names : n # nm => disk'.entry[n] = disk.entry[n]
  /\ \A j \in Inums : disk'.nlink[j] + Owes(p, nm, j) = disk.nlink[j] + Owes(p, nm, j)'

Busy(p) == pr[p].pc \notin {"off", "idle", "ireclaim"}

OutstandingHere(p) == outstanding' + Bit(Busy(p)) = outstanding + Bit(Busy(p)')

FreeHere(i) == disk'.type[i] = 0 => disk'.nlink[i] = 0

LEMMA Moved ==
  ASSUME Counting, IInv, Types', NEW p \in Procs, NEW s \in Slots, NEW i, NEW nm \in Names,
         Others(p, s), Touches(i), BoundedHere(s), PointersHere(p, s), CountedHere(p),
         OneEntryHere(s), LocksHere(p, s), DirHere(p), FreshHere(p, i), AllocatedHere(p, i),
         AloneHere(p, s, i), AgreeHere(p, s, i), LinkedHere(p, nm), FreeHere(i),
         OutstandingHere(p), Consistent', Boot', Panics'
  PROVE  IInv'
<1> /\ Types /\ Bounded /\ Pointers /\ Counted /\ OneEntry /\ Locks
    /\ Linked /\ FreeUnlinked /\ Outstanding
  BY DEF IInv
<1> /\ pr \in [Procs -> Calls] /\ pr' \in [Procs -> Calls]
    /\ inode \in [Slots -> Cached] /\ inode' \in [Slots -> Cached]
    /\ disk \in Dinodes /\ disk' \in Dinodes /\ outstanding \in Nat /\ outstanding' \in Int
  BY SMT DEF Types
<1> /\ \A q \in Procs : q # p => pr'[q] = pr[q]
    /\ \A q \in Procs : q # p => pr'[q] = pr[q] /\ file'[q] = file[q]
  BY DEF Others
<1>1. Pointers'
  <2>1. \A q \in Procs : pr'[q].pc \in Using => pr'[q].ip \in Slots
    BY DEF Pointers, Others, PointersHere
  <2>2. \A q \in Procs : pr'[q].pc = "iget" => pr'[q].ip \in Inums
    BY DEF Pointers, Others, PointersHere
  <2>3. \A t \in Slots : inode'[t].ref > 0 => inode'[t].inum \in Inums
    BY DEF Pointers, Others, PointersHere
  <2>4. \A q \in Procs : pr'[q].pc \in {"lookup", "ilock"} => pr'[q].op \in {"open", "create", "link", "unlink"}
    BY DEF Pointers, Others, PointersHere
  <2> QED
    BY <2>1, <2>2, <2>3, <2>4 DEF Pointers
<1>2. Counted'
  <2> SUFFICES ASSUME NEW u \in Slots
               PROVE  inode'[u].ref = Cardinality(Users(u)') + Cardinality(Files(u)')
    BY DEF Counted
  <2>0. Users(u) = {q \in Procs : pr[q].pc \in Using /\ pr[q].ip = u}
    BY UsersAre
  <2>1. Users(u)' = {q \in Procs : pr'[q].pc \in Using /\ pr'[q].ip = u}
    <3>1. \A q \in Procs : pr'[q].pc \in Using <=>
           pr'[q].pc \notin {"off", "idle", "lookup", "ialloc", "iget", "end_op", "ireclaim"}
      BY DEF Calls, Using
    <3> QED
      BY <3>1 DEF Users
  <2>2. IsFiniteSet(Users(u)) /\ IsFiniteSet(Files(u))
    BY ItableAssumption DEF Counting, Users, Files
  <2>3. /\ Cardinality(Users(u)) \in Nat /\ Cardinality(Users(u)') \in Nat
        /\ Cardinality(Users(u)') + Bit(p \in Users(u))
             = Cardinality(Users(u)) + Bit(p \in Users(u)')
    <3>1. \A q : q # p => (q \in Users(u) <=> q \in Users(u)')
      BY <2>0, <2>1
    <3> HIDE DEF Users
    <3> QED
      BY <2>2, <3>1, CountStep
  <2>4. /\ Cardinality(Files(u)) \in Nat /\ Cardinality(Files(u)') \in Nat
        /\ Cardinality(Files(u)') + Bit(p \in Files(u))
             = Cardinality(Files(u)) + Bit(p \in Files(u)')
    <3>1. \A q : q # p => (q \in Files(u) <=> q \in Files(u)')
      BY DEF Files
    <3> HIDE DEF Files
    <3> QED
      BY <2>2, <3>1, CountStep
  <2>5. Points(p, u) = Bit(p \in Users(u)) + Bit(p \in Files(u))
    BY <2>0 DEF Points, Files, Bit
  <2>6. Points(p, u)' = Bit(p \in Users(u)') + Bit(p \in Files(u)')
    BY <2>1 DEF Points, Files, Bit
  <2>7. inode[u].ref = Cardinality(Users(u)) + Cardinality(Files(u)) /\ inode'[u].ref \in Nat
    BY DEF Counted, Cached
  <2>8. inode'[u].ref + Points(p, u) = inode[u].ref + Points(p, u)'
    BY DEF CountedHere
  <2>9. /\ Bit(p \in Users(u)) \in Int /\ Bit(p \in Users(u)') \in Int
        /\ Bit(p \in Files(u)) \in Int /\ Bit(p \in Files(u)') \in Int
    BY BitType, BitInt
  <2>10. inode'[u].ref + (Bit(p \in Users(u)) + Bit(p \in Files(u)))
           = inode[u].ref + (Bit(p \in Users(u)') + Bit(p \in Files(u)'))
    BY <2>5, <2>6, <2>8
  <2>11. inode[u].ref \in Nat
    BY DEF Cached
  <2> DEFINE m == Cardinality(Users(u))
             m1 == Cardinality(Users(u)')
             f == Cardinality(Files(u))
             f1 == Cardinality(Files(u)')
  <2>12. /\ m \in Nat /\ m1 \in Nat /\ f \in Nat /\ f1 \in Nat /\ inode[u].ref = m + f
         /\ m1 + Bit(p \in Users(u)) = m + Bit(p \in Users(u)')
         /\ f1 + Bit(p \in Files(u)) = f + Bit(p \in Files(u)')
    BY <2>3, <2>4, <2>7
  <2> HIDE DEF m, m1, f, f1
  <2>13. /\ m \in Int /\ m1 \in Int /\ f \in Int /\ f1 \in Int
         /\ inode[u].ref \in Int /\ inode'[u].ref \in Int
    BY <2>7, <2>11, <2>12, NatInt
  <2>14. Balanced(inode[u].ref, m, f, Bit(p \in Users(u)), Bit(p \in Files(u)),
                  inode'[u].ref, m1, f1, Bit(p \in Users(u)'), Bit(p \in Files(u)'))
    BY <2>9, <2>10, <2>12, <2>13 DEF Balanced
  <2>15. inode'[u].ref = m1 + f1
    BY <2>14, Balance
  <2> QED
    BY <2>15 DEF m1, f1
<1>3. OneEntry'
  <2> SUFFICES ASSUME NEW t \in Slots, NEW u \in Slots, inode'[t].ref > 0, inode'[u].ref > 0,
                      inode'[t].inum = inode'[u].inum
               PROVE  t = u
    BY DEF OneEntry
  <2> CASE t = s
    BY DEF Others, OneEntryHere
  <2> CASE u = s
    BY DEF Others, OneEntryHere
  <2> CASE t # s /\ u # s
    BY DEF Others, OneEntry
  <2> QED
    OBVIOUS
<1>4. Locks'
  <2>0. \A q \in Procs : pr[q].pc \in Locking => inode[pr[q].ip].lock = q /\ inode[pr[q].ip].valid = 1
    BY DEF Locks
  <2> ASSUME NEW q \in Procs, pr'[q].pc \in Locking
      PROVE  inode'[pr'[q].ip].lock = q /\ inode'[pr'[q].ip].valid = 1
    <3> CASE q = p
      BY DEF LocksHere
    <3> CASE q # p
      <4>1. pr'[q] = pr[q] /\ pr[q].ip \in Slots /\ inode[pr[q].ip].lock = q /\ inode[pr[q].ip].valid = 1
        <5>1. pr'[q] = pr[q]
          BY DEF Others
        <5>2. pr[q].pc \in Locking /\ pr[q].pc \in Using
          BY <5>1 DEF Locking, Using
        <5> QED
          BY <5>1, <5>2, <2>0 DEF Pointers
      <4> CASE pr[q].ip = s
        <5>1. inode[s].lock \notin {p, NoProc}
          BY <4>1, ItableAssumption
        <5> QED
          BY <4>1, <5>1 DEF LocksHere
      <4> CASE pr[q].ip # s
        BY <4>1 DEF Others
      <4> QED
        OBVIOUS
    <3> QED
      OBVIOUS
  <2> ASSUME NEW t \in Slots, inode'[t].lock # NoProc
      PROVE  pr'[inode'[t].lock].pc \in Locking /\ pr'[inode'[t].lock].ip = t
    <3> inode[t].lock # NoProc =>
          inode[t].lock \in Procs /\ pr[inode[t].lock].pc \in Locking /\ pr[inode[t].lock].ip = t
      <4>1. inode[t].lock \in Procs \union {NoProc}
        BY DEF Cached
      <4>2. inode[t].lock # NoProc => pr[inode[t].lock].pc \in Locking /\ pr[inode[t].lock].ip = t
        BY DEF Locks
      <4> QED
        BY <4>1, <4>2
    <3> CASE t # s
      <4>1. inode'[t] = inode[t] /\ inode[t].lock # p
        BY DEF Others, LocksHere
      <4> QED
        BY <4>1 DEF Others
    <3> CASE t = s /\ inode[s].lock \in {p, NoProc}
      BY DEF LocksHere
    <3> CASE t = s /\ inode[s].lock \notin {p, NoProc}
      <4>1. inode'[s].lock = inode[s].lock
        BY DEF LocksHere
      <4>2. pr'[inode[s].lock] = pr[inode[s].lock]
        BY DEF Others
      <4> QED
        BY <4>1, <4>2
    <3> QED
      OBVIOUS
  <2> QED
    BY DEF Locks
<1>5. Dir'
  <2> SUFFICES ASSUME NEW q \in Procs
               PROVE  /\ pr'[q].pc \in Creating \union {"ialloc"} => dlock' = q /\ disk'.entry[pr'[q].name] = 0
                      /\ pr'[q].pc = "unlink" \/ (pr'[q].pc = "ilock" /\ pr'[q].op = "unlink") =>
                           dlock' = q /\ disk'.entry[pr'[q].name] = inode'[pr'[q].ip].inum
    BY DEF Dir, Inum
  <2> CASE q = p
    BY DEF DirHere
  <2> CASE q # p
    <3>1. pr'[q] = pr[q]
      BY DEF Others
    <3>2. /\ pr[q].pc \in Creating \union {"ialloc"} => dlock = q /\ disk.entry[pr[q].name] = 0
          /\ pr[q].pc = "unlink" \/ (pr[q].pc = "ilock" /\ pr[q].op = "unlink") =>
               dlock = q /\ disk.entry[pr[q].name] = Inum(q)
      BY DEF IInv, Dir
    <3>3. dlock = q => dlock' = dlock /\ disk'.entry = disk.entry
      BY ItableAssumption DEF DirHere
    <3>4. pr[q].pc = "unlink" \/ pr[q].pc = "ilock" => inode'[pr[q].ip].inum = Inum(q)
      BY InumsStay DEF Using
    <3> QED
      BY <3>1, <3>2, <3>3, <3>4
  <2> QED
    OBVIOUS
<1>10. Fresh'
  <2> SUFFICES ASSUME NEW r \in Procs, pr'[r].pc \in Creating
               PROVE  /\ disk'.type[NewInum(r)'] = 1
                      /\ disk'.nlink[NewInum(r)'] = IF pr'[r].pc = "create_dirlink" THEN 1 ELSE 0
                      /\ \A q \in Procs : q # r /\ pr'[q].pc \in Using /\ Inum(q)' = NewInum(r)' => pr'[q].pc \in Leaving
                      /\ \A q \in Procs : file'[q] # 0 => inode'[file'[q]].inum # NewInum(r)'
    BY DEF Fresh
  <2> \A q \in Procs : q # p => pr'[q] = pr[q] /\ file'[q] = file[q]
    BY DEF Others
  <2>1. \A q \in Procs : q # p /\ pr[q].pc \in Using => Inum(q)' = Inum(q)
    BY InumsStay
  <2>2. \A q \in Procs : file[q] # 0 => inode'[file[q]].inum = inode[file[q]].inum
    BY InumsStay
  <2> CASE r = p
    <3> DEFINE j == NewInum(r)'
    <3>1. j = IF pr'[p].pc = "iget" THEN pr'[p].ip ELSE inode'[pr'[p].ip].inum
      BY DEF NewInum, Inum
    <3>2. /\ disk'.type[j] = 1
          /\ disk'.nlink[j] = IF pr'[p].pc = "create_dirlink" THEN 1 ELSE 0
          /\ \A q \in Procs : q # p /\ Held(q) => Inum(q) # j
          /\ \A q \in Procs : q # p /\ file[q] # 0 => inode[file[q]].inum # j
          /\ file'[p] # 0 => inode'[file'[p]].inum # j
      BY <3>1 DEF FreshHere, FreshFor
    <3> HIDE DEF j
    <3>3. \A q \in Procs : q # r /\ pr'[q].pc \in Using /\ Inum(q)' = j => pr'[q].pc \in Leaving
      BY <2>1, <3>2 DEF Held
    <3>4. \A q \in Procs : file'[q] # 0 => inode'[file'[q]].inum # j
      BY <2>2, <3>2
    <3> QED
      BY <3>2, <3>3, <3>4 DEF j
  <2> CASE r # p
    <3> DEFINE j == NewInum(r)
    <3> NewInum(r)' = j /\ pr'[r] = pr[r] /\ pr[r].pc \in Creating
      BY InumsStay
    <3>2. /\ disk.type[j] = 1
          /\ disk.nlink[j] = IF pr[r].pc = "create_dirlink" THEN 1 ELSE 0
          /\ \A q \in Procs : q # r /\ pr[q].pc \in Using /\ Inum(q) = j => pr[q].pc \in Leaving
          /\ \A q \in Procs : file[q] # 0 => inode[file[q]].inum # j
      BY DEF IInv, Fresh
    <3>3. /\ j # i \/ SameDinode(i)
          /\ pr'[p].pc \in Using \ Leaving => inode'[pr'[p].ip].inum # j
          /\ file'[p] # 0 => inode'[file'[p]].inum # j
      BY DEF FreshHere
    <3>4. j \in Inums
      <4>1. pr[r].pc = "iget" => pr[r].ip \in Inums
        BY DEF IInv, Pointers
      <4>2. pr[r].pc # "iget" => pr[r].pc \in Using
        BY DEF Creating, Using
      <4> QED
        BY <4>1, <4>2, Referenced DEF NewInum
    <3>5. disk'.type[j] = disk.type[j] /\ disk'.nlink[j] = disk.nlink[j]
      BY <3>3, <3>4 DEF Touches, SameDinode
    <3> HIDE DEF j
    <3>6. \A q \in Procs : q # r /\ pr'[q].pc \in Using /\ Inum(q)' = j => pr'[q].pc \in Leaving
      <4> SUFFICES ASSUME NEW q \in Procs, q # r, pr'[q].pc \in Using, Inum(q)' = j PROVE pr'[q].pc \in Leaving
        OBVIOUS
      <4> CASE q = p
        BY <3>3 DEF Inum
      <4> CASE q # p
        BY <2>1, <3>2
      <4> QED
        OBVIOUS
    <3>7. \A q \in Procs : file'[q] # 0 => inode'[file'[q]].inum # j
      BY <2>2, <3>2, <3>3
    <3> QED
      BY <3>2, <3>5, <3>6, <3>7
  <2> QED
    OBVIOUS
<1>11. Allocated'
  <2>a. Allocated
    BY DEF IInv
  <2> ASSUME NEW q \in Procs, pr'[q].pc \in Using \ Leaving PROVE disk'.type[inode'[pr'[q].ip].inum] = 1
    <3> CASE q = p
      BY DEF AllocatedHere
    <3> CASE q # p
      <4> pr'[q] = pr[q] /\ Held(q)
        BY DEF Others, Held
      <4>2. inode'[pr[q].ip].inum = Inum(q) /\ Inum(q) \in Inums
        BY InumsStay, Referenced DEF Held
      <4>3. disk.type[Inum(q)] = 1
        BY <2>a DEF Allocated, Held
      <4>4. disk'.type[Inum(q)] = 1
        BY <4>2, <4>3 DEF AllocatedHere, Touches
      <4> QED
        BY <4>2, <4>4
    <3> QED
      OBVIOUS
  <2> ASSUME NEW q \in Procs, file'[q] # 0 PROVE disk'.type[inode'[file'[q]].inum] = 1
    <3> CASE q = p
      BY DEF AllocatedHere
    <3> CASE q # p
      <4> file'[q] = file[q]
        BY DEF Others
      <4>2. inode'[file[q]].inum = inode[file[q]].inum /\ inode[file[q]].inum \in Inums
        BY InumsStay, Referenced
      <4>3. disk.type[inode[file[q]].inum] = 1
        BY <2>a DEF Allocated
      <4>4. disk'.type[inode[file[q]].inum] = 1
        BY <4>2, <4>3 DEF AllocatedHere, Touches
      <4> QED
        BY <4>2, <4>4
    <3> QED
      OBVIOUS
  <2> QED
    BY DEF Allocated, Inum
<1>12. Alone'
  <2> SUFFICES ASSUME NEW r \in Procs, pr'[r].pc = "itrunc"
               PROVE  /\ disk'.nlink[Inum(r)'] = 0 /\ inode'[pr'[r].ip].nlink = 0
                      /\ \A q \in Procs : q # r /\ pr'[q].pc \in Using => pr'[q].ip # pr'[r].ip
                      /\ \A q \in Procs : file'[q] # pr'[r].ip
    BY DEF Alone
  <2> \A q \in Procs : q # p => pr'[q] = pr[q] /\ file'[q] = file[q]
    BY DEF Others
  <2> CASE r = p
    <3>1. /\ disk'.nlink[Inum(p)'] = 0 /\ inode'[pr'[p].ip].nlink = 0
          /\ \A q \in Procs : q # p /\ pr[q].pc \in Using => pr[q].ip # pr'[p].ip
          /\ \A q \in Procs : q # p => file[q] # pr'[p].ip
          /\ file'[p] # pr'[p].ip
      BY DEF AloneHere, AloneFor, Inum
    <3> QED
      BY <3>1
  <2> CASE r # p
    <3> pr'[r] = pr[r] /\ pr[r].pc = "itrunc" /\ pr[r].pc \in Using
      BY DEF Using
    <3>2. /\ disk.nlink[Inum(r)] = 0 /\ inode[pr[r].ip].nlink = 0
          /\ \A q \in Procs : q # r /\ pr[q].pc \in Using => pr[q].ip # pr[r].ip
          /\ \A q \in Procs : file[q] # pr[r].ip
      BY DEF IInv, Alone
    <3>3. /\ Inum(r) # i \/ SameDinode(i)
          /\ pr[r].ip # s \/ inode'[s].nlink = inode[s].nlink
          /\ pr'[p].pc \in Using => pr'[p].ip # pr[r].ip
          /\ file'[p] # pr[r].ip
      BY DEF AloneHere
    <3>4. Inum(r)' = Inum(r) /\ Inum(r) \in Inums /\ pr[r].ip \in Slots
      BY InumsStay, Referenced
    <3>5. disk'.nlink[Inum(r)] = 0 /\ inode'[pr[r].ip].nlink = 0
      BY <3>2, <3>3, <3>4 DEF Touches, SameDinode, Others
    <3>6. \A q \in Procs : q # r /\ pr'[q].pc \in Using => pr'[q].ip # pr[r].ip
      BY <3>2, <3>3
    <3>7. \A q \in Procs : file'[q] # pr[r].ip
      BY <3>2, <3>3
    <3> QED
      BY <3>4, <3>5, <3>6, <3>7
  <2> QED
    OBVIOUS
<1>13. Agree'
  <2> SUFFICES ASSUME NEW t \in Slots, inode'[t].ref > 0, inode'[t].valid = 1
               PROVE  \/ inode'[t].lock # NoProc /\ pr'[inode'[t].lock].pc = "freed"
                      \/ /\ disk'.type[inode'[t].inum] = 1 /\ inode'[t].type = 1
                         /\ inode'[t].nlink = disk'.nlink[inode'[t].inum]
    BY DEF Agree, Freeing
  <2> CASE t = s
    BY DEF AgreeHere
  <2> CASE t # s
    <3> inode'[t] = inode[t]
      BY DEF Others
    <3> CASE Freeing(t)
      <4>1. inode[t].lock \in Procs
        BY DEF Freeing, IInv, Types, Cached
      <4>2. pr[inode[t].lock].ip = t
        BY DEF Freeing, IInv, Locks
      <4>3. inode[t].lock # p
        BY <4>2 DEF Freeing, AgreeHere, Locking
      <4> QED
        BY <4>1, <4>3 DEF Freeing, Others
    <3> CASE ~Freeing(t)
      <4>1. /\ disk.type[inode[t].inum] = 1 /\ inode[t].type = 1
            /\ inode[t].nlink = disk.nlink[inode[t].inum]
        BY DEF IInv, Agree
      <4>2. inode[t].inum \in Inums
        BY DEF IInv, Pointers
      <4>3. inode[t].inum = i => SameDinode(i)
        BY DEF AgreeHere
      <4>4. disk'.type[inode[t].inum] = disk.type[inode[t].inum] /\ disk'.nlink[inode[t].inum] = disk.nlink[inode[t].inum]
        BY <4>2, <4>3 DEF Touches, SameDinode
      <4> QED
        BY <4>1, <4>4
    <3> QED
      OBVIOUS
  <2> QED
    OBVIOUS
<1> \A q \in Procs : q # p /\ pr[q].pc \in Ahead => Inum(q)' = Inum(q)
  BY InumsStay DEF Ahead, Using
<1>6. Linked'
  <2> SUFFICES ASSUME NEW j \in Inums
               PROVE  disk'.nlink[j] = Cardinality(NamesOf(disk', j)) + Cardinality(Pending(j)')
    BY DEF Linked, NamesOf
  <2>2. IsFiniteSet(NamesOf(disk, j)) /\ IsFiniteSet(Pending(j))
    BY ItableAssumption DEF Counting, NamesOf, Pending
  <2>3. /\ Cardinality(NamesOf(disk, j)) \in Nat /\ Cardinality(NamesOf(disk', j)) \in Nat
        /\ Cardinality(NamesOf(disk', j)) + Bit(nm \in NamesOf(disk, j))
             = Cardinality(NamesOf(disk, j)) + Bit(nm \in NamesOf(disk', j))
    <3>1. \A n : n # nm => (n \in NamesOf(disk, j) <=> n \in NamesOf(disk', j))
      BY SMTT(20) DEF NamesOf, LinkedHere
    <3> QED
      BY <2>2, <3>1, CountStep
  <2>4. /\ Cardinality(Pending(j)) \in Nat /\ Cardinality(Pending(j)') \in Nat
        /\ Cardinality(Pending(j)') + Bit(p \in Pending(j))
             = Cardinality(Pending(j)) + Bit(p \in Pending(j)')
    <3>1. \A q : q # p => (q \in Pending(j) <=> q \in Pending(j)')
      BY DEF Pending
    <3> QED
      BY <2>2, <3>1, CountStep
  <2>5. Owes(p, nm, j) = Bit(nm \in NamesOf(disk, j)) + Bit(p \in Pending(j))
    BY DEF Owes, NamesOf, Pending, Bit
  <2>6. Owes(p, nm, j)' = Bit(nm \in NamesOf(disk', j)) + Bit(p \in Pending(j)')
    BY DEF Owes, NamesOf, Pending, Bit
  <2>7. disk.nlink[j] = Cardinality(NamesOf(disk, j)) + Cardinality(Pending(j))
    BY DEF Linked
  <2>8. disk.nlink[j] \in Nat /\ disk'.nlink[j] \in Nat
    BY DEF Dinodes
  <2>9. /\ Bit(nm \in NamesOf(disk, j)) \in Int /\ Bit(nm \in NamesOf(disk', j)) \in Int
        /\ Bit(p \in Pending(j)) \in Int /\ Bit(p \in Pending(j)') \in Int
    BY BitType, BitInt
  <2>10. disk'.nlink[j] + (Bit(nm \in NamesOf(disk, j)) + Bit(p \in Pending(j)))
           = disk.nlink[j] + (Bit(nm \in NamesOf(disk', j)) + Bit(p \in Pending(j)'))
    BY <2>5, <2>6 DEF LinkedHere
  <2> DEFINE u == Cardinality(NamesOf(disk, j))
             u1 == Cardinality(NamesOf(disk', j))
             f == Cardinality(Pending(j))
             f1 == Cardinality(Pending(j)')
  <2>11. /\ u \in Int /\ u1 \in Int /\ f \in Int /\ f1 \in Int
         /\ disk.nlink[j] \in Int /\ disk'.nlink[j] \in Int
    BY <2>3, <2>4, <2>8, NatInt
  <2>12. /\ u1 + Bit(nm \in NamesOf(disk, j)) = u + Bit(nm \in NamesOf(disk', j))
         /\ f1 + Bit(p \in Pending(j)) = f + Bit(p \in Pending(j)')
         /\ disk.nlink[j] = u + f
    BY <2>3, <2>4, <2>7
  <2> HIDE DEF u, u1, f, f1
  <2>13. Balanced(disk.nlink[j], u, f, Bit(nm \in NamesOf(disk, j)), Bit(p \in Pending(j)),
                  disk'.nlink[j], u1, f1, Bit(nm \in NamesOf(disk', j)), Bit(p \in Pending(j)'))
    BY <2>9, <2>10, <2>11, <2>12 DEF Balanced
  <2>14. disk'.nlink[j] = u1 + f1
    BY <2>13, Balance
  <2> QED
    BY <2>14 DEF u1, f1
<1>7. FreeUnlinked'
  BY SMTT(20) DEF FreeUnlinked, Touches, FreeHere
<1>8. Outstanding'
  <2>1. IsFiniteSet(Active)
    BY ItableAssumption DEF Counting, Active
  <2>2. /\ Cardinality(Active) \in Nat /\ Cardinality(Active') \in Nat
        /\ Cardinality(Active') + Bit(p \in Active) = Cardinality(Active) + Bit(p \in Active')
    <3>1. \A q : q # p => (q \in Active <=> q \in Active')
      BY DEF Active
    <3> QED
      BY <2>1, <3>1, CountStep
  <2>3. Bit(p \in Active) = Bit(Busy(p)) /\ Bit(p \in Active') = Bit(Busy(p)')
    BY DEF Active, Busy, Bit
  <2>4. Bit(Busy(p)) \in Int /\ Bit(Busy(p)') \in Int
    BY BitType, BitInt
  <2> DEFINE a == Cardinality(Active)
             a1 == Cardinality(Active')
  <2>5. /\ a \in Nat /\ a1 \in Nat /\ outstanding = a /\ a1 + Bit(Busy(p)) = a + Bit(Busy(p)')
        /\ outstanding' + Bit(Busy(p)) = outstanding + Bit(Busy(p)')
    BY <2>2, <2>3 DEF Outstanding, OutstandingHere
  <2> HIDE DEF a, a1
  <2>6. outstanding' = a1
    BY <2>4, <2>5, SMT
  <2> QED
    BY <2>6 DEF Outstanding, a1
<1>9. Bounded'
  <2>1. \A j \in Inums : disk'.nlink[j] <= Cardinality(Names) + Cardinality(Procs)
    BY <1>6, LinksBoundedNext, SMTT(20)
  <2> QED
    BY <2>1 DEF Bounded, BoundedHere, Others
<1> QED
  BY <1>1, <1>2, <1>3, <1>4, <1>5, <1>6, <1>7, <1>8, <1>9, <1>10, <1>11, <1>12, <1>13 DEF IInv

-----------------------------------------------------------------------------
\* Step p changes its own call record only.
Moves(p, l, a, o, nm) ==
  /\ pr' \in [Procs -> Calls]
  /\ \A q \in Procs : q # p => pr'[q] = pr[q]
  /\ pr'[p].pc = l /\ pr'[p].ip = a /\ pr'[p].op = o /\ pr'[p].name = nm

LEMMA GotoMoves ==
  ASSUME Types, NEW p \in Procs, NEW l, Goto(p, l), [pr[p] EXCEPT !.pc = l] \in Calls
  PROVE  Moves(p, l, pr[p].ip, pr[p].op, pr[p].name)
  BY DEF Types, Goto, Moves, Calls

\* A step sets entry s so.
Sets(s, ref, inum, valid, type, nlink, lock) ==
  /\ inode' \in [Slots -> Cached]
  /\ \A t \in Slots : t # s => inode'[t] = inode[t]
  /\ inode'[s].ref = ref /\ inode'[s].inum = inum /\ inode'[s].valid = valid
  /\ inode'[s].type = type /\ inode'[s].nlink = nlink /\ inode'[s].lock = lock

LEMMA RefSets ==
  ASSUME inode \in [Slots -> Cached], NEW s \in Slots, inode[s].ref > 0,
         inode' = [inode EXCEPT ![s].ref = @ - 1]
  PROVE  Sets(s, inode[s].ref - 1, inode[s].inum, inode[s].valid, inode[s].type, inode[s].nlink, inode[s].lock)
  BY SMT DEF Sets, Cached

LEMMA LockSets ==
  ASSUME inode \in [Slots -> Cached], NEW s \in Slots, NEW o \in Procs \union {NoProc},
         inode' = [inode EXCEPT ![s].lock = o]
  PROVE  Sets(s, inode[s].ref, inode[s].inum, inode[s].valid, inode[s].type, inode[s].nlink, o)
  BY DEF Sets, Cached

\* ireclaim() is alone, and its calls are few.
LEMMA BootsAlone ==
  ASSUME Counting, IInv, Booting, NEW p \in Procs, pr[p].pc # "off"
  PROVE  p = First
  BY DEF IInv, Boot

BootPCs == {"off", "ireclaim", "ireclaim_ilock", "ireclaim_iput", "iput", "itrunc", "freed", "unref", "end_op"}

LEMMA NotBooting ==
  ASSUME Counting, IInv, NEW p \in Procs, pr[p].pc \notin BootPCs
  PROVE  ~Booting /\ pr[p].op # "ireclaim"
<1>1. ~Booting
  <2> SUFFICES ASSUME Booting PROVE FALSE
    OBVIOUS
  <2>1. p = First
    BY BootsAlone DEF BootPCs
  <2> QED
    BY <2>1 DEF Booting, Reclaiming, BootPCs, IInv, Boot
<1>2. pr[p].op # "ireclaim"
  BY <1>1 DEF IInv, Boot, Booting
<1> QED
  BY <1>1, <1>2

\* Boot, for a step of ireclaim()
BootFor ==
  /\ pr'[First].op = "ireclaim" => pr'[First].pc \in {"iput", "itrunc", "freed", "unref", "end_op"}
  /\ pr'[First].pc \in {"ireclaim", "freed", "unref", "end_op"} => \A i \in 1..scan' - 1 : ~Orphan(i)'
  /\ pr'[First].pc \in {"ireclaim_ilock", "ireclaim_iput", "iput", "itrunc"} =>
       /\ scan' - 1 = inode'[pr'[First].ip].inum /\ disk'.nlink[scan' - 1] = 0
       /\ \A i \in 1..scan' - 2 : ~Orphan(i)'
  /\ pr'[First].pc = "iput" => inode'[pr'[First].ip].valid = 1

LEMMA BootMoveFirst ==
  ASSUME Counting, IInv, Booting, \A q \in Procs : q # First => pr'[q] = pr[q], file' = file, BootFor
  PROVE  Boot'
<1>1. /\ \A q \in Procs \ {First} : pr[q].pc \notin Reclaiming /\ pr[q].op # "ireclaim"
      /\ \A q \in Procs \ {First} : pr[q].pc = "off"
      /\ \A q \in Procs : file[q] = 0
  BY DEF IInv, Boot
<1>2. /\ \A q \in Procs \ {First} : pr'[q].pc \notin Reclaiming /\ pr'[q].op # "ireclaim"
      /\ \A q \in Procs \ {First} : pr'[q].pc = "off"
      /\ \A q \in Procs : file'[q] = 0
  BY <1>1
<1>3. /\ pr'[First].op = "ireclaim" => pr'[First].pc \in {"iput", "itrunc", "freed", "unref", "end_op"}
      /\ pr'[First].pc \in {"ireclaim", "freed", "unref", "end_op"} => (\A i \in 1..scan - 1 : ~Orphan(i))'
      /\ pr'[First].pc \in {"ireclaim_ilock", "ireclaim_iput", "iput", "itrunc"} =>
           (/\ scan - 1 = Inum(First) /\ disk.nlink[scan - 1] = 0
            /\ \A i \in 1..scan - 2 : ~Orphan(i))'
      /\ pr'[First].pc = "iput" => inode'[pr'[First].ip].valid = 1
  BY DEF BootFor, Inum
<1> QED
  BY <1>2, <1>3 DEF Boot

\* What holds of a step that leaves the disk alone.
LEMMA DiskStays ==
  ASSUME Counting, IInv, disk' = disk, NEW i \in Inums
  PROVE  Touches(i) /\ SameDinode(i) /\ FreeHere(i)
  BY DEF Touches, SameDinode, FreeHere, IInv, FreeUnlinked

(***************************************************************************)
(* A step of a process that has a pointer to an entry, on this entry and   *)
(* its dinode.                                                             *)
(***************************************************************************)
AgreeFor(s) ==
  inode'[s].ref > 0 /\ inode'[s].valid = 1 =>
    \/ inode'[s].lock # NoProc /\ pr'[inode'[s].lock].pc = "freed"
    \/ /\ disk'.type[inode'[s].inum] = 1 /\ inode'[s].type = 1
       /\ inode'[s].nlink = disk'.nlink[inode'[s].inum]

LEMMA AgreeStays ==
  ASSUME Counting, IInv, NEW p \in Procs, NEW s \in Slots, Others(p, s), disk' = disk, pr[p].pc # "freed",
         inode'[s].ref > 0 => inode[s].ref > 0, inode'[s].valid = inode[s].valid,
         inode'[s].inum = inode[s].inum, inode'[s].type = inode[s].type, inode'[s].nlink = inode[s].nlink,
         inode'[s].lock = inode[s].lock \/ inode[s].lock \in {p, NoProc}
  PROVE  AgreeFor(s)
<1> SUFFICES ASSUME inode'[s].ref > 0, inode'[s].valid = 1
             PROVE  \/ inode'[s].lock # NoProc /\ pr'[inode'[s].lock].pc = "freed"
                    \/ /\ disk'.type[inode'[s].inum] = 1 /\ inode'[s].type = 1
                       /\ inode'[s].nlink = disk'.nlink[inode'[s].inum]
  BY DEF AgreeFor
<1>1. \/ Freeing(s)
      \/ /\ disk.type[inode[s].inum] = 1 /\ inode[s].type = 1
         /\ inode[s].nlink = disk.nlink[inode[s].inum]
  BY DEF IInv, Agree
<1> CASE Freeing(s)
  <2>1. inode[s].lock \in Procs /\ inode[s].lock # p /\ inode[s].lock # NoProc
    BY DEF IInv, Types, Cached, Freeing
  <2> QED
    BY <2>1 DEF Freeing, Others
<1> QED
  BY <1>1

LEMMA LinkedStays ==
  ASSUME disk' = disk, NEW p \in Procs, NEW nm \in Names, pr'[p].pc \in Ahead <=> pr[p].pc \in Ahead,
         pr[p].pc \in Ahead => inode'[pr'[p].ip].inum = Inum(p)
  PROVE  LinkedHere(p, nm)
<1>1. \A j \in Inums : Owes(p, nm, j)' = Owes(p, nm, j)
  BY DEF Owes, Bit, Inum
<1> QED
  BY <1>1 DEF LinkedHere

\* A step between begin_op() and end_op()
LEMMA Outside ==
  ASSUME NEW p \in Procs, outstanding' = outstanding, Busy(p), Busy(p)'
  PROVE  OutstandingHere(p)
<1>1. Bit(Busy(p)) = 1 /\ Bit(Busy(p)') = 1
  BY DEF Bit
<1> QED
  BY <1>1 DEF OutstandingHere

\* A step of a process that has no pointer, and gets none
LEMMA QuietStep ==
  ASSUME Counting, IInv, Types', NEW p \in Procs, NEW l, NEW a, NEW o, NEW nm, Moves(p, l, a, o, nm),
         pr[p].pc \notin Using, l \notin Using, l # "iget",
         l = "lookup" => o \in {"open", "create", "link", "unlink"},
         inode' = inode, disk' = disk, file' = file,
         DirHere(p), OutstandingHere(p), Consistent', Boot', Panics'
  PROVE  IInv'
<1> DEFINE s == 1
           i == 1
<1> s \in Slots /\ i \in Inums
  BY ItableAssumption, SMT DEF Slots, Inums
<1> HIDE DEF s, i
<1> /\ inode \in [Slots -> Cached] /\ pr[p].name \in Names
    /\ pr[p].pc \notin Locking /\ pr[p].pc \notin Ahead /\ l \notin Locking /\ l \notin Ahead /\ l \notin Creating
    /\ l # "ilock" /\ l # "itrunc" /\ pr[p].pc # "freed"
  BY DEF IInv, Types, Calls, Using, Locking, Ahead, Creating
<1> pr'[p].pc = l /\ pr'[p].op = o
  BY DEF Moves
<1>2. Others(p, s) /\ BoundedHere(s)
  BY DEF Others, Moves, BoundedHere
<1> Touches(i) /\ SameDinode(i) /\ FreeHere(i)
  BY DiskStays
<1>4. PointersHere(p, s)
  BY DEF PointersHere, IInv, Pointers
<1>5. CountedHere(p)
  <2>1. \A u \in Slots : Points(p, u)' = Points(p, u)
    BY DEF Points, Bit
  <2> QED
    BY <2>1 DEF CountedHere
<1>7. OneEntryHere(s)
  BY DEF OneEntryHere, IInv, OneEntry
<1>8. inode[s].lock # p
  <2>1. p # NoProc
    BY ItableAssumption
  <2> QED
    BY <2>1 DEF IInv, Locks
<1>9. LocksHere(p, s)
  BY <1>8 DEF LocksHere
<1>10. FreshHere(p, i)
  BY DEF FreshHere, IInv, Fresh
<1>11. AllocatedHere(p, i)
  BY DEF AllocatedHere, IInv, Allocated
<1>12. AloneHere(p, s, i)
  BY DEF AloneHere, IInv, Alone
<1>13. AgreeHere(p, s, i)
  <2>1. AgreeFor(s)
    BY <1>2, AgreeStays
  <2> QED
    BY <2>1 DEF AgreeHere, AgreeFor
<1>14. LinkedHere(p, pr[p].name)
  BY LinkedStays
<1> QED
  BY <1>2, <1>4, <1>5, <1>7, <1>9, <1>10, <1>11, <1>12, <1>13, <1>14, Moved

-----------------------------------------------------------------------------
\* iget() gives process p a pointer to entry s, which is that of inode j or empty.
Gains(p, s, j, l, v) ==
  /\ Moves(p, l, s, pr[p].op, pr[p].name)
  /\ Sets(s, inode[s].ref + 1, j, v, inode[s].type, inode[s].nlink, inode[s].lock)
  /\ \/ inode[s].ref > 0 /\ inode[s].inum = j /\ v = inode[s].valid
     \/ inode[s].ref = 0 /\ v = 0 /\ Entries(j) = {}

\* What the caller of iget() knows of inode j.
Gives(p, j, l) ==
  /\ disk.type[j] = 1
  /\ \A q \in Procs : q # p /\ pr[q].pc \in Creating => NewInum(q) # j
  /\ \A q \in Procs : pr[q].pc = "itrunc" => Inum(q) # j
  /\ l = "create" => /\ disk.nlink[j] = 0 /\ dlock' = p /\ disk.entry[pr[p].name] = 0
                     /\ \A q \in Procs : q # p /\ Held(q) => Inum(q) # j
                     /\ \A q \in Procs : file[q] # 0 => inode[file[q]].inum # j
  /\ l = "ilock" => /\ pr[p].pc = "lookup"
                    /\ pr[p].op = "unlink" => dlock' = p /\ disk.entry[pr[p].name] = j
  /\ dlock \notin {p, NoProc} => dlock' = dlock

\* The steps that call iget()
LEMMA GetKeeps ==
  ASSUME Counting, IInv, panicked = 0
  PROVE  \A p \in Procs : dirlookup(p) \/ ialloc_iget(p) \/ ireclaim(p) => IInv'
<1>1. ASSUME NEW p \in Procs, NEW j \in Inums, NEW l, iget(p, j, l), panicked = 0,
             [pr[p] EXCEPT !.pc = l] \in Calls
      PROVE  \/ panicked' = 0 /\ \E s \in Slots : \E v \in {0, 1} : Gains(p, s, j, l, v)
             \/ panicked' = NoInodes /\ Empty = {} /\ inode' = inode /\ pr' = pr
  <2> USE <1>1
  <2>1. pr \in [Procs -> Calls] /\ inode \in [Slots -> Cached]
    BY DEF IInv, Types
  <2>2. ASSUME NEW s \in Slots, pr' = [pr EXCEPT ![p].ip = s, ![p].pc = l]
        PROVE  Moves(p, l, s, pr[p].op, pr[p].name)
    BY <2>1, <2>2 DEF Moves, Calls
  <2>3. CASE \E s \in Entries(j) : /\ inode' = [inode EXCEPT ![s].ref = @ + 1]
                                   /\ pr' = [pr EXCEPT ![p].ip = s, ![p].pc = l]
                                   /\ panicked' = panicked
    <3>1. PICK s \in Entries(j) : /\ inode' = [inode EXCEPT ![s].ref = @ + 1]
                                  /\ pr' = [pr EXCEPT ![p].ip = s, ![p].pc = l]
                                  /\ panicked' = panicked
      BY <2>3
    <3>2. s \in Slots /\ inode[s].ref > 0 /\ inode[s].inum = j
      BY DEF Entries
    <3>3. inode[s].valid \in {0, 1}
      BY <2>1, <3>2 DEF Cached
    <3>4. Sets(s, inode[s].ref + 1, inode[s].inum, inode[s].valid, inode[s].type, inode[s].nlink, inode[s].lock)
      BY <2>1, <3>1, <3>2, SMTT(20) DEF Sets, Cached
    <3>5. Moves(p, l, s, pr[p].op, pr[p].name)
      BY <2>2, <3>1, <3>2
    <3>6. Gains(p, s, j, l, inode[s].valid)
      BY <3>2, <3>4, <3>5 DEF Gains
    <3> QED
      BY <3>1, <3>2, <3>3, <3>6
  <2>4. CASE \E s \in Empty : /\ Entries(j) = {} /\ inode' = [inode EXCEPT ![s] = Recycled(s, j)]
                              /\ pr' = [pr EXCEPT ![p].ip = s, ![p].pc = l]
                              /\ panicked' = panicked
    <3>1. PICK s \in Empty : /\ Entries(j) = {} /\ inode' = [inode EXCEPT ![s] = Recycled(s, j)]
                             /\ pr' = [pr EXCEPT ![p].ip = s, ![p].pc = l]
                             /\ panicked' = panicked
      BY <2>4
    <3>2. s \in Slots /\ inode[s].ref = 0
      BY DEF Empty
    <3> DEFINE x == Recycled(s, j)
    <3>3. /\ x.ref = 1 /\ x.inum = j /\ x.valid = 0 /\ x.type = inode[s].type /\ x.nlink = inode[s].nlink
          /\ x.lock = inode[s].lock /\ x \in Cached
      <4>1. inode[s] \in Cached /\ 1 \in Nat /\ 0 \in {0, 1}
        BY <2>1, <3>2, SMT
      <4> QED
        BY <4>1 DEF Recycled, Cached
    <3>4. inode' = [inode EXCEPT ![s] = x]
      BY <3>1
    <3>5. 1 = inode[s].ref + 1 /\ 0 \in {0, 1}
      BY <3>2, SMT
    <3> HIDE DEF x
    <3>6. Sets(s, inode[s].ref + 1, j, 0, inode[s].type, inode[s].nlink, inode[s].lock)
      BY <2>1, <3>2, <3>3, <3>4, <3>5 DEF Sets
    <3>7. Moves(p, l, s, pr[p].op, pr[p].name)
      BY <2>2, <3>1, <3>2
    <3>8. Gains(p, s, j, l, 0)
      BY <3>1, <3>2, <3>6, <3>7 DEF Gains
    <3> QED
      BY <3>1, <3>2, <3>5, <3>8
  <2> QED
    BY <2>3, <2>4 DEF iget
<1>2. ASSUME Types', NEW p \in Procs, NEW s \in Slots, NEW j \in Inums,
             NEW l \in {"ilock", "create", "ireclaim_ilock"}, NEW v, Gains(p, s, j, l, v), Gives(p, j, l),
             pr[p].pc \in {"lookup", "iget", "ireclaim"}, disk' = disk, committed' = committed, file' = file,
             OutstandingHere(p), Boot', panicked' = 0
      PROVE  IInv'
  <2> USE <1>2
  <2>t. inode \in [Slots -> Cached] /\ pr[p].name \in Names
    BY DEF IInv, Types, Calls
  <2>1. /\ pr'[p].pc = l /\ pr'[p].ip = s /\ pr'[p].op = pr[p].op /\ pr'[p].name = pr[p].name
        /\ \A q \in Procs : q # p => pr'[q] = pr[q]
    BY DEF Gains, Moves
  <2>2. /\ inode'[s].ref = inode[s].ref + 1 /\ inode'[s].inum = j /\ inode'[s].valid = v
        /\ inode'[s].type = inode[s].type /\ inode'[s].nlink = inode[s].nlink /\ inode'[s].lock = inode[s].lock
        /\ \A u \in Slots : u # s => inode'[u] = inode[u]
    BY DEF Gains, Sets
  <2>g. \/ inode[s].ref > 0 /\ inode[s].inum = j /\ v = inode[s].valid
        \/ inode[s].ref = 0 /\ v = 0 /\ Entries(j) = {}
    BY DEF Gains
  <2>l. /\ pr[p].pc \notin Using /\ pr[p].pc \notin Locking /\ pr[p].pc \notin Ahead
        /\ l \in Using /\ l \notin Locking /\ l \notin Ahead /\ l \notin Leaving /\ (l \in Creating <=> l = "create")
        /\ l \notin {"lookup", "iget", "ialloc", "unlink", "itrunc", "create_dirlink"} /\ pr[p].pc # "freed"
    BY DEF Using, Locking, Ahead, Leaving, Creating
  <2>3. Others(p, s)
    BY <2>1, <2>2, <2>g DEF Others
  <2>4. BoundedHere(s)
    BY <2>2 DEF BoundedHere
  <2>5. Touches(j) /\ SameDinode(j) /\ FreeHere(j)
    BY DiskStays
  <2>6. PointersHere(p, s)
    BY <2>1, <2>2, <2>l DEF PointersHere, IInv, Pointers, Gives
  <2>7. CountedHere(p)
    <3> SUFFICES ASSUME NEW u \in Slots PROVE inode'[u].ref + Points(p, u) = inode[u].ref + Points(p, u)'
      BY DEF CountedHere
    <3> DEFINE b == Bit(file[p] = u)
               n == inode[u].ref
    <3>1. Points(p, u) = 0 + b
      BY <2>l DEF Points, Bit
    <3>2. b \in {0, 1} /\ n \in Nat
      BY <2>t, BitType DEF Cached
    <3>3. CASE u = s
      <4>1. Points(p, u)' = 1 + b
        BY <2>1, <2>l, <3>3 DEF Points, Bit
      <4>2. inode'[u].ref = n + 1
        BY <2>2, <3>3
      <4> HIDE DEF b, n
      <4>3. (n + 1) + (0 + b) = n + (1 + b)
        BY <3>2, SMT
      <4> QED
        BY <3>1, <4>1, <4>2, <4>3 DEF n
    <3>4. CASE u # s
      <4>1. Points(p, u)' = 0 + b
        BY <2>1, <2>l, <3>4 DEF Points, Bit
      <4> QED
        BY <2>2, <3>1, <3>4, <4>1
    <3> QED
      BY <3>3, <3>4
  <2>8. OneEntryHere(s)
    <3>1. \A u \in Slots : u # s /\ inode[u].ref > 0 => inode[u].inum # j
      BY <2>g DEF IInv, OneEntry, Entries
    <3> QED
      BY <2>2, <3>1 DEF OneEntryHere
  <2>9. inode[s].lock # p /\ (inode[s].ref = 0 => inode[s].lock = NoProc)
    <3>1. inode[s].lock \in Procs \union {NoProc} /\ p # NoProc
      BY <2>t, ItableAssumption DEF Cached
    <3>2. inode[s].lock # NoProc => pr[inode[s].lock].pc \in Locking /\ pr[inode[s].lock].ip = s
      BY DEF IInv, Locks
    <3>3. inode[s].lock # NoProc => inode[s].ref > 0
      <4>1. Locking \subseteq Using
        BY DEF Locking, Using
      <4> QED
        BY <3>1, <3>2, <4>1, Referenced
    <3>4. ~(0 > 0)
      BY SMT
    <3> QED
      BY <2>l, <3>1, <3>2, <3>3, <3>4
  <2>10. LocksHere(p, s)
    BY <2>1, <2>2, <2>g, <2>l, <2>9 DEF LocksHere
  <2>11. DirHere(p)
    BY <2>1, <2>2, <2>l DEF DirHere, Gives
  <2>12. \A q \in Procs : file[q] # 0 => inode'[file[q]].inum = inode[file[q]].inum
    BY <2>3, InumsStay
  <2>13. FreshHere(p, j)
    <3>1. l = "create" => FreshFor(p)
      BY <2>1, <2>2, <2>l, <2>12 DEF FreshFor, Gives
    <3>2. \A q \in Procs : q # p /\ pr[q].pc \in Creating =>
            j # NewInum(q) /\ (file[p] # 0 => inode[file[p]].inum # NewInum(q))
      BY DEF Gives, IInv, Fresh
    <3> QED
      BY <2>1, <2>2, <2>5, <2>l, <2>12, <3>1, <3>2 DEF FreshHere
  <2>14. AllocatedHere(p, j)
    <3>1. file[p] # 0 => disk.type[inode[file[p]].inum] = 1
      BY DEF IInv, Allocated
    <3> QED
      BY <2>1, <2>2, <2>12, <3>1 DEF AllocatedHere, Gives
  <2>15. AloneHere(p, s, j)
    <3>1. \A q \in Procs : q # p /\ pr[q].pc = "itrunc" => s # pr[q].ip /\ file[p] # pr[q].ip
      <4> SUFFICES ASSUME NEW q \in Procs, q # p, pr[q].pc = "itrunc" PROVE s # pr[q].ip
        BY DEF IInv, Alone
      <4>1. pr[q].ip \in Slots /\ inode[pr[q].ip].ref > 0
        BY Referenced DEF Using
      <4>2. inode[pr[q].ip].inum # j
        BY DEF Gives, Inum
      <4>3. ~(0 > 0)
        BY SMT
      <4> QED
        BY <2>g, <4>1, <4>2, <4>3
    <3> QED
      BY <2>1, <2>2, <2>5, <2>l, <3>1 DEF AloneHere
  <2>16. AgreeHere(p, s, j)
    <3>1. AgreeFor(s)
      <4>1. CASE inode[s].ref > 0 /\ inode[s].inum = j /\ v = inode[s].valid
        BY <2>2, <2>3, <2>l, <4>1, AgreeStays
      <4>2. CASE v = 0
        <5>1. 0 # 1
          BY SMT
        <5> QED
          BY <2>2, <4>2, <5>1 DEF AgreeFor
      <4> QED
        BY <2>g, <4>1, <4>2
    <3> QED
      BY <2>5, <2>l, <3>1 DEF AgreeHere, AgreeFor
  <2>17. LinkedHere(p, pr[p].name)
    BY <2>1, <2>l, <2>t, LinkedStays
  <2>18. Consistent' /\ Panics'
    BY CommittedStays
  <2> QED
    BY <2>t, <2>3, <2>4, <2>5, <2>6, <2>7, <2>8, <2>10, <2>11, <2>13, <2>14, <2>15, <2>16, <2>17, <2>18, Moved
<1>3. ASSUME NEW p \in Procs, dirlookup(p)
      PROVE  IInv'
  <2> USE <1>3
  <2> DEFINE j == disk.entry[pr[p].name]
  <2>1. /\ pr[p].pc = "lookup" /\ dlock = NoProc /\ j # 0 /\ iget(p, j, "ilock")
        /\ dlock' = (IF pr[p].op = "unlink" THEN p ELSE NoProc)
        /\ disk' = disk /\ committed' = committed /\ outstanding' = outstanding /\ file' = file /\ scan' = scan
    BY DEF dirlookup, At, Found, KeepsDir
  <2>2. Types /\ pr \in [Procs -> Calls] /\ pr[p].name \in Names /\ NoProc \notin Procs
    BY ItableAssumption DEF IInv, Types, Calls
  <2>3. j \in Inums /\ disk.nlink[j] > 0 /\ disk.type[j] = 1
    BY <2>1, <2>2, NamedLinked
  <2>l. /\ pr[p].pc \notin Using /\ pr[p].pc \notin BootPCs /\ "ilock" \notin Reclaiming
        /\ "lookup" \notin Creating \union {"ialloc"} /\ "lookup" \notin Reclaiming
    BY <2>1 DEF Using, BootPCs, Reclaiming, Creating
  <2>4. ~Booting /\ pr[p].op # "ireclaim"
    BY <2>l, NotBooting
  <2>5. dlock' \in Procs \union {NoProc}
    BY <2>1
  <2>6. \A q \in Procs : pr[q].pc \notin Creating
    BY <2>1, <2>2 DEF IInv, Dir
  <2>7. \A q \in Procs : pr[q].pc = "itrunc" => Inum(q) # j
    <3>1. \A q \in Procs : pr[q].pc = "itrunc" => disk.nlink[Inum(q)] = 0
      BY DEF IInv, Alone
    <3>2. ~(0 > 0)
      BY SMT
    <3> QED
      BY <2>3, <3>1, <3>2
  <2>8. Gives(p, j, "ilock")
    BY <2>1, <2>3, <2>6, <2>7 DEF Gives
  <2> HIDE DEF j
  <2>9. ASSUME NEW s \in Slots, NEW v \in {0, 1}, Gains(p, s, j, "ilock", v), panicked' = 0
        PROVE  IInv'
    <3>1. Moves(p, "ilock", s, pr[p].op, pr[p].name) /\ inode' \in [Slots -> Cached]
      BY <2>9 DEF Gains, Sets
    <3>2. Types'
      BY <2>1, <2>2, <2>5, <2>9, <3>1 DEF Types, Moves
    <3>3. pr'[p].pc = "ilock" /\ pr'[p].op = pr[p].op
      BY <3>1 DEF Moves
    <3>4. OutstandingHere(p)
      <4>1. Busy(p) /\ Busy(p)'
        BY <2>1, <3>3 DEF Busy
      <4> QED
        BY <2>1, <4>1, Outside
    <3>5. Others(p, s)
      BY <2>1, <2>9 DEF Others, Gains, Moves, Sets
    <3>6. Boot'
      BY <2>l, <2>4, <3>3, <3>5, BootMove DEF BootHere, IInv
    <3>7. "ilock" \in {"ilock", "create", "ireclaim_ilock"} /\ pr[p].pc \in {"lookup", "iget", "ireclaim"}
      BY <2>1
    <3> QED
      BY <2>1, <2>3, <2>8, <2>9, <3>2, <3>4, <3>6, <3>7, <1>2
  <2>10. ASSUME panicked' = NoInodes, Empty = {}, inode' = inode, pr' = pr
         PROVE  IInv'
    <3>1. Types'
      BY <2>1, <2>2, <2>5, <2>10 DEF Types
    <3>2. Moves(p, "lookup", pr[p].ip, pr[p].op, pr[p].name)
      BY <2>1, <2>2, <2>10 DEF Moves
    <3>3. DirHere(p)
      BY <2>1, <2>l, <2>10 DEF DirHere
    <3>4. OutstandingHere(p)
      BY <2>1, <2>10 DEF OutstandingHere, Busy
    <3>5. Consistent' /\ Panics'
      <4>1. NoInodes # 1
        BY SMT DEF NoInodes
      <4> QED
        BY <2>1, <2>10, <4>1 DEF IInv, Consistent, NamesOf, Panics, Empty
    <3>6. Boot'
      BY <2>1, <2>4, <2>10 DEF IInv, Boot, Booting
    <3>7. "lookup" \notin Using /\ "lookup" # "iget" /\ pr[p].op \in {"open", "create", "link", "unlink"}
      BY <2>1, <2>l DEF IInv, Pointers
    <3> QED
      BY <2>1, <2>l, <2>10, <3>1, <3>2, <3>3, <3>4, <3>5, <3>6, <3>7, QuietStep
  <2>11. [pr[p] EXCEPT !.pc = "ilock"] \in Calls
    BY <2>2 DEF Calls
  <2> QED
    BY <2>1, <2>3, <2>9, <2>10, <2>11, <1>1
<1>4. ASSUME NEW p \in Procs, ialloc_iget(p)
      PROVE  IInv'
  <2> USE <1>4
  <2> DEFINE j == pr[p].ip
  <2>1. /\ pr[p].pc = "iget" /\ iget(p, j, "create") /\ dlock' = dlock
        /\ disk' = disk /\ committed' = committed /\ outstanding' = outstanding /\ file' = file /\ scan' = scan
    BY DEF ialloc_iget, At
  <2>2. Types /\ pr \in [Procs -> Calls]
    BY DEF IInv, Types
  <2>l. /\ pr[p].pc \notin Using /\ pr[p].pc \notin BootPCs /\ "create" \notin Reclaiming /\ pr[p].pc \in Creating
        /\ "itrunc" \in Using \ Leaving
    BY <2>1 DEF Using, BootPCs, Reclaiming, Creating, Leaving
  <2>3. j \in Inums /\ NewInum(p) = j
    BY <2>1 DEF IInv, Pointers, NewInum
  <2>4. ~Booting /\ pr[p].op # "ireclaim"
    BY <2>l, NotBooting
  <2>5. dlock = p /\ disk.entry[pr[p].name] = 0
    BY <2>l DEF IInv, Dir
  <2>6. \A q \in Procs : q # p => pr[q].pc \notin Creating
    BY <2>5 DEF IInv, Dir
  <2>7. /\ disk.type[j] = 1 /\ disk.nlink[j] = 0
        /\ \A q \in Procs : q # p /\ Held(q) => Inum(q) # j
        /\ \A q \in Procs : file[q] # 0 => inode[file[q]].inum # j
    BY <2>1, <2>l, <2>3 DEF IInv, Fresh, Held
  <2>8. Gives(p, j, "create")
    BY <2>1, <2>l, <2>5, <2>6, <2>7 DEF Gives, Held
  <2> HIDE DEF j
  <2>9. ASSUME NEW s \in Slots, NEW v \in {0, 1}, Gains(p, s, j, "create", v), panicked' = 0
        PROVE  IInv'
    <3>1. Moves(p, "create", s, pr[p].op, pr[p].name) /\ inode' \in [Slots -> Cached]
      BY <2>9 DEF Gains, Sets
    <3>2. Types'
      BY <2>1, <2>2, <2>9, <3>1 DEF Types, Moves
    <3>3. pr'[p].pc = "create" /\ pr'[p].op = pr[p].op
      BY <3>1 DEF Moves
    <3>4. OutstandingHere(p)
      <4>1. Busy(p) /\ Busy(p)'
        BY <2>1, <3>3 DEF Busy
      <4> QED
        BY <2>1, <4>1, Outside
    <3>5. Others(p, s)
      BY <2>1, <2>9 DEF Others, Gains, Moves, Sets
    <3>6. Boot'
      BY <2>l, <2>4, <3>3, <3>5, BootMove DEF BootHere, IInv
    <3>7. "create" \in {"ilock", "create", "ireclaim_ilock"} /\ pr[p].pc \in {"lookup", "iget", "ireclaim"}
      BY <2>1
    <3> QED
      BY <2>1, <2>3, <2>8, <2>9, <3>2, <3>4, <3>6, <3>7, <1>2
  <2>10. ASSUME panicked' = NoInodes, Empty = {}, inode' = inode, pr' = pr
         PROVE  IInv'
    <3>1. NoInodes # 1
      BY SMT DEF NoInodes
    <3>2. Panics'
      BY <2>10, <3>1 DEF Panics, Empty
    <3> QED
      BY <2>1, <2>10, <3>2, Same
  <2>11. [pr[p] EXCEPT !.pc = "create"] \in Calls
    BY <2>2 DEF Calls
  <2> QED
    BY <2>1, <2>3, <2>9, <2>10, <2>11, <1>1
<1>5. ASSUME NEW p \in Procs, ireclaim(p)
      PROVE  IInv'
  <2> USE <1>5
  <2> DEFINE l == "ireclaim_ilock"
  <2>1. /\ pr[p].pc = "ireclaim" /\ scan \in Inums /\ disk.type[scan] # 0 /\ disk.nlink[scan] = 0
        /\ scan' = scan + 1 /\ outstanding' = outstanding + 1 /\ iget(p, scan, l)
        /\ disk' = disk /\ committed' = committed /\ dlock' = dlock /\ file' = file
    BY DEF ireclaim, At, Orphan, Begun
  <2>2. /\ Types /\ pr \in [Procs -> Calls] /\ disk.type[scan] = 1 /\ outstanding \in Nat
    BY <2>1 DEF IInv, Types, Dinodes
  <2>3. /\ p = First /\ Booting
        /\ \A q \in Procs : pr[q].pc \in {"off", "ireclaim"}
        /\ \A s \in Slots : inode[s].ref = 0
    BY <2>1, TableEmpty
  <2>4. \A q \in Procs : pr[q].pc \notin Creating /\ pr[q].pc # "itrunc"
    BY <2>3 DEF Creating
  <2>5. Gives(p, scan, l)
    BY <2>1, <2>2, <2>4 DEF Gives
  <2>6. ASSUME NEW s \in Slots, NEW v \in {0, 1}, Gains(p, s, scan, l, v), panicked' = 0
        PROVE  IInv'
    <3>1. Moves(p, l, s, pr[p].op, pr[p].name) /\ inode' \in [Slots -> Cached] /\ inode'[s].inum = scan
      BY <2>6 DEF Gains, Sets
    <3>2. outstanding' \in Nat /\ scan' \in 1..NINUM + 1 /\ scan' - 1 = scan /\ scan' - 2 = scan - 1
      <4>1. outstanding' = outstanding + 1 /\ outstanding \in Nat /\ scan' = scan + 1 /\ scan \in 1..NINUM /\ NINUM \in Nat
        BY <2>1, <2>2, ItableAssumption DEF Inums
      <4> HIDE <1>5
      <4> QED
        BY <4>1, SMTT(30)
    <3>3. Types'
      BY <2>1, <2>2, <2>6, <3>1, <3>2 DEF Types, Moves
    <3>4. pr'[p].pc = l /\ pr'[p].op = pr[p].op /\ pr'[p].ip = s
      BY <3>1 DEF Moves
    <3>5. OutstandingHere(p)
      <4>1. ~Busy(p) /\ Busy(p)'
        BY <2>1, <3>4 DEF Busy
      <4>2. Bit(Busy(p)) = 0 /\ Bit(Busy(p)') = 1
        BY <4>1 DEF Bit
      <4> QED
        BY <2>1, <2>2, <4>2, AddOne DEF OutstandingHere
    <3>6. BootFor
      <4>1. \A i \in 1..scan - 1 : ~Orphan(i)
        BY <2>1, <2>3 DEF IInv, Boot
      <4>2. pr[First].op # "ireclaim"
        BY <2>1, <2>3 DEF IInv, Boot
      <4> QED
        BY <2>1, <2>3, <3>1, <3>2, <3>4, <4>1, <4>2, ZenonT(120) DEF BootFor, Orphan
    <3>7. Boot'
      BY <2>1, <2>3, <3>1, <3>6, BootMoveFirst DEF Moves
    <3>8. l \in {"ilock", "create", "ireclaim_ilock"} /\ pr[p].pc \in {"lookup", "iget", "ireclaim"}
      BY <2>1
    <3> QED
      BY <2>1, <2>5, <2>6, <3>3, <3>5, <3>7, <3>8, <1>2
  <2>7. Empty # {}
    <3>1. 1 \in Slots
      BY ItableAssumption, SMT DEF Slots
    <3> QED
      BY <2>3, <3>1 DEF Empty
  <2>8. [pr[p] EXCEPT !.pc = l] \in Calls
    BY <2>2 DEF Calls
  <2> QED
    BY <2>1, <2>6, <2>7, <2>8, <1>1
<1> QED
  BY <1>3, <1>4, <1>5

\* The steps of a process that has no pointer, and gets none
LEMMA QuietKeeps ==
  ASSUME Counting, IInv, panicked = 0
  PROVE  /\ \A p \in Procs : dirlookup_fails(p) \/ ialloc_fails(p) \/ end_op(p) \/ ireclaim_skip(p) => IInv'
         /\ \A p \in Procs, nm \in Names, o \in {"open", "create", "link", "unlink"} : Begin(p, o, nm) => IInv'
<1>1. ASSUME NEW p \in Procs, NEW nm \in Names,
             NEW o \in {"open", "create", "link", "unlink"}, Begin(p, o, nm)
      PROVE  IInv'
  <2> USE <1>1
  <2> /\ pr[p].pc = "idle" /\ outstanding' = outstanding + 1 /\ disk' = disk /\ committed' = committed
      /\ inode' = inode /\ dlock' = dlock /\ file' = file /\ scan' = scan /\ panicked' = 0
      /\ pr' = [pr EXCEPT ![p] = [pc |-> "lookup", op |-> o, name |-> nm, ip |-> 1]]
    BY DEF Begin, At, Begun
  <2> Types /\ pr \in [Procs -> Calls] /\ outstanding \in Nat
    BY DEF IInv, Types
  <2> Moves(p, "lookup", 1, o, nm)
    <3>1. [pc |-> "lookup", op |-> o, name |-> nm, ip |-> 1] \in Calls
      BY ItableAssumption, SMT DEF Calls, Slots, Inums
    <3> QED
      BY <3>1 DEF Moves
  <2> /\ pr[p].pc \notin Using /\ "lookup" \notin Using /\ "lookup" # "iget" /\ pr[p].pc \notin BootPCs
      /\ "lookup" \notin Creating \union {"ialloc"} /\ "lookup" # "unlink" /\ "lookup" # "ilock"
      /\ "lookup" \notin Reclaiming /\ o # "ireclaim"
    BY DEF Using, Creating, BootPCs, Reclaiming
  <2>4. Types'
    <3>1. outstanding' \in Nat
      BY SMT
    <3> QED
      BY <3>1 DEF Types, Moves
  <2>5. pr'[p].pc = "lookup" /\ pr'[p].op = o
    BY DEF Moves
  <2>6. DirHere(p)
    BY <2>5 DEF DirHere
  <2>7. OutstandingHere(p)
    <3>1. ~Busy(p) /\ Busy(p)'
      BY <2>5 DEF Busy
    <3>2. Bit(Busy(p)) = 0 /\ Bit(Busy(p)') = 1
      BY <3>1 DEF Bit
    <3> QED
      BY <3>2, SMT DEF OutstandingHere
  <2>8. Consistent' /\ Panics'
    BY CommittedStays
  <2>9. Boot'
    <3>1. ~Booting
      BY NotBooting
    <3>2. 1 \in Slots
      BY ItableAssumption, SMT DEF Slots
    <3>3. Others(p, 1)
      BY DEF Others, Moves
    <3> QED
      BY <2>5, <3>1, <3>2, <3>3, BootMove DEF BootHere, IInv
  <2> QED
    BY <2>4, <2>6, <2>7, <2>8, <2>9, QuietStep
\* dirlookup() or ialloc() finds nothing.
<1>2. ASSUME NEW p \in Procs, pr[p].pc \in {"lookup", "ialloc"},
             NEW l \in {"end_op", "ialloc"}, Goto(p, l), DirHere(p),
             dlock' \in {p, dlock}, inode' = inode,
             disk' = disk, committed' = committed, outstanding' = outstanding, file' = file, scan' = scan, panicked' = 0
      PROVE  IInv'
  <2> USE <1>2
  <2> Types /\ pr \in [Procs -> Calls]
    BY DEF IInv, Types
  <2> Moves(p, l, pr[p].ip, pr[p].op, pr[p].name)
    <3>1. [pr[p] EXCEPT !.pc = l] \in Calls
      BY DEF Calls
    <3> QED
      BY <3>1, GotoMoves
  <2>3. /\ pr[p].pc \notin Using /\ l \notin Using /\ l # "iget" /\ pr[p].pc \notin BootPCs
        /\ l \notin Reclaiming /\ l # "lookup"
    BY DEF Using, BootPCs, Reclaiming
  <2>4. Types'
    <3>1. dlock' \in Procs \union {NoProc}
      BY DEF Types
    <3> QED
      BY <3>1 DEF Types, Moves
  <2>5. pr'[p].pc = l /\ pr'[p].op = pr[p].op
    BY DEF Moves
  <2>7. OutstandingHere(p)
    <3>1. Busy(p) /\ Busy(p)'
      BY <2>5 DEF Busy
    <3> QED
      BY <3>1, Outside
  <2>8. Consistent' /\ Panics'
    BY CommittedStays
  <2>9. Boot'
    <3>1. ~Booting /\ pr[p].op # "ireclaim"
      BY <2>3, NotBooting
    <3>2. 1 \in Slots
      BY ItableAssumption, SMT DEF Slots
    <3>3. Others(p, 1)
      BY DEF Others, Moves
    <3> QED
      BY <2>3, <2>5, <3>1, <3>2, <3>3, BootMove DEF BootHere, IInv
  <2> QED
    BY <2>3, <2>4, <2>7, <2>8, <2>9, QuietStep
<1>3. ASSUME NEW p \in Procs, dirlookup_fails(p)
      PROVE  IInv'
  <2> USE <1>3
  <2> /\ pr[p].pc = "lookup" /\ dlock = NoProc /\ disk.entry[pr[p].name] = 0
      /\ inode' = inode /\ disk' = disk /\ committed' = committed /\ outstanding' = outstanding
      /\ file' = file /\ scan' = scan /\ panicked' = 0
      /\ \/ dlock' = p /\ Goto(p, "ialloc")
         \/ dlock' = dlock /\ Goto(p, "end_op")
    BY DEF dirlookup_fails, At, Found
  <2>t. pr \in [Procs -> Calls]
    BY DEF IInv, Types
  <2> CASE dlock' = p /\ Goto(p, "ialloc")
    <3>1. pr'[p].pc = "ialloc" /\ pr'[p].name = pr[p].name
      BY <2>t DEF Goto, Calls
    <3>2. DirHere(p)
      BY <3>1 DEF DirHere
    <3>3. "ialloc" \in {"end_op", "ialloc"} /\ dlock' \in {p, dlock} /\ pr[p].pc \in {"lookup", "ialloc"}
      OBVIOUS
    <3> QED
      BY <3>2, <3>3, <1>2
  <2> CASE dlock' = dlock /\ Goto(p, "end_op")
    <3>1. pr'[p].pc = "end_op" /\ "end_op" \notin Creating \union {"ialloc"}
      BY <2>t DEF Goto, Calls, Creating
    <3>2. DirHere(p)
      BY <3>1 DEF DirHere
    <3>3. "end_op" \in {"end_op", "ialloc"} /\ dlock' \in {p, dlock} /\ pr[p].pc \in {"lookup", "ialloc"}
      OBVIOUS
    <3> QED
      BY <3>2, <3>3, <1>2
  <2> QED
    OBVIOUS
<1>4. ASSUME NEW p \in Procs, ialloc_fails(p)
      PROVE  IInv'
  <2> USE <1>4
  <2> /\ pr[p].pc = "ialloc" /\ Goto(p, "end_op") /\ dlock' = dlock
      /\ inode' = inode /\ disk' = disk /\ committed' = committed /\ outstanding' = outstanding
      /\ file' = file /\ scan' = scan /\ panicked' = 0
    BY DEF ialloc_fails, At
  <2>t. pr \in [Procs -> Calls]
    BY DEF IInv, Types
  <2>2. pr'[p].pc = "end_op" /\ "end_op" \notin Creating \union {"ialloc"}
    BY <2>t DEF Goto, Calls, Creating
  <2>3. DirHere(p)
    BY <2>2 DEF DirHere
  <2>4. "end_op" \in {"end_op", "ialloc"} /\ dlock' \in {p, dlock} /\ pr[p].pc \in {"lookup", "ialloc"}
    OBVIOUS
  <2> QED
    BY <2>3, <2>4, <1>2
<1>5. ASSUME NEW p \in Procs, end_op(p)
      PROVE  IInv'
  <2> USE <1>5
  <2> DEFINE l == IF pr[p].op = "ireclaim" THEN "ireclaim" ELSE "idle"
  <2> /\ pr[p].pc = "end_op" /\ outstanding' = outstanding - 1
      /\ committed' = (IF outstanding = 1 THEN disk ELSE committed)
      /\ dlock' = (IF dlock = p THEN NoProc ELSE dlock)
      /\ pr' = [pr EXCEPT ![p] = Idle(l)]
      /\ disk' = disk /\ inode' = inode /\ file' = file /\ scan' = scan /\ panicked' = 0
    BY DEF end_op, At, Committed
  <2> Types /\ pr \in [Procs -> Calls] /\ outstanding \in Nat
    BY DEF IInv, Types
  <2> l \in {"idle", "ireclaim"} /\ l \in {"off", "idle", "ireclaim"} /\ (l = "ireclaim" <=> pr[p].op = "ireclaim")
    OBVIOUS
  <2> HIDE DEF l
  <2> Moves(p, l, Idle(l).ip, "none", Idle(l).name)
    <3>1. Idle(l) \in Calls /\ Idle(l).pc = l /\ Idle(l).op = "none"
      BY BootMemory
    <3> QED
      BY <3>1 DEF Moves
  <2>3. /\ pr[p].pc \notin Using /\ l \notin Using /\ l # "iget" /\ l # "lookup"
        /\ l \notin Creating \union {"ialloc"} /\ l # "unlink" /\ l # "ilock" /\ pr[p].pc \notin Ahead
    BY DEF Using, Creating, Ahead
  <2>4. Active # {} /\ (outstanding = 1 => Active = {p}) /\ outstanding > 0
    <3>1. p \in Active /\ IsFiniteSet(Active)
      BY ItableAssumption DEF Counting, Active
    <3>2. outstanding = Cardinality(Active)
      BY DEF IInv, Outstanding
    <3>3. Cardinality(Active) > 0 /\ (Cardinality(Active) = 1 => \A y \in Active : y = p)
      BY <3>1, Occupied
    <3> QED
      BY <3>1, <3>2, <3>3
  <2>5. Types'
    <3>1. outstanding' \in Nat
      BY <2>4, SMT
    <3>2. dlock' \in Procs \union {NoProc} /\ committed' \in Dinodes
      BY DEF Types
    <3> QED
      BY <3>1, <3>2 DEF Types, Moves
  <2> pr'[p].pc = l /\ pr'[p].op = "none"
    BY DEF Moves
  <2>7. DirHere(p)
    BY <2>3 DEF DirHere
  <2>8. OutstandingHere(p)
    <3>1. Busy(p) /\ ~Busy(p)'
      BY DEF Busy
    <3>2. Bit(Busy(p)) = 1 /\ Bit(Busy(p)') = 0
      BY <3>1 DEF Bit
    <3> QED
      BY <3>2, SMT DEF OutstandingHere
  <2>9. Consistent'
    <3> CASE outstanding = 1
      <4> ASSUME NEW i \in Inums PROVE disk.nlink[i] = Cardinality(NamesOf(disk, i))
        <5>1. \A q \in Procs : pr[q].pc \in Ahead => q \in Active
          BY DEF Ahead, Active
        <5>2. Pending(i) = {}
          BY <2>3, <2>4, <5>1 DEF Pending
        <5>3. disk.nlink[i] = Cardinality(NamesOf(disk, i)) + Cardinality(Pending(i))
          BY DEF IInv, Linked
        <5>4. Cardinality(NamesOf(disk, i)) \in Nat
          BY ItableAssumption DEF Counting, NamesOf
        <5> QED
          BY <5>2, <5>3, <5>4, SMT DEF Counting
      <4>2. \A i \in Inums : disk.type[i] = 0 => disk.nlink[i] = 0
        BY DEF IInv, FreeUnlinked
      <4>3. committed' = disk
        OBVIOUS
      <4> QED
        BY <4>2, <4>3 DEF Consistent, NamesOf
    <3> CASE outstanding # 1
      BY DEF IInv, Consistent, NamesOf
    <3> QED
      OBVIOUS
  <2>10. Panics'
    BY SMT DEF Panics, NoInodes
  <2>11. Boot'
    <3> CASE ~Booting
      <4>1. l = "idle" /\ l \notin Reclaiming
        BY DEF Booting, Reclaiming, IInv, Boot
      <4>2. 1 \in Slots
        BY ItableAssumption, SMT DEF Slots
      <4>3. Others(p, 1)
        BY DEF Others, Moves
      <4> QED
        BY <4>1, <4>2, <4>3, BootMove DEF BootHere, IInv
    <3> CASE Booting
      <4>1. p = First
        BY BootsAlone
      <4>2. l = "ireclaim" /\ \A i \in 1..scan - 1 : ~Orphan(i)
        BY <4>1 DEF Booting, Reclaiming, IInv, Boot
      <4>3. BootFor
        BY <4>1, <4>2 DEF BootFor, Orphan
      <4> QED
        BY <4>1, <4>3, BootMoveFirst DEF Moves
    <3> QED
      OBVIOUS
  <2> QED
    BY <2>3, <2>5, <2>7, <2>8, <2>9, <2>10, <2>11, QuietStep
<1>6. ASSUME NEW p \in Procs, ireclaim_skip(p)
      PROVE  IInv'
  <2> USE <1>6
  <2> /\ pr[p].pc = "ireclaim" /\ scan \in Inums /\ ~Orphan(scan) /\ scan' = scan + 1
      /\ disk' = disk /\ committed' = committed /\ outstanding' = outstanding /\ inode' = inode
      /\ dlock' = dlock /\ pr' = pr /\ file' = file /\ panicked' = 0
    BY DEF ireclaim_skip, At
  <2>t. Types /\ pr \in [Procs -> Calls]
    BY DEF IInv, Types
  <2>2. Moves(p, pr[p].pc, pr[p].ip, pr[p].op, pr[p].name)
    BY <2>t DEF Moves
  <2>3. pr[p].pc \notin Using /\ pr[p].pc # "iget" /\ pr[p].pc # "lookup" /\ pr[p].pc \notin Creating \union {"ialloc"}
    BY DEF Using, Creating
  <2>4. Types'
    <3>1. scan' \in 1..NINUM + 1
      BY ItableAssumption, SMT DEF Inums
    <3> QED
      BY <2>t, <3>1 DEF Types
  <2>5. DirHere(p)
    BY <2>3 DEF DirHere
  <2>6. OutstandingHere(p)
    BY DEF OutstandingHere, Busy
  <2>7. Consistent' /\ Panics'
    BY CommittedStays
  <2> Booting /\ p = First
    BY DEF Booting, Reclaiming, IInv, Boot
  <2>9. BootFor
    <3>1. \A i \in 1..scan - 1 : ~Orphan(i)
      BY DEF IInv, Boot
    <3>2. \A i \in 1..scan' - 1 : i \in 1..scan - 1 \/ i = scan
      BY SMT DEF Inums
    <3>3. \A i \in 1..scan' - 1 : ~Orphan(i)
      BY <3>1, <3>2
    <3>4. pr[First].op # "ireclaim"
      BY DEF IInv, Boot
    <3> QED
      BY <3>3, <3>4 DEF BootFor, Orphan
  <2>10. Boot'
    BY <2>9, BootMoveFirst
  <2> QED
    BY <2>2, <2>3, <2>4, <2>5, <2>6, <2>7, <2>10, QuietStep
<1> QED
  BY <1>1, <1>3, <1>4, <1>5, <1>6

\* A pointer goes from a system call to a file, or from a file to a system call.
HandsOver(p, s) ==
  /\ \A q \in Procs : q # p => file'[q] = file[q]
  /\ \/ pr[p].pc = "opened" /\ pr[p].ip = s /\ pr'[p].pc = "end_op" /\ file[p] = 0 /\ file'[p] = s
        /\ pr'[p].op = pr[p].op
     \/ pr[p].pc = "idle" /\ file[p] = s /\ pr'[p].pc = "iput" /\ pr'[p].ip = s /\ file'[p] = 0
        /\ pr'[p].op = "close"

\* Open files
LEMMA FileKeeps ==
  ASSUME Counting, IInv, panicked = 0, Opening
  PROVE  \A p \in Procs : open_file(p) \/ sys_close(p) => IInv'
<1>1. ASSUME Types', NEW p \in Procs, NEW s \in Slots, NEW a, NEW o, NEW nm, NEW l, Moves(p, l, a, o, nm),
             HandsOver(p, s), NEW k, Sets(s, inode[s].ref, inode[s].inum, inode[s].valid, inode[s].type, inode[s].nlink, k),
             IF pr[p].pc = "opened" THEN k = NoProc ELSE k = inode[s].lock,
             disk' = disk, committed' = committed, dlock' = dlock, scan' = scan, panicked' = 0, OutstandingHere(p)
      PROVE  IInv'
  <2> USE <1>1
  <2> DEFINE i == inode[s].inum
  <2>l. /\ pr[p].pc \in {"opened", "idle"} /\ pr'[p].pc \in {"end_op", "iput"} /\ pr'[p].pc = l /\ pr'[p].ip = a
        /\ pr'[p].op # "ireclaim" \/ pr'[p].op = pr[p].op
    BY DEF HandsOver, Moves
  <2> /\ pr'[p].pc \notin Locking /\ pr'[p].pc \notin Ahead /\ pr[p].pc \notin Ahead /\ pr'[p].pc \notin Creating
      /\ pr'[p].pc \notin Creating \union {"ialloc"} /\ pr'[p].pc \notin Reclaiming /\ pr[p].pc \notin BootPCs
      /\ (pr[p].pc \in Locking <=> pr[p].pc = "opened") /\ (pr[p].pc \in Using <=> pr[p].pc = "opened")
      /\ (pr'[p].pc \in Using <=> pr'[p].pc = "iput") /\ pr'[p].pc \notin {"iget", "ilock", "lookup", "unlink", "itrunc"}
      /\ pr[p].pc # "freed" /\ (Held(p) <=> pr[p].pc = "opened")
    BY <2>l DEF Locking, Ahead, Creating, Reclaiming, BootPCs, Using, Held, Leaving
  <2>t. inode \in [Slots -> Cached] /\ pr[p].name \in Names
    BY DEF IInv, Types, Calls
  <2> s # 0
    BY SMT DEF Slots
  <2> i \in Inums /\ inode[s].ref > 0
    <3> CASE pr[p].pc = "opened"
      BY Referenced DEF HandsOver, Inum
    <3> CASE pr[p].pc # "opened"
      BY Referenced DEF HandsOver
    <3> QED
      OBVIOUS
  <2> /\ inode'[s].ref = inode[s].ref /\ inode'[s].inum = i /\ inode'[s].valid = inode[s].valid
      /\ inode'[s].type = inode[s].type /\ inode'[s].nlink = inode[s].nlink /\ inode'[s].lock = k
    BY DEF Sets
  <2>3. Others(p, s) /\ BoundedHere(s)
    BY DEF Others, Moves, Sets, HandsOver, BoundedHere
  <2> Touches(i) /\ SameDinode(i) /\ FreeHere(i)
    BY DiskStays
  <2>5. PointersHere(p, s)
    BY DEF PointersHere, HandsOver
  <2>6. CountedHere(p)
    <3>1. \A u \in Slots : inode'[u].ref = inode[u].ref
      BY DEF Sets
    <3> ASSUME NEW u \in Slots PROVE Points(p, u) = Points(p, u)'
      <4> u # 0 /\ 1 + 0 = 0 + 1
        BY SlotNumbers
      <4> CASE u = s /\ pr[p].pc = "opened"
        <5>1. Points(p, u) = 1 + 0
          BY DEF Points, Bit, HandsOver
        <5>2. Points(p, u)' = 0 + 1
          BY DEF Points, Bit, HandsOver
        <5> QED
          BY <5>1, <5>2
      <4> CASE u = s /\ pr[p].pc # "opened"
        <5>1. Points(p, u) = 0 + 1
          BY DEF Points, Bit, HandsOver
        <5>2. Points(p, u)' = 1 + 0
          BY DEF Points, Bit, HandsOver
        <5> QED
          BY <5>1, <5>2
      <4> CASE u # s
        <5>1. Points(p, u) = 0 + 0
          BY DEF Points, Bit, HandsOver
        <5>2. Points(p, u)' = 0 + 0
          BY DEF Points, Bit, HandsOver
        <5> QED
          BY <5>1, <5>2
      <4> QED
        OBVIOUS
    <3> QED
      BY <3>1 DEF CountedHere
  <2>7. OneEntryHere(s)
    BY DEF OneEntryHere, IInv, OneEntry
  <2>8. LocksHere(p, s)
    <3> CASE pr[p].pc = "opened"
      <4>1. pr[p].ip = s /\ inode[s].lock = p
        BY DEF HandsOver, IInv, Locks
      <4> QED
        BY <4>1 DEF LocksHere
    <3> CASE pr[p].pc # "opened"
      <4>0. p # NoProc
        BY ItableAssumption
      <4>1. inode[s].lock # p
        BY <4>0 DEF IInv, Locks
      <4> QED
        BY <4>1 DEF LocksHere
    <3> QED
      OBVIOUS
  <2>9. DirHere(p)
    BY DEF DirHere
  <2>10. /\ disk.type[i] = 1
         /\ \A q \in Procs : q # p /\ pr[q].pc \in Creating => i # NewInum(q)
         /\ \A q \in Procs : q # p /\ pr[q].pc = "itrunc" => pr[q].ip # s /\ pr[q].ip # 0
    <3>0. \A q \in Procs : pr[q].pc = "itrunc" => pr[q].ip # 0
      <4>1. \A q \in Procs : pr[q].pc = "itrunc" => pr[q].ip \in Slots
        BY DEF Using, IInv, Pointers
      <4> QED
        BY <4>1, SMT DEF Slots
    <3> CASE pr[p].pc = "opened"
      <4>1. pr[p].ip = s /\ Inum(p) = i
        BY DEF HandsOver, Inum
      <4>2. disk.type[i] = 1
        BY <4>1 DEF IInv, Allocated, Held
      <4>3. \A q \in Procs : q # p /\ pr[q].pc \in Creating => i # NewInum(q)
        BY <4>1 DEF IInv, Fresh, Held
      <4>4. \A q \in Procs : q # p /\ pr[q].pc = "itrunc" => pr[q].ip # s
        BY <4>1 DEF IInv, Alone
      <4> QED
        BY <3>0, <4>2, <4>3, <4>4
    <3> CASE pr[p].pc # "opened"
      <4>1. file[p] = s /\ file[p] # 0
        BY DEF HandsOver
      <4>2. disk.type[i] = 1
        BY <4>1 DEF IInv, Allocated
      <4>3. \A q \in Procs : q # p /\ pr[q].pc \in Creating => i # NewInum(q)
        BY <4>1 DEF IInv, Fresh
      <4>4. \A q \in Procs : q # p /\ pr[q].pc = "itrunc" => pr[q].ip # s
        BY <4>1 DEF IInv, Alone
      <4> QED
        BY <3>0, <4>2, <4>3, <4>4
    <3> QED
      OBVIOUS
  <2>11. FreshHere(p, i)
    BY <2>10 DEF FreshHere, HandsOver
  <2>12. AllocatedHere(p, i)
    BY <2>10 DEF AllocatedHere, HandsOver
  <2>13. AloneHere(p, s, i)
    BY <2>10 DEF AloneHere, HandsOver
  <2>14. AgreeHere(p, s, i)
    <3>1. AgreeFor(s)
      <4>1. k = inode[s].lock \/ inode[s].lock \in {p, NoProc}
        BY <2>8 DEF LocksHere
      <4> QED
        BY <2>3, <4>1, AgreeStays
    <3> QED
      BY <2>8, <3>1 DEF AgreeHere, AgreeFor, LocksHere
  <2>15. LinkedHere(p, pr[p].name)
    BY <2>t, LinkedStays
  <2>16. Consistent' /\ Panics'
    BY CommittedStays
  <2>17. Boot'
    <3>1. ~Booting /\ pr[p].op # "ireclaim"
      BY NotBooting
    <3> QED
      BY <2>l, <2>3, <3>1, BootMove DEF BootHere, IInv
  <2> HIDE DEF i
  <2> QED
    BY <2>t, <2>3, <2>5, <2>6, <2>7, <2>8, <2>9, <2>11, <2>12, <2>13, <2>14, <2>15, <2>16, <2>17, Moved
<1>2. ASSUME NEW p \in Procs, open_file(p)
      PROVE  IInv'
  <2> USE <1>2
  <2> DEFINE s == pr[p].ip
  <2> /\ pr[p].pc = "opened" /\ file' = [file EXCEPT ![p] = s] /\ inode' = [inode EXCEPT ![s].lock = NoProc]
      /\ Goto(p, "end_op") /\ disk' = disk /\ committed' = committed /\ outstanding' = outstanding
      /\ dlock' = dlock /\ scan' = scan /\ panicked' = 0
    BY DEF open_file, At, iunlock
  <2>1. file[p] = 0
    BY DEF Opening, Opens
  <2>2. Types /\ pr \in [Procs -> Calls] /\ inode \in [Slots -> Cached] /\ file \in [Procs -> {0} \union Slots]
    BY DEF IInv, Types
  <2>3. pr[p].pc \in Using
    BY DEF Using
  <2>4. s \in Slots
    BY <2>3 DEF IInv, Pointers
  <2>5. Moves(p, "end_op", s, pr[p].op, pr[p].name)
    <3>1. [pr[p] EXCEPT !.pc = "end_op"] \in Calls
      BY <2>2 DEF Calls
    <3> QED
      BY <2>2, <3>1, GotoMoves
  <2>6. Sets(s, inode[s].ref, inode[s].inum, inode[s].valid, inode[s].type, inode[s].nlink, NoProc)
    BY <2>2, <2>4, LockSets
  <2>7. file' \in [Procs -> {0} \union Slots] /\ file'[p] = s /\ \A q \in Procs : q # p => file'[q] = file[q]
    BY <2>2, <2>4
  <2>8. Types'
    BY <2>2, <2>5, <2>6, <2>7 DEF Types, Moves, Sets
  <2>9. HandsOver(p, s)
    BY <2>1, <2>5, <2>7 DEF HandsOver, Moves
  <2>10. OutstandingHere(p)
    <3>1. Busy(p) /\ Busy(p)'
      BY <2>5 DEF Busy, Moves
    <3> QED
      BY <3>1, Outside
  <2> HIDE DEF s
  <2> QED
    BY <2>4, <2>5, <2>6, <2>8, <2>9, <2>10, <1>1
<1>3. ASSUME NEW p \in Procs, sys_close(p)
      PROVE  IInv'
  <2> USE <1>3
  <2> DEFINE s == file[p]
             r == [pc |-> "iput", op |-> "close", name |-> NoName, ip |-> s]
  <2> /\ pr[p].pc = "idle" /\ s # 0 /\ outstanding' = outstanding + 1 /\ pr' = [pr EXCEPT ![p] = r]
      /\ file' = [file EXCEPT ![p] = 0] /\ disk' = disk /\ committed' = committed /\ inode' = inode
      /\ dlock' = dlock /\ scan' = scan /\ panicked' = 0
    BY DEF sys_close, At, Begun
  <2>2. /\ Types /\ pr \in [Procs -> Calls] /\ inode \in [Slots -> Cached] /\ file \in [Procs -> {0} \union Slots]
        /\ outstanding \in Nat
    BY DEF IInv, Types
  <2>3. s \in Slots
    BY <2>2
  <2>4. r \in Calls /\ r.pc = "iput" /\ r.op = "close" /\ r.ip = s
    BY <2>3, NameIsName DEF Calls
  <2>5. Moves(p, "iput", s, "close", r.name)
    BY <2>2, <2>4 DEF Moves
  <2>6. Sets(s, inode[s].ref, inode[s].inum, inode[s].valid, inode[s].type, inode[s].nlink, inode[s].lock)
    BY <2>2 DEF Sets
  <2>7. file' \in [Procs -> {0} \union Slots] /\ file'[p] = 0 /\ \A q \in Procs : q # p => file'[q] = file[q]
    BY <2>2
  <2>8. Types'
    <3>1. outstanding' \in Nat
      BY <2>2, AddOne
    <3> QED
      BY <2>2, <2>5, <2>7, <3>1 DEF Types, Moves
  <2>9. HandsOver(p, s)
    BY <2>5, <2>7 DEF HandsOver, Moves
  <2>10. OutstandingHere(p)
    <3>1. ~Busy(p) /\ Busy(p)'
      BY <2>5 DEF Busy, Moves
    <3>2. Bit(Busy(p)) = 0 /\ Bit(Busy(p)') = 1
      BY <3>1 DEF Bit
    <3> QED
      BY <2>2, <3>2, AddOne DEF OutstandingHere
  <2> HIDE DEF s, r
  <2> QED
    BY <2>3, <2>5, <2>6, <2>8, <2>9, <2>10, <1>1
<1> QED
  BY <1>2, <1>3

LEMMA iallocKeeps ==
  ASSUME Counting, IInv, panicked = 0, NEW p \in Procs, NEW i \in Inums, ialloc(p, i)
  PROVE  IInv'
<1> DEFINE s == 1
<1> s \in Slots
  BY ItableAssumption, SMT DEF Slots
<1> HIDE DEF s
<1> /\ pr[p].pc = "ialloc" /\ disk.type[i] = 0 /\ pr' = [pr EXCEPT ![p].pc = "iget", ![p].ip = i]
    /\ committed' = committed /\ outstanding' = outstanding /\ inode' = inode
    /\ dlock' = dlock /\ file' = file /\ scan' = scan /\ panicked' = 0
  BY DEF ialloc, At
<1>t. /\ Types /\ pr \in [Procs -> Calls] /\ inode \in [Slots -> Cached] /\ disk \in Dinodes
      /\ pr[p].name \in Names
  BY DEF IInv, Types, Calls
<1>w. Writes(i, 1, 0)
  <2>1. disk' = [disk EXCEPT !.type[i] = 1, !.nlink[i] = 0]
    BY DEF ialloc
  <2>2. 1 \in {0, 1} /\ 0 \in Nat
    BY SMT
  <2> QED
    BY <1>t, <2>1, <2>2, DinodeWrites
<1>1. Moves(p, "iget", i, pr[p].op, pr[p].name)
  BY <1>t DEF Moves, Calls
<1> /\ pr'[p].pc = "iget" /\ pr'[p].ip = i /\ pr'[p].op = pr[p].op /\ pr'[p].name = pr[p].name
    /\ \A q \in Procs : q # p => pr'[q] = pr[q]
  BY <1>1 DEF Moves
<1> /\ disk'.type[i] = 1 /\ disk'.nlink[i] = 0 /\ disk'.entry = disk.entry /\ Touches(i)
  BY <1>w DEF Writes
<1> disk.nlink[i] = 0
  BY DEF IInv, FreeUnlinked
<1>l. /\ pr[p].pc \notin Using /\ pr[p].pc \notin Locking /\ pr[p].pc \notin Ahead /\ pr[p].pc \notin BootPCs
      /\ "iget" \notin Using /\ "iget" \notin Locking /\ "iget" \notin Ahead /\ "iget" \notin Reclaiming
      /\ "iget" \in Creating
  BY DEF Using, Locking, Ahead, BootPCs, Reclaiming, Creating
<1>2. Types'
  BY <1>t, <1>1, <1>w DEF Types, Moves, Writes
<1>3. Others(p, s) /\ BoundedHere(s)
  BY DEF Others, BoundedHere
<1>4. PointersHere(p, s)
  BY <1>l DEF PointersHere, IInv, Pointers
<1>5. CountedHere(p)
  <2>1. \A u \in Slots : Points(p, u)' = Points(p, u)
    BY <1>l DEF Points, Bit
  <2> QED
    BY <2>1 DEF CountedHere
<1>6. OneEntryHere(s)
  BY DEF OneEntryHere, IInv, OneEntry
<1>7. \A u \in Slots : inode[u].lock # p
  <2>1. p # NoProc
    BY ItableAssumption
  <2> QED
    BY <1>l, <2>1 DEF IInv, Locks
<1>8. LocksHere(p, s)
  BY <1>l, <1>7 DEF LocksHere
<1>9. dlock = p /\ disk.entry[pr[p].name] = 0
  BY DEF IInv, Dir
<1>10. DirHere(p)
  BY <1>9 DEF DirHere
<1>11. /\ \A q \in Procs : Held(q) => Inum(q) # i
       /\ \A q \in Procs : file[q] # 0 => inode[file[q]].inum # i
  <2>1. \A q \in Procs : Held(q) => disk.type[Inum(q)] = 1
    BY DEF IInv, Allocated, Held
  <2>2. \A q \in Procs : file[q] # 0 => disk.type[inode[file[q]].inum] = 1
    BY DEF IInv, Allocated
  <2>3. 0 # 1
    BY SMT
  <2> QED
    BY <2>1, <2>2, <2>3
<1>12. \A q \in Procs : q # p => pr[q].pc \notin Creating
  BY <1>9 DEF IInv, Dir
<1>13. FreshHere(p, i)
  <2>1. FreshFor(p)
    BY <1>11 DEF FreshFor
  <2> QED
    BY <1>12, <2>1 DEF FreshHere
<1>14. AllocatedHere(p, i)
  <2>1. file[p] # 0 => inode[file[p]].inum \in Inums /\ disk.type[inode[file[p]].inum] = 1
    BY Referenced DEF IInv, Allocated
  <2> QED
    BY <1>l, <1>11, <2>1 DEF AllocatedHere, Touches
<1>15. AloneHere(p, s, i)
  <2>1. "itrunc" \in Using \ Leaving
    BY DEF Using, Leaving
  <2> QED
    BY <1>l, <1>11, <2>1 DEF AloneHere, IInv, Alone, Held
<1>16. AgreeHere(p, s, i)
  <2> ASSUME NEW u \in Slots, inode[u].ref > 0, inode[u].valid = 1
      PROVE  \/ Freeing(u) /\ inode[u].lock # NoProc /\ pr'[inode[u].lock].pc = "freed"
             \/ /\ inode[u].inum # i /\ disk'.type[inode[u].inum] = 1 /\ inode[u].type = 1
                /\ inode[u].nlink = disk'.nlink[inode[u].inum]
    <3> CASE Freeing(u)
      <4>1. inode[u].lock \in Procs
        BY <1>t DEF Cached, Freeing
      <4> QED
        BY <1>7, <4>1 DEF Freeing
    <3> CASE ~Freeing(u)
      <4>1. /\ disk.type[inode[u].inum] = 1 /\ inode[u].type = 1
            /\ inode[u].nlink = disk.nlink[inode[u].inum] /\ inode[u].inum \in Inums
        BY DEF IInv, Agree, Pointers
      <4>2. 0 # 1
        BY SMT
      <4> QED
        BY <4>1, <4>2 DEF Touches
    <3> QED
      OBVIOUS
  <2> QED
    BY <1>l DEF AgreeHere
<1>17. LinkedHere(p, pr[p].name)
  <2>1. \A j \in Inums : Owes(p, pr[p].name, j)' = Owes(p, pr[p].name, j)
    BY <1>l DEF Owes, Bit
  <2>2. \A j \in Inums : disk'.nlink[j] = disk.nlink[j]
    BY DEF Touches
  <2> QED
    BY <2>1, <2>2 DEF LinkedHere
<1>18. FreeHere(i)
  BY DEF FreeHere
<1>19. OutstandingHere(p)
  <2>1. Busy(p) /\ Busy(p)'
    BY DEF Busy
  <2> QED
    BY <2>1, Outside
<1>20. Consistent' /\ Panics'
  BY CommittedStays
<1>21. Boot'
  <2>1. ~Booting /\ pr[p].op # "ireclaim"
    BY <1>l, NotBooting
  <2> QED
    BY <1>l, <1>3, <2>1, BootMove DEF BootHere, IInv
<1> QED
  BY <1>t, <1>2, <1>3, <1>4, <1>5, <1>6, <1>8, <1>10, <1>13, <1>14, <1>15, <1>16, <1>17, <1>18, <1>19, <1>20, <1>21, Moved

-----------------------------------------------------------------------------
\* What the step does to the call and to the entry.
Works(p, s, i) ==
  /\ Others(p, s) /\ Touches(i) /\ inode'[s].inum = i /\ file' = file
  /\ committed' = committed /\ outstanding' = outstanding /\ panicked' = 0
  /\ pr'[p].ip = s
  /\ \/ pr'[p].pc \in Using /\ inode'[s].ref = inode[s].ref
     \/ pr'[p].pc \notin Using /\ inode'[s].ref = inode[s].ref - 1
  /\ pr'[p].pc \notin {"iget", "ilock", "lookup", "create", "off", "idle", "ireclaim"}
  /\ pr'[p].pc \in Using \ Leaving => Held(p)
  /\ Held(p) \/ SameDinode(i)

LEMMA OnEntry ==
  ASSUME Counting, IInv, Types', NEW p \in Procs, NEW s \in Slots, NEW i \in Inums, pr[p].pc \in Using, s = pr[p].ip, i = Inum(p),
         Works(p, s, i), BoundedHere(s), inode'[s].nlink = inode[s].nlink \/ Held(p),
         pr'[p].pc \in Creating => FreshFor(p), pr'[p].pc = "itrunc" => AloneFor(p),
         LocksHere(p, s), DirHere(p), AllocatedHere(p, i), AgreeFor(s),
         NEW nm \in Names, LinkedHere(p, nm), FreeHere(i), Boot'
  PROVE  IInv'
<1>1. Others(p, s) /\ Touches(i)
  BY DEF Works
<1>2. AgreeHere(p, s, i)
  <2>1. inode[s].ref > 0 /\ inode[s].inum = i
    BY Referenced DEF Inum
  <2>2. \A t \in Slots : t # s /\ inode[t].ref > 0 => inode[t].inum # i
    BY <2>1 DEF IInv, OneEntry
  <2> QED
    BY <2>2 DEF AgreeHere, AgreeFor, LocksHere
<1>3. Consistent' /\ Panics'
  BY CommittedStays DEF Works
<1>4. PointersHere(p, s) /\ OneEntryHere(s)
  <2>1. PointersHere(p, s)
    BY DEF Works, PointersHere
  <2>2. inode[s].ref > 0
    BY Referenced
  <2>3. OneEntryHere(s)
    BY <2>2 DEF OneEntryHere, IInv, OneEntry, Works, Inum
  <2> QED
    BY <2>1, <2>3
<1>5. CountedHere(p) /\ OutstandingHere(p)
  <2> ASSUME NEW t \in Slots PROVE inode'[t].ref + Points(p, t) = inode[t].ref + Points(p, t)'
    <3> /\ inode[t].ref \in Nat /\ Bit(file[p] = t) \in {0, 1} /\ inode[s].ref \in Nat
        /\ file'[p] = file[p]
      BY BitType DEF IInv, Types, Cached, Works
    <3> CASE t = s
      <4>1. Points(p, t) = 1 + Bit(file[p] = t)
        BY DEF Points, Bit
      <4> CASE pr'[p].pc \in Using
        <5>1. Points(p, t)' = 1 + Bit(file[p] = t)
          BY DEF Points, Bit, Works
        <5>2. inode'[t].ref = inode[t].ref
          BY DEF Works
        <5> QED
          BY <4>1, <5>1, <5>2
      <4> CASE pr'[p].pc \notin Using
        <5>1. Points(p, t)' = 0 + Bit(file[p] = t)
          BY DEF Points, Bit, Works
        <5>2. inode'[t].ref = inode[t].ref - 1
          BY DEF Works
        <5>3. inode[t].ref - 1 + (1 + Bit(file[p] = t)) = inode[t].ref + (0 + Bit(file[p] = t))
          BY OneLess
        <5> QED
          BY <4>1, <5>1, <5>2, <5>3
      <4> QED
        OBVIOUS
    <3> CASE t # s
      <4>1. Points(p, t) = Points(p, t)'
        BY DEF Points, Bit, Works
      <4>2. inode'[t] = inode[t]
        BY DEF Works, Others
      <4> QED
        BY <4>1, <4>2
    <3> QED
      OBVIOUS
  <2>2. Busy(p) /\ Busy(p)'
    <3>1. Busy(p)
      BY DEF Using, Busy
    <3>2. Busy(p)'
      BY DEF Works, Busy
    <3> QED
      BY <3>1, <3>2
  <2>3. OutstandingHere(p)
    <3>1. Bit(Busy(p)) = 1 /\ Bit(Busy(p)') = 1
      BY <2>2 DEF Bit
    <3> QED
      BY <3>1 DEF Works, OutstandingHere
  <2> QED
    BY <2>3 DEF CountedHere
<1>6. FreshHere(p, i) /\ AloneHere(p, s, i)
  <2>0. \A q \in Procs : file[q] # 0 => inode'[file[q]].inum = inode[file[q]].inum
    BY InumsStay DEF Works
  <2> ASSUME NEW q \in Procs, q # p, pr[q].pc \in Creating
      PROVE  /\ NewInum(q) # i \/ SameDinode(i)
             /\ pr'[p].pc \in Using \ Leaving => inode'[pr'[p].ip].inum # NewInum(q)
             /\ file'[p] # 0 => inode'[file'[p]].inum # NewInum(q)
    <3>1. /\ Held(p) => i # NewInum(q)
          /\ file[p] # 0 => inode[file[p]].inum # NewInum(q)
      BY DEF IInv, Fresh, Held
    <3> QED
      BY <2>0, <3>1 DEF Works
  <2> ASSUME NEW q \in Procs, q # p, pr[q].pc = "itrunc"
      PROVE  /\ Inum(q) # i \/ SameDinode(i)
             /\ pr[q].ip # s \/ inode'[s].nlink = inode[s].nlink
             /\ pr'[p].pc \in Using => pr'[p].ip # pr[q].ip
             /\ file'[p] # pr[q].ip
    <3>0. pr[q].pc \in Using
      BY DEF Using
    <3>1. pr[q].ip # s /\ file[p] # pr[q].ip
      BY DEF IInv, Alone
    <3>2. Inum(q) # i
      BY <3>0, <3>1, Referenced DEF IInv, OneEntry, Inum
    <3> QED
      BY <3>1, <3>2 DEF Works
  <2> QED
    BY DEF FreshHere, AloneHere
<1> QED
  BY <1>1, <1>2, <1>3, <1>4, <1>5, <1>6, Moved

LEMMA TypesStay ==
  ASSUME Counting, IInv, NEW p \in Procs, NEW s \in Slots, NEW i, Others(p, s), file' = file,
         disk'.type = disk.type, pr'[p].pc \in Using \ Leaving => Held(p) /\ inode'[pr'[p].ip].inum = Inum(p)
  PROVE  AllocatedHere(p, i)
<1>1. file[p] # 0 => inode'[file[p]].inum = inode[file[p]].inum
  BY InumsStay
<1>2. /\ Held(p) => disk.type[Inum(p)] = 1
      /\ file[p] # 0 => disk.type[inode[file[p]].inum] = 1
  BY DEF IInv, Allocated, Held
<1> QED
  BY <1>1, <1>2 DEF AllocatedHere

\* An entry that is valid and not being freed
LEMMA ValidAgrees ==
  ASSUME Counting, IInv, NEW p \in Procs, pr[p].pc \in Using, inode[pr[p].ip].valid = 1,
         inode[pr[p].ip].lock = NoProc \/ (inode[pr[p].ip].lock = p /\ pr[p].pc # "freed")
  PROVE  /\ disk.type[Inum(p)] = 1 /\ inode[pr[p].ip].type = 1
         /\ inode[pr[p].ip].nlink = disk.nlink[Inum(p)]
<1>1. pr[p].ip \in Slots /\ inode[pr[p].ip].ref > 0
  BY Referenced
<1>2. ~Freeing(pr[p].ip)
  BY DEF Freeing
<1> QED
  BY <1>1, <1>2 DEF IInv, Agree, Inum

\* What a process sees of an inode that it has locked.
LEMMA LockedAgrees ==
  ASSUME Counting, IInv, NEW p \in Procs, pr[p].pc \in Locking, pr[p].pc # "freed"
  PROVE  /\ pr[p].ip \in Slots /\ Inum(p) \in Inums /\ pr[p].pc \in Using /\ Held(p)
         /\ inode[pr[p].ip].lock = p /\ inode[pr[p].ip].valid = 1
         /\ disk.type[Inum(p)] = 1 /\ inode[pr[p].ip].type = 1
         /\ inode[pr[p].ip].nlink = disk.nlink[Inum(p)] /\ disk.nlink[Inum(p)] \in Nat
<1>1. pr[p].pc \in Using /\ Held(p)
  BY DEF Locking, Using, Held, Leaving
<1>2. inode[pr[p].ip].lock = p /\ inode[pr[p].ip].valid = 1
  BY DEF IInv, Locks
<1>3. pr[p].ip \in Slots /\ Inum(p) \in Inums
  BY <1>1, Referenced
<1>4. disk.nlink[Inum(p)] \in Nat
  BY <1>3 DEF IInv, Types, Dinodes
<1> QED
  BY <1>1, <1>2, <1>3, <1>4, ValidAgrees

-----------------------------------------------------------------------------
\* Where ilock() is called, and where it returns to.
Locked(p, l) ==
  /\ l \in {"opened", "unlink", "link", "create_update", "nlink_dec", "ireclaim_iput"}
  /\ pr[p].pc \in {"ilock", "create", "link_bad", "ireclaim_ilock"}
  /\ l = "create_update" <=> pr[p].pc = "create"
  /\ l = "nlink_dec" <=> pr[p].pc = "link_bad"
  /\ l = "ireclaim_iput" <=> pr[p].pc = "ireclaim_ilock"
  /\ l = "unlink" => pr[p].op = "unlink"

Filled(r, k, t, n) == [r EXCEPT !.lock = k, !.valid = 1, !.type = t, !.nlink = n]

\* sys_link()'s dirlink() fails.
linkFails(p) ==
  /\ At(p, "link_dirlink") /\ Goto(p, "link_bad")
  /\ UNCHANGED <<disk, committed, outstanding, inode, dlock, file, scan, panicked>>

\* The steps on an entry of the table that leave the disk alone
LEMMA EntryKeeps ==
  ASSUME Counting, IInv, panicked = 0
  PROVE  /\ \A p \in Procs : iput(p) \/ iput_last(p) \/ iput_release(p) \/ iput_unref(p) \/ call_ilock(p) \/ create_ilock(p)
                            \/ open_fails(p) \/ link_bad(p) \/ ireclaim_ilock(p) \/ ireclaim_iput(p) => IInv'
         /\ \A p \in Procs : linkFails(p) => IInv'
\* A step of a process that keeps its pointer, and leaves the disk alone.
<1>1. ASSUME NEW p \in Procs, NEW s, NEW i, s = pr[p].ip, i = Inum(p), pr[p].pc \in Using,
             NEW l, NEW o, Moves(p, l, s, o, pr[p].name),
             NEW v, NEW t, NEW n, NEW k, Sets(s, inode[s].ref, i, v, t, n, k),
             disk' = disk, committed' = committed, outstanding' = outstanding, dlock' = dlock,
             file' = file, scan' = scan, panicked' = 0,
             l \in Using, l \notin {"ilock", "create"}, l \in Leaving \/ Held(p),
             l \in Ahead <=> pr[p].pc \in Ahead,
             l \in Creating => l = "create_update" /\ pr[p].pc = "create",
             l = "unlink" => pr[p].pc = "ilock" /\ pr[p].op = "unlink",
             n = inode[s].nlink \/ (Held(p) /\ n = disk.nlink[i]),
             l = "itrunc" => AloneFor(p), LocksHere(p, s), AgreeFor(s),
             ~Booting => l \notin Reclaiming /\ o # "ireclaim", Booting => BootFor
      PROVE  IInv'
  <2> USE <1>1
  <2>t. Types /\ pr[p].name \in Names
    BY DEF IInv, Types, Calls
  <2>1. /\ l \notin {"iget", "ilock", "lookup", "create", "off", "idle", "ireclaim"}
        /\ l # "ialloc"
    BY DEF Using
  <2> s \in Slots /\ inode[s].ref > 0 /\ i \in Inums
    BY Referenced
  <2>3. Types'
    BY <2>t DEF Types, Moves, Sets, NoInodes
  <2> /\ pr'[p].pc = l /\ pr'[p].ip = s /\ pr'[p].op = o /\ pr'[p].name = pr[p].name
      /\ inode'[s].inum = i /\ inode'[s].ref = inode[s].ref /\ inode'[s].nlink = n
    BY DEF Moves, Sets
  <2> Others(p, s)
    BY DEF Others, Moves, Sets, Inum
  <2>5. Touches(i) /\ SameDinode(i) /\ FreeHere(i)
    BY DiskStays
  <2>b. BoundedHere(s)
    BY DEF BoundedHere
  <2>7. Works(p, s, i)
    BY <2>1, <2>5 DEF Works
  <2>9. DirHere(p)
    <3>1. l \in Creating \union {"ialloc"} => dlock = p /\ disk.entry[pr[p].name] = 0
      BY <2>1 DEF IInv, Dir, Creating
    <3>2. l = "unlink" => dlock = p /\ disk.entry[pr[p].name] = i
      BY DEF IInv, Dir
    <3> QED
      BY <2>1, <3>1, <3>2 DEF DirHere
  <2>11. LinkedHere(p, pr[p].name)
    BY <2>t, LinkedStays
  <2>12. AllocatedHere(p, i)
    BY TypesStay
  <2>13. Boot'
    <3> CASE ~Booting
      BY BootMove DEF BootHere, IInv
    <3> CASE Booting
      <4>1. p = First
        BY BootsAlone DEF Using
      <4> QED
        BY <4>1, BootMoveFirst DEF Moves
    <3> QED
      OBVIOUS
  <2>14. pr'[p].pc \in Creating => FreshFor(p)
    <3> SUFFICES ASSUME l \in Creating PROVE FreshFor(p)
      OBVIOUS
    <3>1. pr[p].pc \in Creating /\ pr[p].pc # "iget" /\ pr[p].pc # "create_dirlink" /\ l # "iget" /\ l # "create_dirlink"
      BY DEF Creating
    <3>2. NewInum(p) = i
      BY <3>1 DEF NewInum
    <3>3. /\ disk.type[i] = 1 /\ disk.nlink[i] = 0
          /\ \A q \in Procs : q # p /\ pr[q].pc \in Using /\ Inum(q) = i => pr[q].pc \in Leaving
          /\ \A q \in Procs : file[q] # 0 => inode[file[q]].inum # i
      BY <3>1, <3>2 DEF IInv, Fresh
    <3>4. file[p] # 0 => inode'[file[p]].inum # i
      BY <3>3, InumsStay
    <3> QED
      BY <3>1, <3>3, <3>4 DEF FreshFor, Held
  <2>15. inode'[s].nlink = inode[s].nlink \/ Held(p)
    OBVIOUS
  <2>16. pr'[p].pc = "itrunc" => AloneFor(p)
    OBVIOUS
  <2> QED
    BY <2>3, <2>5, <2>7, <2>9, <2>11, <2>12, <2>13, <2>14, <2>15, <2>16, <2>b, <2>t, OnEntry
<1>2. ASSUME inode \in [Slots -> Cached], NEW s \in Slots, NEW k \in Procs \union {NoProc},
             NEW t \in {0, 1}, NEW n \in Nat, inode' = [inode EXCEPT ![s] = Filled(inode[s], k, t, n)]
      PROVE  Sets(s, inode[s].ref, inode[s].inum, 1, t, n, k)
  <2> USE <1>2
  <2> DEFINE x == Filled(inode[s], k, t, n)
  <2>1. inode[s] \in Cached
    OBVIOUS
  <2>2. /\ x \in Cached /\ x.ref = inode[s].ref /\ x.inum = inode[s].inum /\ x.valid = 1 /\ x.type = t
        /\ x.nlink = n /\ x.lock = k
    BY <2>1, Zenon DEF Filled, Cached
  <2>3. inode' = [inode EXCEPT ![s] = x]
    OBVIOUS
  <2> HIDE DEF x
  <2> QED
    BY <2>2, <2>3 DEF Sets
<1>3. ASSUME NEW p \in Procs, NEW l, Locked(p, l), ilock(p, l)
      PROVE  IInv'
  <2> USE <1>3
  <2> DEFINE s == pr[p].ip
             i == Inum(p)
  <2> /\ inode[s].lock = NoProc
      /\ inode' = [inode EXCEPT ![s].lock = p, ![s].valid = 1,
                     ![s].type = IF inode[s].valid = 1 THEN @ ELSE disk.type[i],
                     ![s].nlink = IF inode[s].valid = 1 THEN @ ELSE disk.nlink[i]]
      /\ panicked' = IF inode[s].ref < 1 \/ (inode[s].valid = 0 /\ disk.type[i] = 0) THEN 1 ELSE 0
      /\ Goto(p, l)
      /\ disk' = disk /\ committed' = committed /\ outstanding' = outstanding /\ dlock' = dlock
      /\ file' = file /\ scan' = scan
    BY DEF ilock, ip, Inum
  <2> /\ pr[p].pc \in Using /\ Held(p) /\ pr[p].pc \notin Locking
      /\ l \in Using /\ l \in Locking /\ l \notin {"ilock", "create"}
      /\ l \in Ahead <=> pr[p].pc \in Ahead
      /\ l \in Creating => l = "create_update" /\ pr[p].pc = "create"
      /\ l = "unlink" => pr[p].pc = "ilock" /\ pr[p].op = "unlink"
      /\ l # "itrunc" /\ l # "freed"
      /\ l \in Reclaiming <=> pr[p].pc \in Reclaiming
    BY DEF Locked, Using, Leaving, Held, Locking, Ahead, Creating, Reclaiming
  <2> /\ Types /\ inode \in [Slots -> Cached] /\ pr \in [Procs -> Calls]
    BY DEF IInv, Types
  <2>2. s \in Slots /\ inode[s].ref > 0 /\ inode[s].ref \in Nat /\ i \in Inums
        /\ inode[s].valid \in {0, 1} /\ disk.type[i] \in {0, 1} /\ disk.nlink[i] \in Nat
    <3>1. s \in Slots /\ inode[s].ref > 0 /\ i \in Inums
      BY Referenced
    <3> QED
      BY <3>1 DEF Cached, Types, Dinodes
  <2>3. disk.type[i] = 1
    BY DEF IInv, Allocated, Held
  <2>4. panicked' = 0
    BY <2>2, <2>3, LessOne, Numbers
  <2>5. inode[s].valid = 1 => inode[s].type = 1 /\ inode[s].nlink = disk.nlink[i]
    BY ValidAgrees
  <2>e. Sets(s, inode[s].ref, i, 1, 1, disk.nlink[i], p)
    <3> CASE inode[s].valid = 1
      <4>1. inode' = [inode EXCEPT ![s] = Filled(inode[s], p, inode[s].type, inode[s].nlink)]
        BY Zenon DEF Filled
      <4>2. inode' = [inode EXCEPT ![s] = Filled(inode[s], p, 1, disk.nlink[i])]
        BY <2>5, <4>1
      <4> QED
        BY <2>2, <4>2, <1>2 DEF Inum
    <3> CASE inode[s].valid # 1
      <4>1. inode' = [inode EXCEPT ![s] = Filled(inode[s], p, 1, disk.nlink[i])]
        BY <2>3, Zenon DEF Filled
      <4> QED
        BY <2>2, <4>1, <1>2 DEF Inum
    <3> QED
      OBVIOUS
  <2>m. Moves(p, l, s, pr[p].op, pr[p].name)
    <3>1. [pr[p] EXCEPT !.pc = l] \in Calls
      BY DEF Calls, Locked
    <3> QED
      BY <3>1, GotoMoves
  <2>6. /\ pr'[p].pc = l /\ pr'[p].ip = s /\ pr'[p].op = pr[p].op
        /\ inode'[s].inum = i /\ inode'[s].nlink = disk.nlink[i]
        /\ inode'[s].type = 1 /\ inode'[s].valid = 1 /\ inode'[s].lock = p
    BY <2>m, <2>e DEF Moves, Sets
  <2>7. LocksHere(p, s)
    BY <2>6 DEF LocksHere
  <2>8. AgreeFor(s)
    BY <2>3, <2>6 DEF AgreeFor
  <2> ASSUME ~Booting PROVE l \notin Reclaiming /\ pr[p].op # "ireclaim"
    BY DEF Booting, IInv, Boot
  <2> ASSUME Booting PROVE BootFor
    <3>1. p = First
      BY BootsAlone DEF Using
    <3>2. pr[p].pc = "ireclaim_ilock" /\ l = "ireclaim_iput" /\ pr[p].op # "ireclaim"
      BY <3>1 DEF Booting, Reclaiming, Locked, IInv, Boot
    <3>3. /\ scan - 1 = i /\ disk.nlink[scan - 1] = 0
          /\ \A j \in 1..scan - 2 : ~Orphan(j)
      BY <3>1, <3>2 DEF IInv, Boot
    <3> QED
      BY <2>6, <3>1, <3>2, <3>3 DEF BootFor, Orphan
  <2> HIDE DEF s, i
  <2>11. s = pr[p].ip /\ i = Inum(p)
    BY DEF s, i
  <2> QED
    BY <2>m, <2>e, <2>4, <2>7, <2>8, <2>11, <1>1
\* ref = 1 is one pointer.
<1>4. ASSUME NEW p \in Procs, pr[p].pc \in Using, inode[pr[p].ip].ref = 1
      PROVE  /\ \A q \in Procs : q # p /\ pr[q].pc \in Using => pr[q].ip # pr[p].ip
             /\ \A q \in Procs : file[q] # pr[p].ip
  <2> USE <1>4
  <2>0. pr \in [Procs -> Calls] /\ file \in [Procs -> {0} \union Slots]
    BY DEF IInv, Types
  <2> DEFINE s == pr[p].ip
  <2>1. IsFiniteSet(Users(s)) /\ IsFiniteSet(Files(s))
    BY ItableAssumption DEF Counting, Users, Files
  <2>2. Cardinality(Users(s)) \in Nat /\ Cardinality(Files(s)) \in Nat
    BY <2>1 DEF Counting
  <2>3. s \in Slots
    BY DEF IInv, Pointers
  <2>4. 1 = Cardinality(Users(s)) + Cardinality(Files(s))
    BY <2>3 DEF IInv, Counted
  <2>5. Users(s) = {q \in Procs : pr[q].pc \in Using /\ pr[q].ip = s}
    BY <2>0, UsersAre
  <2>6. p \in Users(s)
    BY <2>5
  <2> HIDE DEF s
  <2>7. Cardinality(Users(s)) > 0 /\ (Cardinality(Users(s)) = 1 => \A y \in Users(s) : y = p)
    BY <2>1, <2>6, Occupied
  <2>8. Cardinality(Users(s)) = 1 /\ Cardinality(Files(s)) = 0
    BY <2>2, <2>4, <2>7, OnlyOne
  <2>9. Files(s) = {}
    BY <2>1, <2>8 DEF Counting
  <2> QED
    BY <2>5, <2>7, <2>8, <2>9 DEF s, Files
<1>5. ASSUME NEW p \in Procs, iput_last(p)
      PROVE  IInv'
  <2> USE <1>5
  <2> DEFINE s == pr[p].ip
             i == Inum(p)
  <2> /\ pr[p].pc = "iput" /\ inode[s].ref = 1 /\ inode[s].valid = 1 /\ inode[s].nlink = 0
      /\ inode' = [inode EXCEPT ![s].lock = p] /\ panicked' = (IF inode[s].lock = NoProc THEN 0 ELSE 1)
      /\ Goto(p, "itrunc")
      /\ disk' = disk /\ committed' = committed /\ outstanding' = outstanding /\ dlock' = dlock
      /\ file' = file /\ scan' = scan
    BY DEF iput_last, At, Frees, ip
  <2> /\ pr[p].pc \in Using /\ Held(p) /\ pr[p].pc \notin Locking /\ pr[p].pc \notin Ahead
      /\ "itrunc" \in Using /\ "itrunc" \in Locking /\ "itrunc" \notin Ahead /\ "itrunc" \notin Creating
      /\ "itrunc" \notin Reclaiming
    BY DEF Using, Leaving, Held, Locking, Ahead, Creating, Reclaiming
  <2> /\ Types /\ inode \in [Slots -> Cached] /\ pr \in [Procs -> Calls]
    BY DEF IInv, Types
  <2>2. s \in Slots /\ i \in Inums
    BY Referenced
  <2>3. /\ \A q \in Procs : q # p /\ pr[q].pc \in Using => pr[q].ip # s
        /\ \A q \in Procs : file[q] # s
    BY <1>4
  <2>4. inode[s].lock = NoProc
    <3> SUFFICES ASSUME inode[s].lock # NoProc PROVE FALSE
      OBVIOUS
    <3>1. inode[s].lock \in Procs
      BY <2>2 DEF Cached
    <3>2. pr[inode[s].lock].pc \in Locking /\ pr[inode[s].lock].ip = s
      BY <2>2 DEF IInv, Locks
    <3>3. pr[inode[s].lock].pc \in Using
      BY <3>2 DEF Locking, Using
    <3> QED
      BY <2>3, <3>1, <3>2, <3>3
  <2>5. disk.type[i] = 1 /\ inode[s].type = 1 /\ disk.nlink[i] = 0 /\ panicked' = 0
    BY <2>4, ValidAgrees
  <2>e. Sets(s, inode[s].ref, i, 1, 1, 0, p)
    BY <2>2, <2>5, LockSets DEF Inum
  <2>m. Moves(p, "itrunc", s, pr[p].op, pr[p].name)
    <3>1. [pr[p] EXCEPT !.pc = "itrunc"] \in Calls
      BY DEF Calls
    <3> QED
      BY <3>1, GotoMoves
  <2>6. /\ pr'[p].pc = "itrunc" /\ pr'[p].ip = s /\ pr'[p].op = pr[p].op
        /\ inode'[s].inum = i /\ inode'[s].nlink = 0
        /\ inode'[s].type = 1 /\ inode'[s].valid = 1 /\ inode'[s].lock = p
    BY <2>m, <2>e DEF Moves, Sets
  <2>7. LocksHere(p, s)
    BY <2>6, <2>4 DEF LocksHere
  <2>8. AgreeFor(s) /\ AloneFor(p)
    BY <2>3, <2>5, <2>6 DEF AgreeFor, AloneFor
  <2> ASSUME ~Booting PROVE pr[p].op # "ireclaim"
    BY DEF Booting, IInv, Boot
  <2> ASSUME Booting PROVE BootFor
    <3>1. p = First
      BY BootsAlone
    <3>3. /\ scan - 1 = i /\ disk.nlink[scan - 1] = 0
          /\ \A j \in 1..scan - 2 : ~Orphan(j)
      BY <3>1 DEF IInv, Boot
    <3> QED
      BY <2>6, <3>1, <3>3 DEF BootFor, Orphan
  <2> HIDE DEF s, i
  <2>11. s = pr[p].ip /\ i = Inum(p)
    BY DEF s, i
  <2>12. "itrunc" \notin {"ilock", "create"} /\ "itrunc" # "unlink"
    OBVIOUS
  <2> QED
    BY <2>m, <2>e, <2>5, <2>7, <2>8, <2>11, <2>12, <1>1
<1>6. ASSUME inode \in [Slots -> Cached], NEW s \in Slots, inode' = [inode EXCEPT ![s] = Invalid(@)]
      PROVE  Sets(s, inode[s].ref, inode[s].inum, 0, inode[s].type, inode[s].nlink, NoProc)
  BY <1>6 DEF Sets, Cached, Invalid
<1>7. ASSUME NEW p \in Procs, iput_release(p)
      PROVE  IInv'
  <2> USE <1>7
  <2> DEFINE s == pr[p].ip
             i == Inum(p)
  <2> /\ pr[p].pc = "freed" /\ inode' = [inode EXCEPT ![s] = Invalid(@)] /\ panicked' = 0
      /\ Goto(p, "unref")
      /\ disk' = disk /\ committed' = committed /\ outstanding' = outstanding /\ dlock' = dlock
      /\ file' = file /\ scan' = scan
    BY DEF iput_release, At
  <2> /\ pr[p].pc \in Using /\ pr[p].pc \in Locking /\ pr[p].pc \notin Ahead
      /\ "unref" \in Using /\ "unref" \in Leaving /\ "unref" \notin Locking /\ "unref" \notin Ahead
      /\ "unref" \notin Creating /\ "unref" \notin Reclaiming
    BY DEF Using, Leaving, Locking, Ahead, Creating, Reclaiming
  <2>t. /\ Types /\ inode \in [Slots -> Cached] /\ pr \in [Procs -> Calls]
    BY DEF IInv, Types
  <2>2. s \in Slots /\ i \in Inums
    BY Referenced
  <2>4. inode[s].lock = p
    BY DEF IInv, Locks
  <2>e. Sets(s, inode[s].ref, i, 0, inode[s].type, inode[s].nlink, NoProc)
    BY <2>t, <2>2, <1>6 DEF Inum
  <2>m. Moves(p, "unref", s, pr[p].op, pr[p].name)
    <3>1. [pr[p] EXCEPT !.pc = "unref"] \in Calls
      BY <2>t DEF Calls
    <3> QED
      BY <2>t, <3>1, GotoMoves
  <2>6. /\ pr'[p].pc = "unref" /\ pr'[p].ip = s /\ pr'[p].op = pr[p].op
        /\ inode'[s].valid = 0 /\ inode'[s].lock = NoProc
    BY <2>m, <2>e DEF Moves, Sets
  <2>7. LocksHere(p, s)
    BY <2>6, <2>4 DEF LocksHere
  <2>8. AgreeFor(s)
    BY <2>6, Numbers DEF AgreeFor
  <2> ASSUME ~Booting PROVE pr[p].op # "ireclaim"
    BY DEF Booting, IInv, Boot
  <2> ASSUME Booting PROVE BootFor
    <3>1. p = First
      BY BootsAlone
    <3>3. \A j \in 1..scan - 1 : ~Orphan(j)
      BY <3>1 DEF IInv, Boot
    <3> QED
      BY <2>6, <3>1, <3>3 DEF BootFor, Orphan
  <2> HIDE DEF s, i
  <2>11. s = pr[p].ip /\ i = Inum(p)
    BY DEF s, i
  <2>12. "unref" \notin {"ilock", "create"} /\ "unref" # "unlink" /\ "unref" # "itrunc"
    OBVIOUS
  <2> QED
    BY <2>m, <2>e, <2>7, <2>8, <2>11, <2>12, <1>1
\* iunlock(ip), on the way to iput(): in sys_open() and in ireclaim()
<1>8. ASSUME NEW p \in Procs, pr[p].pc \in {"opened", "ireclaim_iput"}, iunlock(p),
             NEW o, Moves(p, "iput", pr[p].ip, o, pr[p].name),
             IF pr[p].pc = "opened" THEN o = pr[p].op ELSE o = "ireclaim",
             UNCHANGED <<disk, committed, outstanding, dlock, file, scan, panicked>>
      PROVE  IInv'
  <2> USE <1>8
  <2> DEFINE s == pr[p].ip
             i == Inum(p)
  <2> /\ inode' = [inode EXCEPT ![s].lock = NoProc] /\ panicked' = 0
      /\ disk' = disk /\ committed' = committed /\ outstanding' = outstanding /\ dlock' = dlock
      /\ file' = file /\ scan' = scan
    BY DEF iunlock
  <2> /\ pr[p].pc \in Using /\ pr[p].pc \in Locking /\ pr[p].pc \notin Ahead /\ Held(p) /\ pr[p].pc # "freed"
      /\ "iput" \in Using /\ "iput" \notin Locking /\ "iput" \notin Ahead
      /\ "iput" \notin Creating /\ "iput" \notin Reclaiming
    BY DEF Using, Leaving, Held, Locking, Ahead, Creating, Reclaiming
  <2>t. /\ Types /\ inode \in [Slots -> Cached] /\ pr \in [Procs -> Calls]
    BY DEF IInv, Types
  <2>2. s \in Slots /\ inode[s].ref > 0 /\ i \in Inums
    BY Referenced
  <2>4. inode[s].lock = p /\ inode[s].valid = 1
    BY DEF IInv, Locks
  <2>5. disk.type[i] = 1 /\ inode[s].type = 1 /\ inode[s].nlink = disk.nlink[i]
    BY <2>4, ValidAgrees
  <2>e. Sets(s, inode[s].ref, i, 1, 1, inode[s].nlink, NoProc)
    BY <2>t, <2>2, <2>4, <2>5, LockSets DEF Inum
  <2>6. /\ pr'[p].pc = "iput" /\ pr'[p].ip = s /\ pr'[p].op = o /\ inode'[s].inum = i
        /\ inode'[s].type = 1 /\ inode'[s].nlink = inode[s].nlink
        /\ inode'[s].valid = 1 /\ inode'[s].lock = NoProc
    BY <2>e DEF Moves, Sets
  <2>7. LocksHere(p, s)
    BY <2>6, <2>4 DEF LocksHere
  <2>8. AgreeFor(s)
    BY <2>5, <2>6 DEF AgreeFor
  <2> ASSUME ~Booting PROVE o # "ireclaim"
    <3>1. pr[p].pc # "ireclaim_iput" /\ pr[p].op # "ireclaim"
      BY DEF Booting, IInv, Boot, Reclaiming
    <3> QED
      BY <3>1
  <2> ASSUME Booting PROVE BootFor
    <3>0. pr[p].pc # "off"
      OBVIOUS
    <3>1. p = First
      BY <3>0, BootsAlone
    <3>2. pr[p].pc = "ireclaim_iput"
      BY <3>1 DEF Booting, Reclaiming, IInv, Boot
    <3>3. /\ scan - 1 = i /\ disk.nlink[scan - 1] = 0
          /\ \A j \in 1..scan - 2 : ~Orphan(j)
      BY <3>1, <3>2 DEF IInv, Boot
    <3> QED
      BY <2>6, <3>1, <3>3 DEF BootFor, Orphan
  <2>13. Moves(p, "iput", s, o, pr[p].name)
    OBVIOUS
  <2> HIDE DEF s, i
  <2>11. s = pr[p].ip /\ i = Inum(p)
    BY DEF s, i
  <2>12. "iput" \notin {"ilock", "create"} /\ "iput" # "unlink" /\ "iput" # "itrunc"
    OBVIOUS
  <2>14. p \in Procs /\ (Booting => BootFor) /\ (~Booting => o # "ireclaim")
    OBVIOUS
  <2> HIDE <1>8
  <2> QED
    BY <2>e, <2>7, <2>8, <2>11, <2>12, <2>13, <2>14, <1>1
\* The iput() of ireclaim() frees the inode.
<1>10. ASSUME Booting, pr[First].pc = "iput"
       PROVE  Frees(inode[pr[First].ip])
  <2> USE <1>10
  <2> DEFINE s == pr[First].ip
  <2>0. First \in Procs /\ pr[First].pc \in Using /\ pr \in [Procs -> Calls]
    BY ItableAssumption DEF Using, IInv, Types
  <2> s \in Slots /\ inode[s].ref > 0 /\ s # 0
    BY <2>0, Referenced, SlotNumbers
  <2> /\ \A q \in Procs \ {First} : pr[q].pc = "off"
      /\ \A q \in Procs : file[q] = 0
      /\ inode[s].valid = 1 /\ disk.nlink[inode[s].inum] = 0
    BY DEF IInv, Boot, Inum
  <2>3. inode[s].nlink = 0
    <3>1. ~Freeing(s)
      <4> SUFFICES ASSUME Freeing(s) PROVE FALSE
        OBVIOUS
      <4>1. inode[s].lock \in Procs /\ pr[inode[s].lock].pc = "freed"
        BY DEF Freeing, IInv, Types, Cached
      <4> QED
        BY <4>1
    <3> QED
      BY <3>1 DEF IInv, Agree
  <2>4. Users(s) = {First}
    <3>1. Users(s) = {q \in Procs : pr[q].pc \in Using /\ pr[q].ip = s}
      BY <2>0, UsersAre
    <3>2. "off" \notin Using
      BY DEF Using
    <3> QED
      BY <2>0, <3>1, <3>2
  <2>5. Files(s) = {}
    BY DEF Files
  <2> HIDE DEF s
  <2>6. inode[s].ref = 1 + 0
    <3>1. Cardinality(Users(s)) = 1 /\ Cardinality(Files(s)) = 0
      BY <2>4, <2>5 DEF Counting
    <3> QED
      BY <3>1 DEF IInv, Counted
  <2> QED
    BY <2>3, <2>6, Numbers DEF Frees, s
\* The last step of iput()
<1>11. ASSUME NEW p \in Procs, pr[p].pc \in {"iput", "unref"},
              pr[p].pc = "iput" => ~Frees(ip(p)),
              inode' = [inode EXCEPT ![pr[p].ip].ref = @ - 1], Goto(p, "end_op"),
              UNCHANGED <<disk, committed, outstanding, dlock, file, scan, panicked>>
       PROVE  IInv'
  <2> USE <1>11
  <2> DEFINE s == pr[p].ip
             i == Inum(p)
  <2> Types /\ inode \in [Slots -> Cached] /\ pr[p].name \in Names
    BY DEF IInv, Types, Calls
  <2> disk' = disk /\ committed' = committed /\ outstanding' = outstanding /\ dlock' = dlock
      /\ file' = file /\ scan' = scan /\ panicked' = 0
    OBVIOUS
  <2> pr[p].pc \in Using /\ pr[p].pc \notin Locking /\ pr[p].pc \notin Ahead /\ pr[p].pc # "freed"
    BY DEF Using, Locking, Ahead
  <2> /\ "end_op" \notin Using /\ "end_op" \notin Locking /\ "end_op" \notin Ahead /\ "end_op" \notin Creating
      /\ "end_op" \notin Reclaiming
      /\ "end_op" \notin {"iget", "ilock", "lookup", "create", "off", "idle", "ireclaim"}
    BY DEF Using, Locking, Ahead, Creating, Reclaiming
  <2> s \in Slots /\ inode[s].ref > 0 /\ i \in Inums
    BY Referenced
  <2> Moves(p, "end_op", s, pr[p].op, pr[p].name)
    <3>1. [pr[p] EXCEPT !.pc = "end_op"] \in Calls
      BY DEF Types, Calls
    <3> QED
      BY <3>1, GotoMoves
  <2>e. Sets(s, inode[s].ref - 1, inode[s].inum, inode[s].valid, inode[s].type, inode[s].nlink, inode[s].lock)
    BY RefSets
  <2>3. Types'
    <3>1. inode' \in [Slots -> Cached] /\ pr' \in [Procs -> Calls]
      BY <2>e DEF Moves, Sets
    <3> QED
      BY <3>1 DEF Types
  <2> Others(p, s) /\ BoundedHere(s)
    BY <2>e DEF Others, Moves, Sets, BoundedHere
  <2>5. Touches(i) /\ SameDinode(i) /\ FreeHere(i)
    BY DiskStays
  <2> /\ pr'[p].pc = "end_op" /\ pr'[p].ip = s /\ pr'[p].op = pr[p].op
      /\ inode'[s].inum = i /\ inode'[s].ref = inode[s].ref - 1
      /\ inode'[s].nlink = inode[s].nlink /\ inode'[s].type = inode[s].type
      /\ inode'[s].valid = inode[s].valid /\ inode'[s].lock = inode[s].lock
    BY <2>e DEF Moves, Sets, Inum
  <2>7. Works(p, s, i)
    BY <2>5 DEF Works
  <2>8. LocksHere(p, s)
    BY DEF LocksHere, IInv, Locks
  <2>9. DirHere(p)
    BY DEF DirHere
  <2>10. AgreeFor(s)
    BY AgreeStays DEF Inum
  <2>11. LinkedHere(p, pr[p].name)
    BY LinkedStays
  <2>12. AllocatedHere(p, i)
    BY TypesStay
  <2>13. Boot'
    <3> CASE ~Booting
      BY BootMove DEF BootHere, IInv, Boot, Booting
    <3> CASE Booting
      <4>1. p = First
        BY BootsAlone
      <4>2. pr[p].pc = "unref"
        BY <4>1, <1>10 DEF ip
      <4>3. BootFor
        BY <4>1, <4>2 DEF BootFor, IInv, Boot, Orphan
      <4> QED
        BY <4>1, <4>3, BootMoveFirst DEF Moves
    <3> QED
      OBVIOUS
  <2> QED
    BY <2>3, <2>5, <2>7, <2>8, <2>9, <2>10, <2>11, <2>12, <2>13, OnEntry
<1>0. Types /\ pr \in [Procs -> Calls]
  BY DEF IInv, Types
<1>12. ASSUME NEW p \in Procs, iput(p) \/ iput_unref(p)
       PROVE  IInv'
  <2>1. CASE iput(p)
    BY <2>1, <1>11 DEF iput, At
  <2>2. CASE iput_unref(p)
    <3>1. pr[p].pc = "unref"
      BY <2>2 DEF iput_unref, At
    <3> QED
      BY <2>2, <3>1, <1>11 DEF iput_unref
  <2> QED
    BY <1>12, <2>1, <2>2
<1>13. ASSUME NEW p \in Procs, call_ilock(p)
       PROVE  IInv'
  <2>1. pr[p].pc = "ilock" /\ ilock(p, Body(pr[p].op))
    BY <1>13 DEF call_ilock, At
  <2>2. pr[p].op \in {"open", "create", "link", "unlink"}
    BY <2>1 DEF IInv, Pointers
  <2>3. Locked(p, Body(pr[p].op))
    BY <2>1, <2>2 DEF Locked, Body
  <2> QED
    BY <2>1, <2>3, <1>3
<1>14. ASSUME NEW p \in Procs, create_ilock(p)
       PROVE  IInv'
  <2>1. Locked(p, "create_update") /\ ilock(p, "create_update")
    BY <1>14 DEF create_ilock, At, Locked
  <2> QED
    BY <2>1, <1>3
<1>15. ASSUME NEW p \in Procs, link_bad(p)
       PROVE  IInv'
  <2>1. Locked(p, "nlink_dec") /\ ilock(p, "nlink_dec")
    BY <1>15 DEF link_bad, At, Locked
  <2> QED
    BY <2>1, <1>3
<1>16. ASSUME NEW p \in Procs, ireclaim_ilock(p)
       PROVE  IInv'
  <2>1. Locked(p, "ireclaim_iput") /\ ilock(p, "ireclaim_iput")
    BY <1>16 DEF ireclaim_ilock, At, Locked
  <2> QED
    BY <2>1, <1>3
<1>17. ASSUME NEW p \in Procs, open_fails(p)
       PROVE  IInv'
  <2>1. /\ pr[p].pc = "opened" /\ iunlock(p) /\ Goto(p, "iput")
        /\ UNCHANGED <<disk, committed, outstanding, dlock, file, scan, panicked>>
    BY <1>17 DEF open_fails, At
  <2>2. [pr[p] EXCEPT !.pc = "iput"] \in Calls
    BY <1>0 DEF Calls
  <2>3. Moves(p, "iput", pr[p].ip, pr[p].op, pr[p].name)
    BY <1>0, <2>1, <2>2, GotoMoves
  <2> QED
    BY <2>1, <2>3, <1>8
<1>18. ASSUME NEW p \in Procs, ireclaim_iput(p)
       PROVE  IInv'
  <2>1. /\ pr[p].pc = "ireclaim_iput" /\ iunlock(p) /\ pr' = [pr EXCEPT ![p].pc = "iput", ![p].op = "ireclaim"]
        /\ UNCHANGED <<disk, committed, outstanding, dlock, file, scan, panicked>>
    BY <1>18 DEF ireclaim_iput, At
  <2>2. Moves(p, "iput", pr[p].ip, "ireclaim", pr[p].name)
    BY <1>0, <2>1 DEF Moves, Calls
  <2>3. pr[p].pc \in {"opened", "ireclaim_iput"} /\ pr[p].pc # "opened"
    BY <2>1
  <2> QED
    BY <2>1, <2>2, <2>3, <1>8
<1>20. ASSUME NEW p \in Procs, linkFails(p)
       PROVE  IInv'
  <2> USE <1>20
  <2> /\ pr[p].pc = "link_dirlink" /\ dlock' = dlock /\ inode' = inode /\ disk' = disk /\ Goto(p, "link_bad")
      /\ committed' = committed /\ outstanding' = outstanding /\ file' = file /\ scan' = scan /\ panicked' = 0
    BY DEF linkFails, At
  <2> /\ pr[p].pc \in Using /\ pr[p].pc \notin BootPCs /\ pr[p].pc \in Ahead /\ pr[p].pc \notin Locking /\ Held(p)
      /\ "link_bad" \in Using /\ "link_bad" \in Ahead /\ "link_bad" \notin Locking /\ "link_bad" \notin Creating
      /\ "link_bad" \notin Reclaiming /\ "link_bad" \notin {"ilock", "create"} /\ "link_bad" # "unlink" /\ "link_bad" # "itrunc"
      /\ pr[p].pc # "freed"
    BY DEF Using, Leaving, BootPCs, Ahead, Locking, Creating, Reclaiming, Held
  <2> Types /\ pr \in [Procs -> Calls] /\ inode \in [Slots -> Cached]
    BY DEF IInv, Types
  <2>3. pr[p].ip \in Slots /\ Inum(p) \in Inums /\ inode[pr[p].ip].ref > 0
    BY Referenced
  <2> DEFINE s == pr[p].ip
             i == Inum(p)
  <2>11. [pr[p] EXCEPT !.pc = "link_bad"] \in Calls
    BY DEF Calls
  <2>12. Moves(p, "link_bad", s, pr[p].op, pr[p].name)
    BY <2>11, GotoMoves
  <2>13. Sets(s, inode[s].ref, i, inode[s].valid, inode[s].type, inode[s].nlink, inode[s].lock)
    BY DEF Sets, Inum
  <2>14. pr'[p].pc = "link_bad" /\ inode'[s] = inode[s]
    BY <2>12 DEF Moves
  <2>15. LocksHere(p, s)
    BY <2>3, <2>14 DEF LocksHere, IInv, Locks
  <2>16. Others(p, s)
    BY <2>12 DEF Others, Moves
  <2>17. AgreeFor(s)
    BY <2>3, <2>14, <2>16, AgreeStays
  <2>18. ~Booting /\ pr[p].op # "ireclaim"
    BY NotBooting
  <2> HIDE DEF s, i
  <2>19. s = pr[p].ip /\ i = Inum(p)
    BY DEF s, i
  <2> QED
    BY <2>12, <2>13, <2>15, <2>17, <2>18, <2>19, <1>1
<1> QED
  BY <1>5, <1>7, <1>12, <1>13, <1>14, <1>15, <1>16, <1>17, <1>18, <1>20

-----------------------------------------------------------------------------
Updated(r, t, n, k) == [r EXCEPT !.type = t, !.nlink = n, !.lock = k]

\* The steps that call iupdate()
LEMMA UpdateKeeps ==
  ASSUME Counting, IInv, panicked = 0
  PROVE  \A p \in Procs : iput_free(p) \/ create_update(p) \/ create_fail(p) \/ nlink_dec(p) \/ link_nlink(p) => IInv'
<1>1. ASSUME inode \in [Slots -> Cached], NEW s \in Slots, NEW k \in Procs \union {NoProc},
             NEW t \in {0, 1}, NEW n \in Nat, inode' = [inode EXCEPT ![s] = Updated(inode[s], t, n, k)]
      PROVE  Sets(s, inode[s].ref, inode[s].inum, inode[s].valid, t, n, k)
  <2> USE <1>1
  <2> DEFINE x == Updated(inode[s], t, n, k)
  <2>1. inode[s] \in Cached
    OBVIOUS
  <2>2. /\ x \in Cached /\ x.ref = inode[s].ref /\ x.inum = inode[s].inum /\ x.valid = inode[s].valid
        /\ x.type = t /\ x.nlink = n /\ x.lock = k
    BY <2>1, Zenon DEF Updated, Cached
  <2>3. inode' = [inode EXCEPT ![s] = x]
    OBVIOUS
  <2> HIDE DEF x
  <2> QED
    BY <2>2, <2>3 DEF Sets
<1>2. ASSUME NEW p \in Procs, pr[p].pc \in Locking, NEW t \in {0, 1}, NEW n \in Nat,
             NEW k \in Procs \union {NoProc}, iupdate(p, t, n, k)
      PROVE  /\ Sets(pr[p].ip, inode[pr[p].ip].ref, Inum(p), 1, t, n, k)
             /\ Writes(Inum(p), t, n)
  <2> USE <1>2
  <2> DEFINE s == pr[p].ip
             i == Inum(p)
  <2>1. pr[p].pc \in Using
    BY DEF Locking, Using
  <2>2. s \in Slots /\ i \in Inums /\ inode[s].valid = 1 /\ inode \in [Slots -> Cached] /\ disk \in Dinodes
    BY <2>1, Referenced DEF IInv, Types, Locks
  <2>3. inode' = [inode EXCEPT ![s] = Updated(inode[s], t, n, k)]
    BY Zenon DEF iupdate, Updated
  <2>4. disk' = [disk EXCEPT !.type[i] = t, !.nlink[i] = n]
    BY DEF iupdate, ip, Inum
  <2>5. inode[s].inum = i
    BY DEF Inum
  <2> HIDE DEF s, i
  <2>6. Sets(s, inode[s].ref, inode[s].inum, inode[s].valid, t, n, k)
    BY <2>2, <2>3, <1>1
  <2>7. Writes(i, t, n)
    BY <2>2, <2>4, DinodeWrites
  <2> QED
    BY <2>2, <2>5, <2>6, <2>7 DEF s, i
\* A step that changes an entry and its dinode alike
<1>3. ASSUME NEW p \in Procs, NEW s, NEW i, s = pr[p].ip, i = Inum(p), pr[p].pc \in Locking,
             NEW l, Moves(p, l, s, pr[p].op, pr[p].name), pr[p].pc # "freed",
             NEW t \in {0, 1}, NEW n \in Nat, NEW k \in {p, NoProc}, Sets(s, inode[s].ref, i, 1, t, n, k),
             Writes(i, t, n),
             committed' = committed, outstanding' = outstanding, dlock' = dlock,
             file' = file, scan' = scan, panicked' = 0,
             l \in Using, l \notin {"ilock", "create", "unlink", "itrunc"}, l \in Locking <=> k = p,
             n + Bit(pr[p].pc \in Ahead) = disk.nlink[i] + Bit(l \in Ahead),
             l \in Creating => l = "create_dirlink" /\ pr[p].pc = "create_update" /\ n = 1,
             t = 0 => l = "freed" /\ n = 0 /\ pr[p].pc = "itrunc",
             ~Booting => l \notin Reclaiming /\ pr[p].op # "ireclaim", Booting => BootFor
      PROVE  IInv'
  <2> USE <1>3
  <2> Types /\ pr[p].name \in Names /\ pr[p].pc \in Using /\ disk \in Dinodes
    BY DEF IInv, Types, Calls, Using, Locking
  <2> /\ l \notin {"iget", "ilock", "lookup", "create", "off", "idle", "ireclaim"}
      /\ l # "ialloc" /\ Held(p) /\ (pr[p].pc = "create_update" => pr[p].pc \in Creating)
    BY DEF Using, Held, Leaving, Locking, Creating
  <2> s \in Slots /\ inode[s].ref > 0 /\ i \in Inums
    BY Referenced
  <2>3. Types'
    BY DEF Types, Moves, Sets, NoInodes, Writes
  <2> /\ pr'[p].pc = l /\ pr'[p].ip = s /\ pr'[p].op = pr[p].op /\ pr'[p].name = pr[p].name
      /\ inode'[s].inum = i /\ inode'[s].ref = inode[s].ref /\ inode'[s].nlink = n
      /\ inode'[s].lock = k /\ inode'[s].type = t /\ inode'[s].valid = 1
      /\ disk'.type[i] = t /\ disk'.nlink[i] = n
    BY DEF Moves, Sets, Writes
  <2> Others(p, s) /\ Touches(i)
    BY DEF Others, Moves, Sets, Inum, Writes
  <2>b. BoundedHere(s) /\ FreeHere(i)
    BY DEF BoundedHere, FreeHere
  <2>7. Works(p, s, i)
    BY DEF Works
  <2>8. LocksHere(p, s)
    BY ItableAssumption DEF LocksHere, IInv, Locks
  <2>9. DirHere(p)
    <3>1. l \in Creating \union {"ialloc"} => dlock = p /\ disk.entry[pr[p].name] = 0
      BY DEF IInv, Dir
    <3>2. disk'.entry = disk.entry
      BY DEF Writes
    <3> QED
      BY <3>1, <3>2 DEF DirHere
  <2>10. AgreeFor(s)
    <3>1. "freed" \in Locking /\ p # NoProc
      BY ItableAssumption DEF Locking
    <3>2. t = 1 \/ (t = 0 /\ l = "freed" /\ k = p)
      BY <3>1
    <3> QED
      BY <3>1, <3>2 DEF AgreeFor
  <2>11. LinkedHere(p, pr[p].name)
    <3>0. disk'.entry = disk.entry
      BY DEF Writes
    <3> ASSUME NEW j \in Inums
        PROVE  disk'.nlink[j] + Owes(p, pr[p].name, j) = disk.nlink[j] + Owes(p, pr[p].name, j)'
      <4> DEFINE e == Bit(disk.entry[pr[p].name] = j)
      <4>e. e \in {0, 1} /\ Bit(pr[p].pc \in Ahead) \in {0, 1} /\ Bit(l \in Ahead) \in {0, 1}
        BY BitType
      <4>n. disk.nlink[i] \in Nat
        BY DEF Dinodes
      <4> CASE j = i
        <5>1. Owes(p, pr[p].name, j) = e + Bit(pr[p].pc \in Ahead)
          BY DEF Owes, Bit
        <5>2. Owes(p, pr[p].name, j)' = e + Bit(l \in Ahead)
          BY <3>0 DEF Owes, Inum, Bit
        <5>3. disk'.nlink[j] = n /\ disk.nlink[j] = disk.nlink[i]
          OBVIOUS
        <5>4. Level(n, Bit(pr[p].pc \in Ahead), disk.nlink[i], Bit(l \in Ahead))
          BY DEF Level
        <5>5. Level(n, e + Bit(pr[p].pc \in Ahead), disk.nlink[i], e + Bit(l \in Ahead))
          BY <4>e, <4>n, <5>4, AddBoth
        <5> QED
          BY <5>1, <5>2, <5>3, <5>5 DEF Level
      <4> CASE j # i
        <5>1. Owes(p, pr[p].name, j) = e + 0
          BY DEF Owes, Bit
        <5>2. Owes(p, pr[p].name, j)' = e + 0
          BY <3>0 DEF Owes, Inum, Bit
        <5>3. disk'.nlink[j] = disk.nlink[j]
          BY DEF Touches
        <5> QED
          BY <5>1, <5>2, <5>3
      <4> QED
        OBVIOUS
    <3> QED
      BY <3>0 DEF LinkedHere
  <2>12. AllocatedHere(p, i)
    <3> CASE t = 1
      <4>1. file[p] # 0 => inode'[file[p]].inum = inode[file[p]].inum /\ inode[file[p]].inum \in Inums
        BY InumsStay, Referenced
      <4>2. file[p] # 0 => disk.type[inode[file[p]].inum] = 1
        BY DEF IInv, Allocated
      <4>3. file[p] # 0 => disk'.type[inode'[file[p]].inum] = 1
        BY <4>1, <4>2 DEF Touches
      <4> QED
        BY <4>3 DEF AllocatedHere
    <3> CASE t = 0
      <4>1. l = "freed" /\ l \in Leaving /\ pr[p].pc = "itrunc"
        BY DEF Leaving
      <4>2. /\ \A q \in Procs : q # p /\ pr[q].pc \in Using => pr[q].ip # s
            /\ \A q \in Procs : file[q] # s
        BY <4>1 DEF IInv, Alone
      <4>3. \A u \in Slots : inode[u].ref > 0 /\ u # s => inode[u].inum # i
        BY DEF IInv, OneEntry, Inum
      <4>4. \A q \in Procs : q # p /\ pr[q].pc \in Using => Inum(q) # i
        BY <4>2, <4>3, Referenced DEF Inum
      <4>5. \A q \in Procs : file[q] # 0 => inode[file[q]].inum # i
        BY <4>2, <4>3, Referenced
      <4>6. file[p] # 0 => disk'.type[inode'[file[p]].inum] = 1
        <5>1. file[p] # 0 => inode'[file[p]].inum = inode[file[p]].inum /\ inode[file[p]].inum \in Inums
          BY InumsStay, Referenced
        <5>2. file[p] # 0 => disk.type[inode[file[p]].inum] = 1
          BY DEF IInv, Allocated
        <5> QED
          BY <4>5, <5>1, <5>2 DEF Touches
      <4> QED
        BY <4>1, <4>4, <4>5, <4>6 DEF AllocatedHere, Held
    <3> QED
      OBVIOUS
  <2>13. Boot'
    <3> CASE ~Booting
      BY BootMove DEF BootHere, IInv
    <3> CASE Booting
      <4>1. p = First
        BY BootsAlone DEF Using
      <4> QED
        BY <4>1, BootMoveFirst DEF Moves
    <3> QED
      OBVIOUS
  <2>14. pr'[p].pc \in Creating => FreshFor(p)
    <3> SUFFICES ASSUME l \in Creating PROVE FreshFor(p)
      OBVIOUS
    <3>1. pr[p].pc \in Creating /\ pr[p].pc = "create_update" /\ l = "create_dirlink" /\ n = 1 /\ t = 1
      OBVIOUS
    <3>2. NewInum(p) = i
      BY <3>1 DEF NewInum
    <3>3. /\ \A q \in Procs : q # p /\ pr[q].pc \in Using /\ Inum(q) = i => pr[q].pc \in Leaving
          /\ \A q \in Procs : file[q] # 0 => inode[file[q]].inum # i
      BY <3>1, <3>2 DEF IInv, Fresh
    <3>4. file[p] # 0 => inode'[file[p]].inum # i
      BY <3>3, InumsStay
    <3> QED
      BY <3>1, <3>3, <3>4 DEF FreshFor, Held
  <2>16. (pr'[p].pc = "itrunc" => AloneFor(p)) /\ Held(p)
    OBVIOUS
  <2> QED
    BY <2>3, <2>7, <2>8, <2>9, <2>10, <2>11, <2>12, <2>13, <2>14, <2>16, <2>b, OnEntry
<1>4. ASSUME NEW p \in Procs, iput_free(p)
      PROVE  IInv'
  <2> USE <1>4
  <2> DEFINE s == pr[p].ip
             i == Inum(p)
  <2> /\ pr[p].pc = "itrunc" /\ iupdate(p, 0, inode[s].nlink, p) /\ Goto(p, "freed") /\ panicked' = 0
      /\ committed' = committed /\ outstanding' = outstanding /\ dlock' = dlock
      /\ file' = file /\ scan' = scan
    BY DEF iput_free, At, ip
  <2> /\ pr[p].pc \in Locking /\ pr[p].pc # "freed" /\ pr[p].pc \notin Ahead /\ "freed" \in Using
      /\ "freed" \in Locking /\ "freed" \notin Ahead /\ "freed" \notin Creating /\ "freed" \notin Reclaiming
      /\ "freed" \notin {"ilock", "create", "unlink", "itrunc"}
    BY DEF Using, Locking, Ahead, Creating, Reclaiming
  <2>1. inode[s].nlink = 0 /\ disk.nlink[i] = 0
    BY DEF IInv, Alone
  <2>2. i \in Inums
    BY LockedAgrees
  <2>3. Sets(s, inode[s].ref, i, 1, 0, 0, p) /\ Writes(i, 0, 0)
    <3>1. iupdate(p, 0, 0, p) /\ 0 \in {0, 1} /\ 0 \in Nat
      BY <2>1
    <3> QED
      BY <3>1, <1>2
  <2>m. Moves(p, "freed", s, pr[p].op, pr[p].name)
    <3>0. Types /\ pr \in [Procs -> Calls]
      BY DEF IInv, Types
    <3>1. [pr[p] EXCEPT !.pc = "freed"] \in Calls
      BY <3>0 DEF Calls
    <3> QED
      BY <3>0, <3>1, GotoMoves
  <2>4. 0 + Bit(pr[p].pc \in Ahead) = disk.nlink[i] + Bit("freed" \in Ahead)
    BY <2>1 DEF Bit
  <2> ASSUME ~Booting PROVE pr[p].op # "ireclaim"
    BY DEF Booting, IInv, Boot
  <2> ASSUME Booting PROVE BootFor
    <3>1. p = First
      BY BootsAlone
    <3>2. /\ scan - 1 = i /\ \A j \in 1..scan - 2 : ~Orphan(j)
      BY <3>1 DEF IInv, Boot
    <3>3. scan \in 1..NINUM + 1 /\ i \in 1..NINUM /\ NINUM \in Nat
      BY <2>2, ItableAssumption DEF IInv, Types, Inums
    <3> ASSUME NEW j \in 1..scan - 1 PROVE ~Orphan(j)'
      <4> CASE j = i
        BY <2>3 DEF Orphan, Writes
      <4> CASE j # i
        <5>1. j \in 1..scan - 2 /\ j \in Inums
          BY <3>2, <3>3, ScanPast DEF Inums
        <5> QED
          BY <2>3, <3>2, <5>1 DEF Orphan, Writes, Touches
      <4> QED
        OBVIOUS
    <3>5. pr'[p].pc = "freed" /\ scan' = scan
      BY <2>m DEF Moves
    <3> QED
      BY <3>1, <3>5 DEF BootFor
  <2> HIDE DEF s, i
  <2>7. s = pr[p].ip /\ i = Inum(p) /\ 0 \in {0, 1} /\ 0 \in Nat /\ p \in {p, NoProc}
    BY DEF s, i
  <2> QED
    BY <2>m, <2>3, <2>4, <2>7, <1>3
\* ip->nlink is set and the inode written, in create(), sys_link() and sys_unlink().
<1>5. ASSUME NEW p \in Procs, NEW l, NEW k \in {p, NoProc}, NEW n \in Nat,
             pr[p].pc \in {"create_update", "create_dirlink", "nlink_dec", "link"},
             iupdate(p, inode[pr[p].ip].type, n, k), Goto(p, l),
             l \in {"create_dirlink", "iput", "link_dirlink"},
             l = "create_dirlink" => pr[p].pc = "create_update" /\ n = 1,
             k = p <=> l = "create_dirlink",
             n + Bit(pr[p].pc \in Ahead) = disk.nlink[Inum(p)] + Bit(l \in Ahead),
             committed' = committed, outstanding' = outstanding, dlock' = dlock,
             file' = file, scan' = scan, panicked' = 0
      PROVE  IInv'
  <2> USE <1>5
  <2> DEFINE s == pr[p].ip
             i == Inum(p)
  <2> /\ pr[p].pc \in Locking /\ pr[p].pc # "freed" /\ l \in Using
      /\ (l \in Locking <=> l = "create_dirlink") /\ (l \in Creating => l = "create_dirlink")
      /\ l \notin Reclaiming /\ pr[p].pc \notin BootPCs
      /\ l \notin {"ilock", "create", "unlink", "itrunc"}
    BY DEF Using, Locking, Creating, Reclaiming, BootPCs
  <2>1. inode[s].type = 1
    BY LockedAgrees
  <2>2. k \in Procs \union {NoProc} /\ 1 \in {0, 1} /\ 1 # 0
    BY SMT
  <2>3. Sets(s, inode[s].ref, i, 1, 1, n, k) /\ Writes(i, 1, n)
    <3>1. iupdate(p, 1, n, k)
      BY <2>1
    <3> QED
      BY <2>2, <3>1, <1>2
  <2>m. Moves(p, l, s, pr[p].op, pr[p].name)
    <3>0. Types /\ pr \in [Procs -> Calls]
      BY DEF IInv, Types
    <3>1. [pr[p] EXCEPT !.pc = l] \in Calls
      BY <3>0 DEF Calls
    <3> QED
      BY <3>0, <3>1, GotoMoves
  <2>5. ~Booting /\ pr[p].op # "ireclaim"
    BY NotBooting
  <2>6. l \in Locking <=> k = p
    OBVIOUS
  <2>8. n + Bit(pr[p].pc \in Ahead) = disk.nlink[i] + Bit(l \in Ahead)
    OBVIOUS
  <2>9. /\ l \in Creating => l = "create_dirlink" /\ pr[p].pc = "create_update" /\ n = 1
        /\ 1 = 0 => l = "freed" /\ n = 0 /\ pr[p].pc = "itrunc"
        /\ ~Booting => l \notin Reclaiming /\ pr[p].op # "ireclaim"
        /\ Booting => BootFor
    BY <2>2, <2>5
  <2> HIDE DEF s, i
  <2>7. s = pr[p].ip /\ i = Inum(p)
    BY DEF s, i
  <2>10. /\ p \in Procs /\ n \in Nat /\ committed' = committed /\ outstanding' = outstanding /\ dlock' = dlock
         /\ file' = file /\ scan' = scan /\ panicked' = 0
    OBVIOUS
  <2> HIDE <1>5
  <2> QED
    BY <2>m, <2>2, <2>3, <2>6, <2>7, <2>8, <2>9, <2>10, <1>3, ZenonT(120)
<1>6. ASSUME NEW p \in Procs, create_update(p)
      PROVE  IInv'
  <2> USE <1>6
  <2>1. pr[p].pc = "create_update" /\ pr[p].pc \in Creating /\ pr[p].pc # "create_dirlink" /\ pr[p].pc # "iget"
    BY DEF create_update, At, Creating
  <2>2. disk.nlink[Inum(p)] = 0
    BY <2>1 DEF IInv, Fresh, NewInum
  <2>3. 1 + Bit(pr[p].pc \in Ahead) = disk.nlink[Inum(p)] + Bit("create_dirlink" \in Ahead)
    BY <2>1, <2>2, Numbers DEF Ahead, Bit
  <2>4. /\ iupdate(p, inode[pr[p].ip].type, 1, p) /\ Goto(p, "create_dirlink")
        /\ committed' = committed /\ outstanding' = outstanding /\ dlock' = dlock
        /\ file' = file /\ scan' = scan /\ panicked' = 0
    BY DEF create_update, ip
  <2>5. p \in {p, NoProc} /\ 1 \in Nat
    OBVIOUS
  <2> QED
    BY <2>1, <2>3, <2>4, <2>5, <1>5
<1>7. ASSUME NEW p \in Procs, create_fail(p)
      PROVE  IInv'
  <2> USE <1>7
  <2>1. pr[p].pc = "create_dirlink" /\ pr[p].pc \in Creating /\ pr[p].pc # "iget"
    BY DEF create_fail, At, Creating
  <2>2. disk.nlink[Inum(p)] = 1
    BY <2>1 DEF IInv, Fresh, NewInum
  <2>3. 0 + Bit(pr[p].pc \in Ahead) = disk.nlink[Inum(p)] + Bit("iput" \in Ahead)
    BY <2>1, <2>2, Numbers DEF Ahead, Bit
  <2>4. /\ iupdate(p, inode[pr[p].ip].type, 0, NoProc) /\ Goto(p, "iput")
        /\ committed' = committed /\ outstanding' = outstanding /\ dlock' = dlock
        /\ file' = file /\ scan' = scan /\ panicked' = 0
    BY DEF create_fail, ip
  <2>5. NoProc \in {p, NoProc} /\ 0 \in Nat /\ NoProc # p
    BY ItableAssumption
  <2> QED
    BY <2>1, <2>3, <2>4, <2>5, <1>5
\* With nlink = 1 a link to come is the only one.
<1>8. ASSUME NEW p \in Procs, pr[p].pc \in Ahead
      PROVE  /\ disk.nlink[Inum(p)] > 0
             /\ disk.nlink[Inum(p)] = 1 => /\ \A nm \in Names : disk.entry[nm] # Inum(p)
                                           /\ \A q \in Procs : q # p /\ pr[q].pc \in Ahead => Inum(q) # Inum(p)
  <2> USE <1>8
  <2> DEFINE i == Inum(p)
  <2>0. i \in Inums
    BY Referenced DEF Using, Ahead
  <2>1. IsFiniteSet(NamesOf(disk, i)) /\ IsFiniteSet(Pending(i))
    BY ItableAssumption DEF Counting, NamesOf, Pending
  <2>2. Cardinality(NamesOf(disk, i)) \in Nat /\ Cardinality(Pending(i)) \in Nat
    BY <2>1 DEF Counting
  <2>3. disk.nlink[i] = Cardinality(NamesOf(disk, i)) + Cardinality(Pending(i))
    BY <2>0 DEF IInv, Linked
  <2>4. p \in Pending(i)
    BY DEF Pending
  <2> HIDE DEF i
  <2>5. Cardinality(Pending(i)) > 0 /\ (Cardinality(Pending(i)) = 1 => \A y \in Pending(i) : y = p)
    BY <2>1, <2>4, Occupied
  <2> ASSUME disk.nlink[i] = 1
      PROVE  NamesOf(disk, i) = {} /\ \A y \in Pending(i) : y = p
    <3>1. Cardinality(NamesOf(disk, i)) = 0 /\ Cardinality(Pending(i)) = 1
      BY <2>2, <2>3, <2>5, OnlyPending
    <3> QED
      BY <3>1, <2>1, <2>5 DEF Counting
  <2>7. disk.nlink[i] > 0
    BY <2>2, <2>3, <2>5, OneAtLeast
  <2> QED
    BY <2>7 DEF i, NamesOf, Pending
<1>9. ASSUME NEW p \in Procs, nlink_dec(p)
      PROVE  IInv'
  <2> USE <1>9
  <2>1. pr[p].pc = "nlink_dec" /\ pr[p].pc \in Ahead /\ "iput" \notin Ahead /\ pr[p].pc \in Locking /\ pr[p].pc # "freed"
    BY DEF nlink_dec, At, Ahead, Locking
  <2>2. inode[pr[p].ip].nlink = disk.nlink[Inum(p)] /\ disk.nlink[Inum(p)] \in Nat /\ disk.nlink[Inum(p)] > 0
    BY <2>1, LockedAgrees, <1>8
  <2> DEFINE n == inode[pr[p].ip].nlink - 1
  <2>3. n \in Nat /\ n + Bit(pr[p].pc \in Ahead) = disk.nlink[Inum(p)] + Bit("iput" \in Ahead)
    <3>1. Bit(pr[p].pc \in Ahead) = 1 /\ Bit("iput" \in Ahead) = 0
      BY <2>1 DEF Bit
    <3> QED
      BY <2>2, <3>1, LessOne
  <2>4. /\ iupdate(p, inode[pr[p].ip].type, n, NoProc) /\ Goto(p, "iput")
        /\ committed' = committed /\ outstanding' = outstanding /\ dlock' = dlock
        /\ file' = file /\ scan' = scan /\ panicked' = 0
    BY DEF nlink_dec, ip
  <2>5. NoProc \in {p, NoProc} /\ NoProc # p
    BY ItableAssumption
  <2> HIDE DEF n
  <2> QED
    BY <2>1, <2>3, <2>4, <2>5, <1>5
<1>10. ASSUME NEW p \in Procs, link_nlink(p)
       PROVE  IInv'
  <2> USE <1>10
  <2>1. pr[p].pc = "link" /\ pr[p].pc \notin Ahead /\ "link_dirlink" \in Ahead /\ pr[p].pc \in Locking /\ pr[p].pc # "freed"
    BY DEF link_nlink, At, Ahead, Locking
  <2>2. inode[pr[p].ip].nlink = disk.nlink[Inum(p)] /\ disk.nlink[Inum(p)] \in Nat
    BY <2>1, LockedAgrees
  <2> DEFINE n == inode[pr[p].ip].nlink + 1
  <2>3. n \in Nat /\ n + Bit(pr[p].pc \in Ahead) = disk.nlink[Inum(p)] + Bit("link_dirlink" \in Ahead)
    <3>1. Bit(pr[p].pc \in Ahead) = 0 /\ Bit("link_dirlink" \in Ahead) = 1
      BY <2>1 DEF Bit
    <3> QED
      BY <2>2, <3>1, AddOne
  <2>4. /\ iupdate(p, inode[pr[p].ip].type, n, NoProc) /\ Goto(p, "link_dirlink")
        /\ committed' = committed /\ outstanding' = outstanding /\ dlock' = dlock
        /\ file' = file /\ scan' = scan /\ panicked' = 0
    BY DEF link_nlink, ip
  <2>5. NoProc \in {p, NoProc} /\ NoProc # p
    BY ItableAssumption
  <2> HIDE DEF n
  <2> QED
    BY <2>1, <2>3, <2>4, <2>5, <1>5
<1> QED
  BY <1>4, <1>6, <1>7, <1>9, <1>10

-----------------------------------------------------------------------------
\* The steps that write a directory entry
LEMMA NameKeeps ==
  ASSUME Counting, IInv, panicked = 0
  PROVE  \A p \in Procs : create_dirlink(p) \/ unlink_entry(p) \/ (\E new \in Names : link_dirlink(p, new)) => IInv'
\* A step of dirlink() or sys_unlink() on the directory
<1>2. ASSUME NEW p \in Procs, NEW s, NEW i, s = pr[p].ip, i = Inum(p), pr[p].pc \in Using,
             pr[p].pc \notin BootPCs, NEW l, Moves(p, l, s, pr[p].op, pr[p].name), inode' = inode,
             NEW nm \in Names, NEW e \in {0, i}, disk' = [disk EXCEPT !.entry[nm] = e],
             \/ e = i /\ disk.entry[nm] = 0 /\ pr[p].pc \in Ahead /\ l \notin Ahead
             \/ e = 0 /\ disk.entry[nm] = i /\ pr[p].pc \notin Ahead /\ l \in Ahead,
             dlock \in {p, NoProc}, dlock' \in {dlock, NoProc},
             committed' = committed, outstanding' = outstanding, file' = file, scan' = scan, panicked' = 0,
             l \in {"opened", "nlink_dec", "iput"}, l \in Locking <=> pr[p].pc \in Locking
      PROVE  IInv'
  <2> USE <1>2
  <2>t. Types /\ pr[p].name \in Names /\ disk \in Dinodes /\ inode \in [Slots -> Cached] /\ dlock' \in Procs \union {NoProc}
    BY DEF IInv, Types, Calls
  <2> /\ l \notin {"iget", "ilock", "lookup", "create", "off", "idle", "ireclaim"} /\ l # "itrunc" /\ l # "unlink"
      /\ l \notin Creating \union {"ialloc"} /\ l \notin Reclaiming /\ l \in Using /\ Held(p) /\ pr[p].pc # "freed"
    BY DEF Using, Held, Leaving, BootPCs, Creating, Reclaiming
  <2> s \in Slots /\ inode[s].ref > 0 /\ i \in Inums
    BY Referenced
  <2> Enters(nm, e)
    BY <2>t, EntryEnters
  <2>3. Types'
    BY <2>t DEF Types, Moves, Enters, NoInodes
  <2> /\ pr'[p].pc = l /\ pr'[p].ip = s /\ pr'[p].op = pr[p].op /\ inode'[s] = inode[s] /\ inode'[s].inum = i
      /\ disk'.type = disk.type /\ disk'.nlink = disk.nlink
    BY DEF Moves, Enters, Inum
  <2>4. Others(p, s) /\ Touches(i) /\ SameDinode(i)
    BY DEF Others, Moves, Touches, SameDinode
  <2>b. BoundedHere(s) /\ FreeHere(i)
    BY DEF BoundedHere, FreeHere, IInv, FreeUnlinked
  <2>7. Works(p, s, i)
    BY <2>4 DEF Works
  <2>8. LocksHere(p, s)
    BY DEF LocksHere, IInv, Locks
  <2>9. DirHere(p)
    BY DEF DirHere
  <2>10. AgreeFor(s)
    <3> SUFFICES ASSUME inode[s].ref > 0, inode[s].valid = 1
                 PROVE  \/ inode[s].lock # NoProc /\ pr'[inode[s].lock].pc = "freed"
                        \/ /\ disk.type[i] = 1 /\ inode[s].type = 1
                           /\ inode[s].nlink = disk.nlink[i]
      BY DEF AgreeFor
    <3> CASE Freeing(s)
      <4>1. inode[s].lock \in Procs /\ inode[s].lock # p
        BY <2>t DEF Cached, Freeing
      <4> QED
        BY <4>1 DEF Freeing, Moves
    <3> QED
      BY DEF IInv, Agree, Inum
  <2>11. LinkedHere(p, nm)
    <3> ASSUME NEW j \in Inums
        PROVE  Owes(p, nm, j) = Owes(p, nm, j)'
      <4>0. j # 0
        BY InumNumbers
      <4>i. Inum(p)' = i /\ disk'.entry[nm] = e
        BY DEF Inum, Enters
      <4> CASE j # i
        BY <4>0, <4>i DEF Owes, Bit
      <4> CASE j = i
        <5> CASE pr[p].pc \in Ahead
          <6>1. Owes(p, nm, j) = 0 + 1
            BY <4>0 DEF Owes, Bit
          <6>2. Owes(p, nm, j)' = 1 + 0
            BY <4>0, <4>i DEF Owes, Bit
          <6> QED
            BY <6>1, <6>2, Numbers
        <5> CASE pr[p].pc \notin Ahead
          <6>1. Owes(p, nm, j) = 1 + 0
            BY <4>0 DEF Owes, Bit
          <6>2. Owes(p, nm, j)' = 0 + 1
            BY <4>0, <4>i DEF Owes, Bit
          <6> QED
            BY <6>1, <6>2, Numbers
        <5> QED
          OBVIOUS
      <4> QED
        OBVIOUS
    <3> QED
      BY DEF LinkedHere, Enters
  <2>12. AllocatedHere(p, i)
    BY <2>4, TypesStay
  <2>13. Boot'
    <3>1. ~Booting /\ pr[p].op # "ireclaim"
      BY NotBooting
    <3> QED
      BY <3>1, <2>4, BootMove DEF BootHere, IInv
  <2>14. (pr'[p].pc \in Creating => FreshFor(p)) /\ (pr'[p].pc = "itrunc" => AloneFor(p)) /\ Held(p)
    OBVIOUS
  <2> QED
    BY <2>3, <2>7, <2>8, <2>9, <2>10, <2>11, <2>12, <2>13, <2>14, <2>b, OnEntry
<1>3. ASSUME NEW p \in Procs, create_dirlink(p)
      PROVE  IInv'
  <2> USE <1>3
  <2> /\ pr[p].pc = "create_dirlink" /\ disk' = [disk EXCEPT !.entry[pr[p].name] = Inum(p)]
      /\ dlock' = NoProc /\ Goto(p, "opened") /\ inode' = inode
      /\ committed' = committed /\ outstanding' = outstanding /\ file' = file /\ scan' = scan /\ panicked' = 0
    BY DEF create_dirlink, At, ip, Inum
  <2>2. /\ pr[p].pc \in Using /\ pr[p].pc \notin BootPCs /\ pr[p].pc \in Ahead /\ "opened" \notin Ahead
        /\ "opened" \in {"opened", "nlink_dec", "iput"} /\ "opened" \in Locking /\ pr[p].pc \in Locking
        /\ pr[p].pc \in Creating \union {"ialloc"}
    BY DEF Using, BootPCs, Ahead, Locking, Creating
  <2>3. dlock = p /\ disk.entry[pr[p].name] = 0
    BY <2>2 DEF IInv, Dir
  <2>4. Types /\ pr \in [Procs -> Calls] /\ pr[p].name \in Names
    BY DEF IInv, Types, Calls
  <2>5. Moves(p, "opened", pr[p].ip, pr[p].op, pr[p].name)
    <3>1. [pr[p] EXCEPT !.pc = "opened"] \in Calls
      BY <2>4 DEF Calls
    <3> QED
      BY <2>4, <3>1, GotoMoves
  <2>6. Inum(p) \in {0, Inum(p)} /\ dlock \in {p, NoProc} /\ dlock' \in {dlock, NoProc}
    BY <2>3
  <2>8. \/ Inum(p) = Inum(p) /\ disk.entry[pr[p].name] = 0 /\ pr[p].pc \in Ahead /\ "opened" \notin Ahead
        \/ Inum(p) = 0 /\ disk.entry[pr[p].name] = Inum(p) /\ pr[p].pc \notin Ahead /\ "opened" \in Ahead
    BY <2>2, <2>3
  <2> DEFINE s == pr[p].ip
             i == Inum(p)
  <2>9. s = pr[p].ip /\ i = Inum(p)
    OBVIOUS
  <2> HIDE DEF s, i
  <2> QED
    BY <2>2, <2>4, <2>5, <2>6, <2>8, <1>2
<1>4. ASSUME NEW p \in Procs, unlink_entry(p)
      PROVE  IInv'
  <2> USE <1>4
  <2> /\ pr[p].pc = "unlink" /\ disk' = [disk EXCEPT !.entry[pr[p].name] = 0]
      /\ dlock' = NoProc /\ Goto(p, "nlink_dec") /\ inode' = inode
      /\ committed' = committed /\ outstanding' = outstanding /\ file' = file /\ scan' = scan
      /\ panicked' = IF inode[pr[p].ip].nlink < 1 THEN 1 ELSE 0
    BY DEF unlink_entry, At, ip
  <2>2. /\ pr[p].pc \in Using /\ pr[p].pc \notin BootPCs /\ pr[p].pc \notin Ahead /\ "nlink_dec" \in Ahead
        /\ "nlink_dec" \in {"opened", "nlink_dec", "iput"} /\ "nlink_dec" \in Locking /\ pr[p].pc \in Locking
        /\ pr[p].pc # "freed"
    BY DEF Using, BootPCs, Ahead, Locking
  <2>3. dlock = p /\ disk.entry[pr[p].name] = Inum(p)
    BY DEF IInv, Dir
  <2> Types /\ pr \in [Procs -> Calls] /\ pr[p].name \in Names
    BY DEF IInv, Types, Calls
  <2>5. Moves(p, "nlink_dec", pr[p].ip, pr[p].op, pr[p].name)
    <3>1. [pr[p] EXCEPT !.pc = "nlink_dec"] \in Calls
      BY DEF Calls
    <3> QED
      BY <3>1, GotoMoves
  <2>7. panicked' = 0
    <3>1. Inum(p) # 0 /\ inode[pr[p].ip].nlink = disk.nlink[Inum(p)] /\ disk.nlink[Inum(p)] \in Nat
      BY <2>2, LockedAgrees, InumNumbers
    <3>2. disk.nlink[Inum(p)] > 0
      BY <2>3, <3>1, NamedLinked
    <3>3. ~(inode[pr[p].ip].nlink < 1)
      BY <3>1, <3>2, LessOne
    <3> QED
      BY <3>3
  <2>6. 0 \in {0, Inum(p)} /\ dlock \in {p, NoProc} /\ dlock' \in {dlock, NoProc}
    BY <2>3
  <2> QED
    BY <2>2, <2>3, <2>5, <2>6, <2>7, <1>2
<1>5. ASSUME NEW p \in Procs, NEW new \in Names, link_dirlink(p, new)
      PROVE  IInv'
  <2> USE <1>5
  <2> /\ pr[p].pc = "link_dirlink" /\ dlock = NoProc /\ dlock' = dlock /\ inode' = inode
      /\ committed' = committed /\ outstanding' = outstanding /\ file' = file /\ scan' = scan /\ panicked' = 0
    BY DEF link_dirlink, At
  <2>1. \/ disk.entry[new] = 0 /\ disk' = [disk EXCEPT !.entry[new] = Inum(p)] /\ Goto(p, "iput")
        \/ Goto(p, "link_bad") /\ disk' = disk
    BY DEF link_dirlink, ip, Inum
  <2> /\ pr[p].pc \in Using /\ pr[p].pc \notin BootPCs /\ pr[p].pc \in Ahead /\ pr[p].pc \notin Locking /\ Held(p)
      /\ "iput" \notin Ahead /\ "iput" \in {"opened", "nlink_dec", "iput"} /\ "iput" \notin Locking
      /\ "link_bad" \in Using /\ "link_bad" \in Ahead /\ "link_bad" \notin Locking /\ "link_bad" \notin Creating
      /\ "link_bad" \notin Reclaiming /\ "link_bad" \notin {"ilock", "create"} /\ "link_bad" # "unlink" /\ "link_bad" # "itrunc"
      /\ pr[p].pc # "freed"
    BY DEF Using, Leaving, BootPCs, Ahead, Locking, Creating, Reclaiming, Held
  <2> Types /\ pr \in [Procs -> Calls] /\ inode \in [Slots -> Cached]
    BY DEF IInv, Types
  <2>3. pr[p].ip \in Slots /\ Inum(p) \in Inums /\ inode[pr[p].ip].ref > 0
    BY Referenced
  <2> CASE disk.entry[new] = 0 /\ disk' = [disk EXCEPT !.entry[new] = Inum(p)] /\ Goto(p, "iput")
    <3>1. [pr[p] EXCEPT !.pc = "iput"] \in Calls
      BY DEF Calls
    <3>2. Moves(p, "iput", pr[p].ip, pr[p].op, pr[p].name)
      BY <3>1, GotoMoves
    <3>3. Inum(p) \in {0, Inum(p)} /\ dlock \in {p, NoProc} /\ dlock' \in {dlock, NoProc}
      OBVIOUS
    <3> QED
      BY <3>2, <3>3, <1>2
  <2> CASE Goto(p, "link_bad") /\ disk' = disk
    <3>1. linkFails(p)
      BY DEF linkFails, At
    <3> QED
      BY <3>1, EntryKeeps
  <2> QED
    BY <2>1
<1> QED
  BY <1>3, <1>4, <1>5

-----------------------------------------------------------------------------
\* Each action keeps the invariant.
LEMMA StepKeeps ==
  ASSUME Counting, IInv, Opening, panicked = 0, NEW p \in Procs, Step(p)
  PROVE  IInv'
<1>1. CASE iput(p) \/ iput_last(p) \/ iput_release(p) \/ iput_unref(p) \/ call_ilock(p) \/ create_ilock(p)
           \/ open_fails(p) \/ link_bad(p) \/ ireclaim_ilock(p) \/ ireclaim_iput(p)
  BY <1>1, EntryKeeps
<1>2. CASE iput_free(p) \/ create_update(p) \/ create_fail(p) \/ nlink_dec(p) \/ link_nlink(p)
  BY <1>2, UpdateKeeps
<1>3. CASE create_dirlink(p) \/ unlink_entry(p) \/ (\E new \in Names : link_dirlink(p, new))
  BY <1>3, NameKeeps
<1>4. CASE end_op(p) \/ dirlookup_fails(p) \/ ialloc_fails(p) \/ ireclaim_skip(p)
  BY <1>4, QuietKeeps
<1>5. CASE dirlookup(p) \/ ialloc_iget(p) \/ ireclaim(p)
  BY <1>5, GetKeeps
<1>6. CASE open_file(p) \/ (\E i \in Inums : ialloc(p, i)) \/ ireclaim_return(p)
  BY <1>6, FileKeeps, iallocKeeps, ireclaim_returnKeeps
<1> QED
  BY <1>1, <1>2, <1>3, <1>4, <1>5, <1>6 DEF Step

LEMMA NextKeeps ==
  ASSUME Counting, IInv, Opening, Next
  PROVE  IInv'
<1>1. panicked = 0
  BY DEF Next
<1>2. ASSUME NEW p \in Procs, Call(p)
      PROVE  IInv'
  <2>1. CASE \E nm \in Names : sys_open(p, nm) \/ sys_open_create(p, nm) \/ sys_link(p, nm) \/ sys_unlink(p, nm)
    BY <1>1, <2>1, QuietKeeps DEF sys_open, sys_open_create, sys_link, sys_unlink
  <2> QED
    BY <1>1, <1>2, <2>1, FileKeeps DEF Call
<1> QED
  BY <1>1, <1>2, StepKeeps, crashKeeps DEF Next

-----------------------------------------------------------------------------
INSTANCE FiniteSetTheorems

LEMMA CountingHolds == Counting
<1>1. \A S : IsFiniteSet(S) => Cardinality(S) \in Nat /\ (Cardinality(S) = 0 <=> S = {})
  BY FS_CardinalityType, FS_EmptySet
<1>2. \A S : IsFiniteSet(S) /\ Cardinality(S) = 1 => \E x : S = {x}
  BY FS_Singleton
<1>3. \A S, x : IsFiniteSet(S) /\ x \notin S =>
        IsFiniteSet(S \union {x}) /\ Cardinality(S \union {x}) = Cardinality(S) + 1
  BY FS_AddElement
<1>4. \A S, x : IsFiniteSet(S) /\ x \in S =>
        IsFiniteSet(S \ {x}) /\ Cardinality(S \ {x}) = Cardinality(S) - 1
  BY FS_RemoveElement
<1>5. \A S, T : IsFiniteSet(T) /\ S \subseteq T => IsFiniteSet(S) /\ Cardinality(S) <= Cardinality(T)
  BY FS_Subset
<1>6. Cardinality({}) = 0 /\ \A x : Cardinality({x}) = 1
  BY FS_EmptySet, FS_Singleton
<1> QED
  BY <1>1, <1>2, <1>3, <1>4, <1>5, <1>6 DEF Counting

(***************************************************************************)
(* Whatever the steps of the system calls and of ireclaim() between two    *)
(* acquisitions of itable.lock or of a sleep lock, and wherever the        *)
(* machine crashes: ip->ref counts the pointers, an inode has one entry,   *)
(* the locks are held by who says so, the inode that create() has just     *)
(* allocated is nobody else's, iput() frees what it alone points to, and   *)
(* nlink is the number of names and of links on their way.                 *)
(***************************************************************************)
THEOREM Invariance == Spec => [](IInv /\ Opening)
<1>1. Init => IInv /\ Opening
  <2>1. Init => Opening
    BY DEF Init, Opening
  <2> QED
    BY <2>1, InitHolds, CountingHolds
<1>2. IInv /\ Opening /\ [Next]_vars => (IInv /\ Opening)'
  <2> SUFFICES ASSUME IInv, Opening, [Next]_vars PROVE (IInv /\ Opening)'
    OBVIOUS
  <2>1. CASE Next
    <3>1. pr \in [Procs -> Calls] /\ file \in [Procs -> {0} \union Slots]
      BY DEF IInv, Types
    <3> QED
      BY <2>1, <3>1, NextKeeps, OpeningKeeps, CountingHolds
  <2>2. CASE UNCHANGED vars
    <3>1. UNCHANGED <<disk, committed, outstanding, inode, dlock, pr, file, scan>> /\ panicked' = panicked
      BY <2>2 DEF vars
    <3>2. panicked' \in {0, 1, NoInodes} /\ Panics'
      BY <3>1 DEF IInv, Types, Panics, Empty
    <3>3. Opening'
      BY <3>1 DEF Opening, Opens
    <3> QED
      BY <3>1, <3>2, <3>3, Same
  <2> QED
    BY <2>1, <2>2
<1> QED
  BY <1>1, <1>2, PTL DEF Spec

LEMMA Consequence == IInv => InUseIsAllocated /\ CrashConsistent /\ ReclaimIsComplete
  BY Implied, CountingHolds

(***************************************************************************)
(* No name and no open file leads to an inode that iput() has freed; ref   *)
(* counts the pointers, an inode has one entry, a valid entry that nobody  *)
(* has locked agrees with the disk; and no assertion of fs.c or sysfile.c  *)
(* fails, but that of iget() when all entries are in use.                  *)
(***************************************************************************)
THEOREM InUseIsAllocatedHolds == Spec => []InUseIsAllocated
  BY Invariance, Consequence, PTL

(***************************************************************************)
(* end_op() commits when the last operation is out, and no system call     *)
(* leaves a link half made across its end_op(): after a crash every name   *)
(* leads to an allocated inode, whose nlink is the number of its names.    *)
(***************************************************************************)
THEOREM CrashConsistentHolds == Spec => []CrashConsistent
  BY Invariance, Consequence, PTL

(***************************************************************************)
(* ireclaim() leaves no allocated inode without links behind it, although  *)
(* it frees through iput(), in a transaction of its own for each inode,    *)
(* and a crash may come at any of its steps.                               *)
(***************************************************************************)
THEOREM ReclaimIsCompleteHolds == Spec => []ReclaimIsComplete
  BY Invariance, Consequence, PTL

=============================================================================
