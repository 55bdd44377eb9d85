----------------------------- MODULE Directory -----------------------------
(***************************************************************************)
(* Directories and path names: namex(), and mkdir, create, unlink and      *)
(* chdir on a tree, kernel/fs.c and kernel/sysfile.c.  A step is what is   *)
(* done under the lock of one inode.  References are counted from who      *)
(* holds them (module Itable shows that ip->ref does that), and an inode   *)
(* whose last reference and link are gone is freed by iput().              *)
(***************************************************************************)
EXTENDS Integers, Sequences, FiniteSets, FiniteSetsExt

CONSTANTS
  Procs,
  Names,
  Dots,      \* {".."} if paths may contain it
  NINUM      \* inodes 1..NINUM, the first is the root

ROOTINO == 1
Inums == 1..NINUM
AllNames == Names \union {".."}

VARIABLES
  node,       \* type, nlink and entries of each inode
  cwd,
  call,       \* the call a process is in: inodes it holds, rest of the path
  lost,       \* files whose only entry was in a directory that was freed
  panicked

vars == <<node, cwd, call, lost, panicked>>

FreeInode == [type |-> "none", nlink |-> 0, ent |-> [n \in AllNames |-> 0]]
EmptyDir(parent) == [type |-> "dir", nlink |-> 1, ent |-> [n \in AllNames |-> IF n = ".." THEN parent ELSE 0]]
NewFile == [FreeInode EXCEPT !.type = "file", !.nlink = 1]
Idle == [pc |-> "idle", op |-> "none", ip |-> 0, dp |-> 0, path |-> << >>]

Paths == UNION {[1..k -> Names \union Dots] : k \in 0..2}

Init ==
  /\ node = [i \in Inums |-> IF i = ROOTINO THEN EmptyDir(ROOTINO) ELSE FreeInode]
  /\ cwd = [p \in Procs |-> ROOTINO]
  /\ call = [p \in Procs |-> Idle]
  /\ lost = {}
  /\ panicked = 0

\* Held by a sys_unlink() that waits for the inode to remove.
Locked(i) == \E p \in Procs : call[p].pc = "unlink" /\ call[p].dp = i

\* Pointers to inode i of working directories w and calls c.
Refs(w, c, i) ==
  Cardinality({p \in Procs : w[p] = i}) + Cardinality({p \in Procs : c[p].ip = i})
  + Cardinality({p \in Procs : c[p].dp = i})

Frees(n, w, c, i) == n[i].nlink = 0 /\ Refs(w, c, i) = 0

\* The call goes on in c, and the inodes of S have been iput().
Release(n, w, c, S) ==
  LET F == {i \in S : n[i].type # "none" /\ Frees(n, w, c, i)}
  IN /\ node' = [i \in Inums |-> IF i \in F THEN FreeInode ELSE n[i]]
     /\ lost' = (lost \union {n[i].ent[k] : i \in F, k \in Names}) \ ({0} \union F)
     /\ cwd' = w
     /\ call' = c

Return(p) == [call EXCEPT ![p] = Idle]

\* ilock() of an inode without a type panics.
ilock(i) == panicked = 0 /\ ~Locked(i)
Lost(i) == node[i].type = "none"
Panic == panicked' = 1 /\ UNCHANGED <<node, cwd, call, lost>>

Start(p, op, path, absolute) ==
  /\ panicked = 0 /\ call[p].pc = "idle"
  /\ call' = [call EXCEPT ![p] = [Idle EXCEPT !.pc = "namex", !.op = op, !.path = path,
                                              !.ip = IF absolute THEN ROOTINO ELSE cwd[p]]]
  /\ UNCHANGED <<node, cwd, lost, panicked>>

IsParentOp(p) == call[p].op # "chdir"

\* One turn of the loop of namex().
namex(p) ==
  LET c == call[p]
      next == node[c.ip].ent[Head(c.path)]
  IN /\ c.pc = "namex" /\ c.path # << >> /\ ilock(c.ip)
     /\ \/ Lost(c.ip) /\ Panic
        \/ /\ node[c.ip].type = "file"
           /\ Release(node, cwd, Return(p), {c.ip}) /\ UNCHANGED panicked
        \/ /\ node[c.ip].type = "dir" /\ IsParentOp(p) /\ Len(c.path) = 1
           /\ call' = [call EXCEPT ![p].pc = "parent"]
           /\ UNCHANGED <<node, cwd, lost, panicked>>
        \/ /\ node[c.ip].type = "dir" /\ ~(IsParentOp(p) /\ Len(c.path) = 1)
           /\ Release(node, cwd, IF next = 0 THEN Return(p)
                                 ELSE [call EXCEPT ![p].ip = next, ![p].path = Tail(@)], {c.ip})
           /\ UNCHANGED panicked

\* nameiparent() of a path without a last element fails.
nameiparent_fails(p) ==
  /\ panicked = 0 /\ call[p].pc = "namex" /\ call[p].path = << >> /\ IsParentOp(p)
  /\ Release(node, cwd, Return(p), {call[p].ip})
  /\ UNCHANGED panicked

sys_chdir(p) ==
  LET ip == call[p].ip
  IN /\ call[p].pc = "namex" /\ call[p].path = << >> /\ ~IsParentOp(p) /\ ilock(ip)
     /\ \/ Lost(ip) /\ Panic
        \/ /\ node[ip].type = "file"
           /\ Release(node, cwd, Return(p), {ip}) /\ UNCHANGED panicked
        \/ /\ node[ip].type = "dir"
           /\ Release(node, [cwd EXCEPT ![p] = ip], Return(p), {cwd[p]}) /\ UNCHANGED panicked

\* ialloc(): the lowest free inode
Ialloc == LET F == {i \in Inums : node[i].type = "none"} IN IF F = {} THEN 0 ELSE Min(F)

\* create() of a name that exists goes on to lock it.
create_exists(p) ==
  LET c == call[p]
      found == node[c.ip].ent[Head(c.path)]
  IN /\ c.pc = "parent" /\ c.op \in {"mkdir", "create"} /\ ilock(c.ip) /\ found # 0
     /\ Release(node, cwd, [call EXCEPT ![p].pc = "exists", ![p].ip = found], {c.ip})
     /\ UNCHANGED panicked

\* The new inode and its entry; a directory also counts in its parent.
Created(n, dp, name, i, type) ==
  [n EXCEPT ![i] = IF type = "mkdir" THEN EmptyDir(dp) ELSE NewFile,
            ![dp].ent[name] = i,
            ![dp].nlink = IF type = "mkdir" THEN @ + 1 ELSE @]

\* create() of a new name: ialloc() or a dirlink() may fail.
create(p) ==
  LET c == call[p]
      i == Ialloc
  IN /\ c.pc = "parent" /\ c.op \in {"mkdir", "create"} /\ ilock(c.ip)
     /\ node[c.ip].ent[Head(c.path)] = 0
     /\ \/ Release(node, cwd, Return(p), {c.ip})
        \/ /\ i # 0
           /\ Release(Created(node, c.ip, Head(c.path), i, c.op), cwd, Return(p), {c.ip})
     /\ UNCHANGED panicked

create_exists_ilock(p) ==
  LET ip == call[p].ip
  IN /\ call[p].pc = "exists" /\ ilock(ip)
     /\ \/ Lost(ip) /\ Panic
        \/ ~Lost(ip) /\ Release(node, cwd, Return(p), {ip}) /\ UNCHANGED panicked

\* sys_unlink(): under the lock of the directory, which it keeps
sys_unlink(p) ==
  LET c == call[p]
      found == node[c.ip].ent[Head(c.path)]
  IN /\ c.pc = "parent" /\ c.op = "unlink" /\ ilock(c.ip)
     /\ IF Head(c.path) = ".." \/ found = 0
        THEN Release(node, cwd, Return(p), {c.ip})
        ELSE Release(node, cwd, [call EXCEPT ![p].pc = "unlink", ![p].dp = c.ip, ![p].ip = found], {})
     /\ UNCHANGED panicked

isdirempty(i) == \A n \in Names : node[i].ent[n] = 0

Unlinked_KeepCount(n, dp, name, ip) == [n EXCEPT ![dp].ent[name] = 0, ![ip].nlink = @ - 1]

Unlinked(n, dp, name, ip) ==
  [n EXCEPT ![dp].ent[name] = 0,
            ![dp].nlink = IF n[ip].type = "dir" THEN @ - 1 ELSE @,
            ![ip].nlink = @ - 1]

\* sys_unlink(): the inode is locked as well
sys_unlink_ip(p) ==
  LET c == call[p]
  IN /\ c.pc = "unlink" /\ ilock(c.ip)
     /\ \/ (Lost(c.ip) \/ node[c.ip].nlink < 1) /\ Panic
        \/ /\ ~Lost(c.ip) /\ node[c.ip].nlink >= 1
           /\ Release(IF node[c.ip].type = "dir" /\ ~isdirempty(c.ip) THEN node
                      ELSE Unlinked(node, c.dp, Head(c.path), c.ip),
                      cwd, Return(p), {c.dp, c.ip})
           /\ UNCHANGED panicked

Next ==
  \E p \in Procs :
    \/ \E op \in {"mkdir", "create", "unlink", "chdir"}, path \in Paths, absolute \in BOOLEAN :
         Start(p, op, path, absolute)
    \/ namex(p)
    \/ nameiparent_fails(p)
    \/ sys_chdir(p)
    \/ create_exists(p)
    \/ create(p)
    \/ create_exists_ilock(p)
    \/ sys_unlink(p)
    \/ sys_unlink_ip(p)

Spec == Init /\ [][Next]_vars
-----------------------------------------------------------------------------
Entries(i) == {e \in Inums \X Names : node[e[1]].ent[e[2]] = i}
Subdirs(i) == {n \in Names : node[i].ent[n] # 0 /\ node[node[i].ent[n]].type = "dir"}

\* Walks, mkdir and rmdir of several processes: every entry leads to an inode in
\* use, a directory is in one place only and ".." leads back to it, link counts are
\* the number of entries plus that of sub-directories, an inode in use by a call or
\* as working directory is not freed, and no assertion fails.  The exception is a
\* file made in a directory that was removed meanwhile: freeing the directory
\* loses it.
TreeSound ==
  /\ panicked = 0
  /\ \A i \in Inums :
       /\ node[i].type = "none" => Entries(i) = {} /\ Refs(cwd, call, i) = 0
       /\ node[i].type = "dir" =>
            /\ node[i].nlink = Cardinality(Entries(i)) + Cardinality(Subdirs(i))
                               + (IF i = ROOTINO THEN 1 ELSE 0)
            /\ \A e \in Entries(i) : node[i].ent[".."] = e[1]
       /\ node[i].type = "file" =>
            node[i].nlink = Cardinality(Entries(i)) + (IF i \in lost THEN 1 ELSE 0)

\* ilock() says of the inodes it is called for that they have a type.
IlockFindsType == panicked = 0
=============================================================================
