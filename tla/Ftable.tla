------------------------------- MODULE Ftable -------------------------------
(***************************************************************************)
(* The table of open files and the descriptors of processes: file.c, and   *)
(* open, dup, close, pipe, fork and exit as far as they handle files.  A   *)
(* step is a critical section of ftable.lock or of what a file refers to;  *)
(* descriptors and the fields of a file that nobody else has a pointer to  *)
(* go along with it.  There is one inode, and a few pipes.                 *)
(***************************************************************************)
EXTENDS Integers, Sequences, FiniteSets, FiniteSetsExt, SequencesExt

CONSTANTS Procs, First, NFILE, NOFILE, NPIPE

VARIABLES
  file,       \* ftable.file
  ofile,      \* process -> descriptor -> file, 0 if none
  alive,      \* processes that run
  call,       \* the call a process is in: where, files it has to close, ...
  iref,       \* references to the inode
  pipe,       \* pipe -> is its page allocated, are its ends open
  panicked

vars == <<file, ofile, alive, call, iref, pipe, panicked>>

Fds == 1..NOFILE
NoObj == [type |-> "FD_NONE", pipe |-> 0, writable |-> 0]
TheInode == [type |-> "FD_INODE", pipe |-> 0, writable |-> 0]
End(k, w) == [type |-> "FD_PIPE", pipe |-> k, writable |-> w]

\* close: files to fileclose(); ff: its copy of a file that has lost its last
\* pointer; put: iunlockput() is still to come; f: files of pipealloc(); fd:
\* descriptor of the turn in a loop; child: of fork
Idle == [pc |-> "idle", close |-> << >>, ff |-> NoObj, put |-> 0, f |-> << >>, fd |-> 0, child |-> First]

Init ==
  /\ file = [f \in 1..NFILE |-> [ref |-> 0, obj |-> NoObj]]
  /\ ofile = [p \in Procs |-> [fd \in Fds |-> 0]]
  /\ alive = {First}
  /\ call = [p \in Procs |-> Idle]
  /\ iref = 0
  /\ pipe = [k \in 1..NPIPE |-> [page |-> 0, readopen |-> 0, writeopen |-> 0]]
  /\ panicked = 0

At(p, l) == panicked = 0 /\ p \in alive /\ call[p].pc = l

\* The first free file, 0 when the table is full.
FreeFile == LET F == {f \in 1..NFILE : file[f].ref = 0} IN IF F = {} THEN 0 ELSE Min(F)

\* fdalloc(): the lowest free descriptor, 0 when there is none
FreeFd(of) == LET D == {fd \in Fds : of[fd] = 0} IN IF D = {} THEN 0 ELSE Min(D)

\* sys_open(): the inode is there; filealloc() and fdalloc()
sys_open(p) ==
  LET f == FreeFile
      fd == FreeFd(ofile[p])
  IN /\ At(p, "idle")
     /\ \/ /\ f = 0
           /\ UNCHANGED <<file, ofile, call, iref>>
        \/ /\ f # 0 /\ fd = 0
           /\ file' = [file EXCEPT ![f].ref = 1]
           /\ iref' = iref + 1
           /\ call' = [call EXCEPT ![p] = [Idle EXCEPT !.pc = "close", !.close = <<f>>, !.put = 1]]
           /\ UNCHANGED ofile
        \/ /\ f # 0 /\ fd # 0
           /\ file' = [file EXCEPT ![f] = [ref |-> 1, obj |-> TheInode]]
           /\ iref' = iref + 1
           /\ ofile' = [ofile EXCEPT ![p][fd] = f]
           /\ UNCHANGED call
     /\ UNCHANGED <<alive, pipe, panicked>>

\* sys_dup(): first the descriptor, then filedup()
sys_dup(p, fd) ==
  LET new == FreeFd(ofile[p])
  IN /\ At(p, "idle") /\ ofile[p][fd] # 0 /\ new # 0
     /\ ofile' = [ofile EXCEPT ![p][new] = ofile[p][fd]]
     /\ call' = [call EXCEPT ![p] = [Idle EXCEPT !.pc = "dup", !.fd = new]]
     /\ UNCHANGED <<file, alive, iref, pipe, panicked>>

filedup(f) ==
  /\ panicked' = IF file[f].ref < 1 THEN 1 ELSE 0
  /\ file' = [file EXCEPT ![f].ref = @ + 1]

sys_dup_ref(p) ==
  /\ At(p, "dup")
  /\ filedup(ofile[p][call[p].fd])
  /\ call' = [call EXCEPT ![p] = Idle]
  /\ UNCHANGED <<ofile, alive, iref, pipe>>

sys_close(p, fd) ==
  /\ At(p, "idle") /\ ofile[p][fd] # 0
  /\ ofile' = [ofile EXCEPT ![p][fd] = 0]
  /\ call' = [call EXCEPT ![p] = [Idle EXCEPT !.pc = "close", !.close = <<ofile[p][fd]>>]]
  /\ UNCHANGED <<file, alive, iref, pipe, panicked>>

\* --f->ref is not > 0
LastRef(f) == file[f].ref = 1

\* The critical section of fileclose(), for the first of the files to close.
fileclose(p) ==
  LET c == call[p]
      f == Head(c.close)
  IN /\ At(p, c.pc) /\ c.close # << >> /\ c.ff = NoObj
     /\ panicked' = IF file[f].ref < 1 THEN 1 ELSE 0
     /\ IF LastRef(f)
        THEN /\ file' = [file EXCEPT ![f] = [ref |-> 0, obj |-> NoObj]]
             /\ call' = [call EXCEPT ![p].close = Tail(@), ![p].ff = file[f].obj]
        ELSE /\ file' = [file EXCEPT ![f].ref = @ - 1]
             /\ call' = [call EXCEPT ![p].close = Tail(@)]
     /\ UNCHANGED <<ofile, alive, iref, pipe>>

\* The rest of fileclose(): pipeclose(), or iput().
fileclose_obj(p) ==
  LET ff == call[p].ff
      a == IF ff.writable = 1 THEN [pipe[ff.pipe] EXCEPT !.writeopen = 0]
                              ELSE [pipe[ff.pipe] EXCEPT !.readopen = 0]
  IN /\ At(p, call[p].pc) /\ ff # NoObj
     /\ IF ff.type = "FD_PIPE"
        THEN /\ pipe' = [pipe EXCEPT ![ff.pipe] =
                           IF a.readopen = 0 /\ a.writeopen = 0 THEN [a EXCEPT !.page = @ - 1] ELSE a]
             /\ UNCHANGED iref
        ELSE /\ iref' = iref - 1
             /\ UNCHANGED pipe
     /\ call' = [call EXCEPT ![p].ff = NoObj]
     /\ UNCHANGED <<file, ofile, alive, panicked>>

AllClosed(p) == call[p].close = << >> /\ call[p].ff = NoObj

\* Back to the user, after the iunlockput() of a failed open.
Return(p) ==
  /\ At(p, "close") /\ AllClosed(p)
  /\ iref' = iref - call[p].put
  /\ call' = [call EXCEPT ![p] = Idle]
  /\ UNCHANGED <<file, ofile, alive, pipe, panicked>>

\* pipealloc(): filealloc() twice; when it fails, what there is gets closed
pipealloc_file(p) ==
  LET f == FreeFile
  IN /\ \/ At(p, "idle")
        \/ At(p, "pipe") /\ Len(call[p].f) < 2
     /\ IF f = 0
        THEN /\ call' = [call EXCEPT ![p] = [Idle EXCEPT !.pc = "close", !.close = call[p].f]]
             /\ UNCHANGED file
        ELSE /\ call' = [call EXCEPT ![p].pc = "pipe", ![p].f = Append(@, f)]
             /\ file' = [file EXCEPT ![f].ref = 1]
     /\ UNCHANGED <<ofile, alive, iref, pipe, panicked>>

\* pipealloc(): kalloc() fails
pipealloc_nomem(p) ==
  /\ At(p, "pipe") /\ Len(call[p].f) = 2
  /\ call' = [call EXCEPT ![p] = [Idle EXCEPT !.pc = "close", !.close = call[p].f]]
  /\ UNCHANGED <<file, ofile, alive, iref, pipe, panicked>>

PipeFdsUndo_Leave(of, fd0) == of

\* p->ofile[fd0] = 0 where the second fdalloc() has failed
PipeFdsUndo(of, fd0) == IF fd0 = 0 THEN of ELSE [of EXCEPT ![fd0] = 0]

\* The rest of pipealloc() and of sys_pipe(): the pipe, fdalloc() twice, and the
\* copyout()s, one of which may fail.
sys_pipe(p) ==
  LET f == call[p].f
      fd0 == FreeFd(ofile[p])
      of0 == IF fd0 = 0 THEN ofile[p] ELSE [ofile[p] EXCEPT ![fd0] = f[1]]
      fd1 == IF fd0 = 0 THEN 0 ELSE FreeFd(of0)
      fails == [Idle EXCEPT !.pc = "close", !.close = f]
  IN /\ At(p, "pipe") /\ Len(f) = 2
     /\ \E k \in {j \in 1..NPIPE : pipe[j].page = 0} :
          /\ pipe' = [pipe EXCEPT ![k] = [page |-> 1, readopen |-> 1, writeopen |-> 1]]
          /\ file' = [file EXCEPT ![f[1]].obj = End(k, 0), ![f[2]].obj = End(k, 1)]
     /\ \/ /\ fd1 = 0
           /\ ofile' = [ofile EXCEPT ![p] = PipeFdsUndo(of0, fd0)]
           /\ call' = [call EXCEPT ![p] = fails]
        \/ /\ fd1 # 0
           /\ ofile' = [ofile EXCEPT ![p] = [of0 EXCEPT ![fd1] = f[2]]]
           /\ call' = [call EXCEPT ![p] = Idle]
        \/ /\ fd1 # 0
           /\ call' = [call EXCEPT ![p] = fails]
           /\ UNCHANGED ofile
     /\ UNCHANGED <<alive, iref, panicked>>

\* kfork(): the loop over the descriptors, and the child is let go after it
kfork(p, np) ==
  /\ At(p, "idle") /\ np \notin alive
  /\ \A q \in alive : call[q].pc = "fork" => call[q].child # np
  /\ call' = [call EXCEPT ![p] = [Idle EXCEPT !.pc = "fork", !.fd = 1, !.child = np]]
  /\ UNCHANGED <<file, ofile, alive, iref, pipe, panicked>>

kfork_dup(p) ==
  LET c == call[p]
      f == ofile[p][c.fd]
  IN /\ At(p, "fork") /\ c.fd <= NOFILE
     /\ IF f = 0 THEN UNCHANGED <<file, ofile, panicked>>
        ELSE filedup(f) /\ ofile' = [ofile EXCEPT ![c.child][c.fd] = f]
     /\ call' = [call EXCEPT ![p].fd = @ + 1]
     /\ UNCHANGED <<alive, iref, pipe>>

kfork_end(p) ==
  /\ At(p, "fork") /\ call[p].fd > NOFILE
  /\ alive' = alive \union {call[p].child}
  /\ call' = [call EXCEPT ![p] = Idle]
  /\ UNCHANGED <<file, ofile, iref, pipe, panicked>>

\* kexit(): the loop over the descriptors; an entry is cleared after fileclose()
kexit(p) ==
  /\ At(p, "idle") /\ p # First
  /\ call' = [call EXCEPT ![p] = [Idle EXCEPT !.pc = "exit"]]
  /\ UNCHANGED <<file, ofile, alive, iref, pipe, panicked>>

kexit_close(p) ==
  LET fd == call[p].fd
      rest == IF fd = 0 THEN ofile[p] ELSE [ofile[p] EXCEPT ![fd] = 0]
      D == {d \in Fds : rest[d] # 0}
  IN /\ At(p, "exit") /\ AllClosed(p)
     /\ ofile' = [ofile EXCEPT ![p] = rest]
     /\ IF D = {}
        THEN /\ alive' = alive \ {p}
             /\ call' = [call EXCEPT ![p] = Idle]
        ELSE /\ call' = [call EXCEPT ![p].fd = Min(D), ![p].close = <<rest[Min(D)]>>]
             /\ UNCHANGED alive
     /\ UNCHANGED <<file, iref, pipe, panicked>>

Next ==
  \E p \in Procs :
    \/ sys_open(p)
    \/ \E fd \in Fds : sys_dup(p, fd) \/ sys_close(p, fd)
    \/ sys_dup_ref(p)
    \/ fileclose(p)
    \/ fileclose_obj(p)
    \/ Return(p)
    \/ pipealloc_file(p)
    \/ pipealloc_nomem(p)
    \/ sys_pipe(p)
    \/ \E np \in Procs \ {p} : kfork(p, np)
    \/ kfork_dup(p)
    \/ kfork_end(p)
    \/ kexit(p)
    \/ kexit_close(p)

Spec == Init /\ [][Next]_vars
-----------------------------------------------------------------------------
\* Descriptors that count: not the new one of a dup() before filedup(), and not
\* the one that kexit() is at.
Counted(p) == IF call[p].pc \in {"dup", "exit"} THEN Fds \ {call[p].fd} ELSE Fds

Times(f, s) == Cardinality({i \in DOMAIN s : s[i] = f})

\* Pointers to f: descriptors, files to close, files of an unfinished pipe().
Pointers(f) ==
  LET of(p) == Cardinality({fd \in Counted(p) : ofile[p][fd] = f})
  IN FoldFunction(LAMBDA a, b : a + b, 0,
       [p \in Procs |-> of(p) + Times(f, call[p].close) + Times(f, call[p].f)])

\* Objects that files in use, or closes under way, still refer to.
InUse(obj) ==
  Cardinality({f \in 1..NFILE : file[f].ref > 0 /\ file[f].obj = obj})
  + Cardinality({p \in Procs : call[p].ff = obj})

\* However closes, dups, forks and exits of several processes interleave and
\* wherever open() and pipe() fail: a file counts its pointers, and an end of a
\* pipe or a reference to an inode is closed once, by whoever held it last.
FilesCounted ==
  /\ panicked = 0
  /\ \A f \in 1..NFILE : file[f].ref = Pointers(f) /\ (file[f].ref = 0 => file[f].obj = NoObj)
  /\ iref = InUse(TheInode) + Cardinality({p \in Procs : call[p].put = 1})
  /\ \A k \in 1..NPIPE :
       /\ pipe[k].readopen = InUse(End(k, 0)) /\ pipe[k].writeopen = InUse(End(k, 1))
       /\ pipe[k].page = IF pipe[k].readopen + pipe[k].writeopen > 0 THEN 1 ELSE 0
=============================================================================
