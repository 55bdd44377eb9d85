-------------------------------- MODULE Shell --------------------------------
(***************************************************************************)
(* The shell at work, user/sh.c, with init and the programs it starts.     *)
(* A step is a system call, or a few that only close descriptors.  Pipes   *)
(* and files are what the kernel makes of them (modules Pipe and Ftable):  *)
(* a pipe has end of file when nobody has its write end, and a write fails *)
(* when nobody has its read end.                                           *)
(***************************************************************************)
EXTENDS ShParse, FiniteSets, FiniteSetsExt

CONSTANTS
  NPROC,        \* processes beside init; 1 is the shell
  NPIPE,
  PIPESIZE,     \* units a pipe holds
  Lines,        \* what is typed: lines of characters
  MaxLeft       \* bound: nothing is typed while more orphans than this are left

Sh == 1
Init0 == 0      \* init
Procs == 1..NPROC
NOFILE == 6
Fds == 0..NOFILE - 1

VARIABLES
  proc,       \* state, parent, where it is, command or program, descriptors
  pipe        \* units in each pipe

vars == <<proc, pipe>>

None == [k |-> "none", id |-> 0]
Con == [k |-> "console", id |-> 0]
File == [k |-> "file", id |-> 0]
ReadEnd(i) == [k |-> "read", id |-> i]
WriteEnd(i) == [k |-> "write", id |-> i]

Unused == [st |-> "unused", parent |-> Init0, pc |-> "", cmd |-> Panic, n |-> 0,
           fd |-> [f \in Fds |-> None], line |-> Panic]

\* init has the console open as 0, 1 and 2; main() of the shell opens it once more
\* and closes that.
Started == [Unused EXCEPT !.st = "run", !.pc = "getcmd",
                          !.fd = [f \in Fds |-> IF f <= 2 THEN Con ELSE None]]

Init ==
  /\ proc = [p \in Procs |-> IF p = Sh THEN Started ELSE Unused]
  /\ pipe = [i \in 1..NPIPE |-> 0]

\* Who has this end of a pipe open.
Open(end) == {p \in Procs : \E f \in Fds : proc[p].fd[f] = end}

Closed(fd, S) == [f \in Fds |-> IF f \in S THEN None ELSE fd[f]]

\* open(), dup() and pipe() take the lowest descriptor.
Lowest(fd) == Min({f \in Fds : fd[f] = None})
Opened(fd, o) == [fd EXCEPT ![Lowest(fd)] = o]

Goto(p, pc) == [proc EXCEPT ![p].pc = pc]

\* exit(): everything is closed, children go to init, which waits for them.
Exit(p) ==
  /\ proc' = [q \in Procs |->
       IF q = p THEN (IF proc[p].parent = Init0 /\ p # Sh THEN Unused
                      ELSE [Unused EXCEPT !.st = "zombie", !.parent = proc[p].parent])
       ELSE IF proc[q].st # "unused" /\ proc[q].parent = p
       THEN (IF proc[q].st = "zombie" THEN Unused ELSE [proc[q] EXCEPT !.parent = Init0])
       ELSE proc[q]]
  /\ UNCHANGED pipe

At(p, pc) == proc[p].st = "run" /\ proc[p].pc = pc

\* fork1(): the child gets on at childpc with its part of the command, the parent
\* at pc.  It may fail for want of memory as of a process; panic() then ends the
\* caller.
fork1(p, pc, childpc, childcmd) ==
  LET unused == {q \in Procs : proc[q].st = "unused"}
  IN \/ Exit(p)
     \/ /\ unused # {}
        /\ proc' = [proc EXCEPT ![p].pc = pc,
                                ![Min(unused)] = [proc[p] EXCEPT !.parent = p, !.pc = childpc, !.cmd = childcmd]]
        /\ UNCHANGED pipe

\* wait(0), after which p is at pc with command cmd
wait(p, pc, cmd) ==
  \E q \in Procs :
    /\ proc[q].st = "zombie" /\ proc[q].parent = p
    /\ proc' = [proc EXCEPT ![q] = Unused, ![p].pc = pc, ![p].cmd = cmd]
    /\ UNCHANGED pipe
-----------------------------------------------------------------------------
\* getcmd() and the loop of main(): the end of input, a blank line or cd, or a
\* command for a child.
getcmd ==
  /\ At(Sh, "getcmd")
  /\ \/ Exit(Sh)
     \/ UNCHANGED vars
     \/ /\ Cardinality({p \in Procs : proc[p].st # "unused"}) <= MaxLeft + 1
        /\ \E l \in Lines : proc' = [proc EXCEPT ![Sh].pc = "fork", ![Sh].line = parsecmd(l)]
        /\ UNCHANGED pipe

main_fork == At(Sh, "fork") /\ fork1(Sh, "wait", "parsecmd", Panic)

main_wait ==
  /\ At(Sh, "wait")
  /\ \E q \in Procs :
       /\ proc[q].st = "zombie" /\ proc[q].parent = Sh
       /\ proc' = [proc EXCEPT ![q] = Unused, ![Sh].pc = "getcmd", ![Sh].line = Panic]
  /\ UNCHANGED pipe

\* for(;;) of init
init == proc[Sh].st = "zombie" /\ proc' = [proc EXCEPT ![Sh] = Started] /\ UNCHANGED pipe

\* The child parses; panic() ends it.
main_parsecmd(p) ==
  /\ At(p, "parsecmd")
  /\ \/ proc[p].line = Panic /\ Exit(p)
     \/ proc[p].line # Panic /\ proc' = [Goto(p, "runcmd") EXCEPT ![p].cmd = proc[p].line] /\ UNCHANGED pipe

Running(p, type) == At(p, "runcmd") /\ proc[p].cmd.type = type

\* exec() fails, or the program begins.
runcmd_EXEC(p) ==
  /\ Running(p, "EXEC")
  /\ \/ Exit(p)
     \/ /\ proc[p].cmd.argv # << >>
        /\ proc' = [Goto(p, "program") EXCEPT ![p].n = IF proc[p].cmd.argv[1] = <<"e">> THEN 2 ELSE 0]
        /\ UNCHANGED pipe

runcmd_REDIR(p) ==
  /\ Running(p, "REDIR")
  /\ \/ Exit(p)
     \/ /\ proc' = [proc EXCEPT ![p].cmd = @.cmd,
                                ![p].fd = Opened(Closed(@, {proc[p].cmd.fd}), File)]
        /\ UNCHANGED pipe

runcmd_LIST(p) == Running(p, "LIST") /\ fork1(p, "list_wait", "runcmd", proc[p].cmd.left)
runcmd_LIST_wait(p) == At(p, "list_wait") /\ wait(p, "runcmd", proc[p].cmd.right)

\* pipe(p), which may fail
runcmd_PIPE(p) ==
  LET i == Min({j \in 1..NPIPE : Open(ReadEnd(j)) \union Open(WriteEnd(j)) = {}})
  IN /\ Running(p, "PIPE")
     /\ \/ Exit(p)
        \/ /\ \E j \in 1..NPIPE : Open(ReadEnd(j)) \union Open(WriteEnd(j)) = {}
           /\ proc' = [Goto(p, "pipe_left") EXCEPT ![p].fd = Opened(Opened(@, ReadEnd(i)), WriteEnd(i))]
           /\ pipe' = [pipe EXCEPT ![i] = 0]

\* The descriptors p[0] and p[1] are the last two.
P0(fd) == Max({f \in Fds : fd[f].k = "read"})
P1(fd) == Max({f \in Fds : fd[f].k = "write"})

runcmd_PIPE_left(p) == At(p, "pipe_left") /\ fork1(p, "pipe_right", "left", proc[p].cmd.left)
runcmd_PIPE_right(p) == At(p, "pipe_right") /\ fork1(p, "pipe_close", "right", proc[p].cmd.right)

\* close(1); dup(p[1]); close(p[0]); close(p[1]) and the same of the right child
PipeChild(p) ==
  LET fd == proc[p].fd
      ends == {P0(fd), P1(fd)}
  IN /\ \/ /\ At(p, "left")
           /\ proc' = [Goto(p, "runcmd") EXCEPT ![p].fd = Closed(Opened(Closed(fd, {1}), fd[P1(fd)]), ends)]
        \/ /\ At(p, "right")
           /\ proc' = [Goto(p, "runcmd") EXCEPT ![p].fd = Closed(Opened(Closed(fd, {0}), fd[P0(fd)]), ends)]
     /\ UNCHANGED pipe

ParentEnds_KeepWrite(fd) == {P0(fd)}

\* close(p[0]); close(p[1])
ParentEnds(fd) == {P0(fd), P1(fd)}

runcmd_PIPE_close(p) ==
  /\ At(p, "pipe_close")
  /\ proc' = [Goto(p, "pipe_wait") EXCEPT ![p].fd = Closed(@, ParentEnds(@))]
  /\ UNCHANGED pipe

runcmd_PIPE_wait(p) ==
  \/ At(p, "pipe_wait") /\ wait(p, "pipe_wait2", proc[p].cmd)
  \/ At(p, "pipe_wait2") /\ wait(p, "exit", proc[p].cmd)

runcmd_BACK(p) == Running(p, "BACK") /\ fork1(p, "exit", "runcmd", proc[p].cmd.cmd)

runcmd_exit(p) == At(p, "exit") /\ Exit(p)
-----------------------------------------------------------------------------
\* The programs: e writes two units (echo), c copies until its input ends or its
\* output fails (cat), every other neither reads nor writes.  n is what is still
\* to be written.
Program(p, name) == At(p, "program") /\ proc[p].cmd.argv[1] = name
Out(p) == proc[p].fd[1]
In(p) == proc[p].fd[0]

\* write() of a unit does not fail
program_write(p) ==
  /\ At(p, "program") /\ proc[p].n > 0
  /\ \/ Out(p).k # "write" /\ UNCHANGED pipe
     \/ /\ Out(p).k = "write" /\ Open(ReadEnd(Out(p).id)) # {} /\ pipe[Out(p).id] < PIPESIZE
        /\ pipe' = [pipe EXCEPT ![Out(p).id] = @ + 1]
  /\ proc' = [proc EXCEPT ![p].n = @ - 1]

\* write() fails: cat ends, echo takes no notice
program_write_fails(p) ==
  /\ At(p, "program") /\ proc[p].n > 0
  /\ Out(p).k = "write" /\ Open(ReadEnd(Out(p).id)) = {}
  /\ IF proc[p].cmd.argv[1] = <<"c">> THEN Exit(p)
     ELSE proc' = [proc EXCEPT ![p].n = @ - 1] /\ UNCHANGED pipe

\* read() of cat from a pipe
cat_read(p) ==
  /\ Program(p, <<"c">>) /\ proc[p].n = 0
  /\ In(p).k = "read" /\ pipe[In(p).id] > 0
  /\ pipe' = [pipe EXCEPT ![In(p).id] = @ - 1]
  /\ proc' = [proc EXCEPT ![p].n = 1]

program_exit(p) ==
  /\ At(p, "program") /\ proc[p].n = 0
  /\ proc[p].cmd.argv[1] = <<"c">> /\ In(p).k = "read"
       => pipe[In(p).id] = 0 /\ Open(WriteEnd(In(p).id)) = {}
  /\ Exit(p)

Step(p) ==
  \/ main_parsecmd(p) \/ runcmd_EXEC(p) \/ runcmd_REDIR(p)
  \/ runcmd_LIST(p) \/ runcmd_LIST_wait(p)
  \/ runcmd_PIPE(p) \/ runcmd_PIPE_left(p) \/ runcmd_PIPE_right(p)
  \/ PipeChild(p) \/ runcmd_PIPE_close(p) \/ runcmd_PIPE_wait(p)
  \/ runcmd_BACK(p) \/ runcmd_exit(p)
  \/ program_write(p) \/ program_write_fails(p) \/ cat_read(p) \/ program_exit(p)

ShStep == main_fork \/ main_wait \/ init

Next == getcmd \/ ShStep \/ \E p \in Procs : Step(p)

Spec == Init /\ [][Next]_vars

\* Every process that can run runs (module Sched); nobody need type anything.
Fairness == WF_vars(ShStep) /\ \A p \in Procs : WF_vars(Step(p))
-----------------------------------------------------------------------------
\* Reference for redirections: the programs of a command and what each has as 0
\* and 1, where a pipe is known by the place of its command in the line.  The
\* first of several redirections of one descriptor wins.
At0(k) == [k |-> k, at |-> << >>]
RECURSIVE Wiring(_, _, _, _)
Wiring(cmd, at, in, out) ==
  CASE cmd.type = "EXEC" -> IF cmd.argv = << >> THEN {} ELSE {[name |-> cmd.argv[1], in |-> in, out |-> out]}
    [] cmd.type = "REDIR" -> IF cmd.fd = 0 THEN Wiring(cmd.cmd, at, At0("file"), out)
                             ELSE Wiring(cmd.cmd, at, in, At0("file"))
    [] cmd.type = "PIPE" -> Wiring(cmd.left, Append(at, "l"), in, [k |-> "write", at |-> at])
                              \union Wiring(cmd.right, Append(at, "r"), [k |-> "read", at |-> at], out)
    [] cmd.type = "LIST" -> Wiring(cmd.left, Append(at, "l"), in, out)
                              \union Wiring(cmd.right, Append(at, "r"), in, out)
    [] cmd.type = "BACK" -> Wiring(cmd.cmd, at, in, out)

Programs == {p \in Procs : At(p, "program")}
Places(p) == Wiring(proc[p].line, << >>, At0("console"), At0("console"))

\* Every program starts with the descriptors 0, 1 and 2 and no other, and its input
\* and output are what its line says: the close() and open() or dup() of runcmd()
\* always meet the right descriptor, no end of a pipe leaks, and two programs share
\* a pipe where the line has it and nowhere else.
Plumbing ==
  /\ \A p \in Programs : {f \in Fds : proc[p].fd[f] # None} = 0..2 /\ proc[p].fd[2] = Con
  /\ \E w \in [Programs -> UNION {Places(p) : p \in Programs}] :
       /\ \A p \in Programs :
            /\ w[p] \in Places(p) /\ w[p].name = proc[p].cmd.argv[1]
            /\ w[p].in.k = In(p).k /\ w[p].out.k = Out(p).k
       /\ \A p, q \in Programs :
            Out(p).k = "write" /\ In(q).k = "read" => (Out(p).id = In(q).id <=> w[p].out.at = w[q].in.at)

\* The shell asks for the next line again and again: whatever fails, the pipelines
\* it waits for come to their end.
AtPrompt == At(Sh, "getcmd")
=============================================================================
