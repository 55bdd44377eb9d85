------------------------------ MODULE ShParse ------------------------------
(***************************************************************************)
(* The parser of the shell, user/sh.c.  The line is a sequence of          *)
(* characters that ends in NUL; positions in it stand for the pointers.    *)
(* Words are kept by their two ends until nulterminate() has ended them.   *)
(* A parser returns a command and the position behind it.                  *)
(***************************************************************************)
EXTENDS Integers, Sequences, SequencesExt

CONSTANT MAXARGS

NUL == "0"
whitespace == {" "}
symbols == {"<", "|", ">", "&", ";", "(", ")"}

execcmd(argv) == [type |-> "EXEC", argv |-> argv]
redircmd(subcmd, file, mode, fd) == [type |-> "REDIR", cmd |-> subcmd, file |-> file, mode |-> mode, fd |-> fd]
pipecmd(left, right) == [type |-> "PIPE", left |-> left, right |-> right]
listcmd(left, right) == [type |-> "LIST", left |-> left, right |-> right]
backcmd(subcmd) == [type |-> "BACK", cmd |-> subcmd]
Panic == [type |-> "PANIC"]

Parsed(cmd, s) == [ok |-> TRUE, cmd |-> cmd, s |-> s]
Panicked == [ok |-> FALSE]

\* Go on with F if the parser before it has not panicked.
Then(c, F(_)) == IF c.ok THEN F(c) ELSE c

RECURSIVE Skip(_, _)
Skip(l, s) == IF l[s] \in whitespace THEN Skip(l, s + 1) ELSE s

RECURSIVE WordEnd(_, _)
WordEnd(l, s) == IF l[s] \in whitespace \union symbols \union {NUL} THEN s ELSE WordEnd(l, s + 1)

Twice(l, q) == l[q] = ">" /\ l[q + 1] = ">"

TokenEnd(l, q) ==
  IF l[q] = NUL THEN q
  ELSE IF Twice(l, q) THEN q + 2
  ELSE IF l[q] \in symbols THEN q + 1
  ELSE WordEnd(l, q)

Token(l, q, eq) ==
  [ret |-> IF Twice(l, q) THEN "+" ELSE IF l[q] \in symbols \union {NUL} THEN l[q] ELSE "a",
   word |-> [q |-> q, eq |-> eq], s |-> Skip(l, eq)]

TokenAt(l, q) == Token(l, q, TokenEnd(l, q))

\* Kind of the token, its two ends, and the position behind it.
gettoken(l, ps) == TokenAt(l, Skip(l, ps))

peek(l, ps, toks) == l[Skip(l, ps)] \in toks

Mode == [t \in {"<", ">", "+"} |-> CASE t = "<" -> "read" [] t = ">" -> "trunc" [] t = "+" -> "append"]

\* The redirections from here on, added to rs; the first is the innermost.
RECURSIVE parseredirs(_, _, _)

RedirFile(rs, l, tok, file) ==
  IF file.ret # "a" THEN Panicked
  ELSE parseredirs(Append(rs, [file |-> file.word, mode |-> Mode[tok], fd |-> IF tok = "<" THEN 0 ELSE 1]), l, file.s)

Redir(rs, l, t) == RedirFile(rs, l, t.ret, gettoken(l, t.s))

parseredirs(rs, l, ps) ==
  IF peek(l, ps, {"<", ">"}) THEN Redir(rs, l, gettoken(l, ps)) ELSE [ok |-> TRUE, rs |-> rs, s |-> ps]

Redirected(cmd, rs) == FoldLeft(LAMBDA c, r : redircmd(c, r.file, r.mode, r.fd), cmd, rs)

\* The loop of parseexec() over words and redirections; gettoken() returns 0 at NUL.
RECURSIVE Args(_, _, _, _)

Arg(argv, rs, l, t) ==
  IF t.ret # "a" \/ Len(argv) + 1 >= MAXARGS THEN Panicked
  ELSE Then(parseredirs(rs, l, t.s), LAMBDA r : Args(Append(argv, t.word), r.rs, l, r.s))

Args(argv, rs, l, ps) ==
  IF peek(l, ps, {"|", ")", "&", ";", NUL}) THEN Parsed(Redirected(execcmd(argv), rs), ps)
  ELSE Arg(argv, rs, l, gettoken(l, ps))

RECURSIVE parseline(_, _)

parseblock(l, ps) ==
  Then(parseline(l, gettoken(l, ps).s),
       LAMBDA c : IF ~peek(l, c.s, {")"}) THEN Panicked
                  ELSE Then(parseredirs(<< >>, l, gettoken(l, c.s).s),
                            LAMBDA r : Parsed(Redirected(c.cmd, r.rs), r.s)))

parseexec(l, ps) ==
  IF peek(l, ps, {"("}) THEN parseblock(l, ps)
  ELSE Then(parseredirs(<< >>, l, ps), LAMBDA r : Args(<< >>, r.rs, l, r.s))

RECURSIVE parsepipe(_, _)
parsepipe(l, ps) ==
  Then(parseexec(l, ps),
       LAMBDA left : IF ~peek(l, left.s, {"|"}) THEN left
                     ELSE Then(parsepipe(l, gettoken(l, left.s).s),
                               LAMBDA right : Parsed(pipecmd(left.cmd, right.cmd), right.s)))

RECURSIVE Backs(_, _)
Backs(l, c) == IF peek(l, c.s, {"&"}) THEN Backs(l, Parsed(backcmd(c.cmd), gettoken(l, c.s).s)) ELSE c

List(l, left) ==
  IF ~peek(l, left.s, {";"}) THEN left
  ELSE Then(parseline(l, gettoken(l, left.s).s), LAMBDA right : Parsed(listcmd(left.cmd, right.cmd), right.s))

parseline(l, ps) == Then(parsepipe(l, ps), LAMBDA c : List(l, Backs(l, c)))

\* The line with a NUL behind every word of cmd.
RECURSIVE nulterminate(_, _)
nulterminate(cmd, l) ==
  CASE cmd.type = "EXEC" -> [i \in DOMAIN l |-> IF \E k \in DOMAIN cmd.argv : cmd.argv[k].eq = i THEN NUL ELSE l[i]]
    [] cmd.type = "REDIR" -> [nulterminate(cmd.cmd, l) EXCEPT ![cmd.file.eq] = NUL]
    [] cmd.type \in {"PIPE", "LIST"} -> nulterminate(cmd.right, nulterminate(cmd.left, l))
    [] cmd.type = "BACK" -> nulterminate(cmd.cmd, l)

\* The string that begins at w.q, as runcmd() passes it to exec() and open().
RECURSIVE StringAt(_, _)
StringAt(l, q) == IF l[q] = NUL THEN << >> ELSE <<l[q]>> \o StringAt(l, q + 1)

RECURSIVE Strings(_, _)
Strings(cmd, l) ==
  CASE cmd.type = "EXEC" -> execcmd([k \in DOMAIN cmd.argv |-> StringAt(l, cmd.argv[k].q)])
    [] cmd.type = "REDIR" -> redircmd(Strings(cmd.cmd, l), StringAt(l, cmd.file.q), cmd.mode, cmd.fd)
    [] cmd.type = "PIPE" -> pipecmd(Strings(cmd.left, l), Strings(cmd.right, l))
    [] cmd.type = "LIST" -> listcmd(Strings(cmd.left, l), Strings(cmd.right, l))
    [] cmd.type = "BACK" -> backcmd(Strings(cmd.cmd, l))

\* What is left of the line must be white space.
Finished(l, c) == IF c.ok /\ Skip(l, c.s) = Len(l) THEN Strings(c.cmd, nulterminate(c.cmd, l)) ELSE Panic

Parse(l) == Finished(l, parseline(l, 1))

parsecmd(line) == Parse(Append(line, NUL))
-----------------------------------------------------------------------------
\* A reference: how a command is written, with sp between the tokens.
Words(ws, sp) == FoldLeft(LAMBDA s, w : s \o w \o <<" ">> \o sp, << >>, ws)
Sign(mode) == IF mode = "read" THEN <<"<">> ELSE IF mode = "trunc" THEN <<">">> ELSE <<">", ">">>

RECURSIVE WrittenLine(_, _)

RECURSIVE WrittenExec(_, _)
WrittenExec(cmd, sp) ==
  CASE cmd.type = "EXEC" -> Words(cmd.argv, sp)
    [] cmd.type = "REDIR" -> WrittenExec(cmd.cmd, sp) \o Sign(cmd.mode) \o sp \o cmd.file \o sp
    [] OTHER -> <<"(">> \o sp \o WrittenLine(cmd, sp) \o <<")">> \o sp

RECURSIVE WrittenPipe(_, _)
WrittenPipe(cmd, sp) ==
  IF cmd.type = "PIPE" THEN WrittenExec(cmd.left, sp) \o <<"|">> \o sp \o WrittenPipe(cmd.right, sp)
  ELSE WrittenExec(cmd, sp)

RECURSIVE WrittenBack(_, _)
WrittenBack(cmd, sp) ==
  IF cmd.type = "BACK" THEN WrittenBack(cmd.cmd, sp) \o <<"&">> \o sp ELSE WrittenPipe(cmd, sp)

WrittenLine(cmd, sp) ==
  IF cmd.type = "LIST" THEN WrittenBack(cmd.left, sp) \o <<";">> \o sp \o WrittenLine(cmd.right, sp)
  ELSE WrittenBack(cmd, sp)
=============================================================================
