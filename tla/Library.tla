------------------------------- MODULE Library -------------------------------
(***************************************************************************)
(* Pure functions of the kernel and of user programs, each against a       *)
(* reference: string.c and ulib.c, printf.c of both, skipelem() of fs.c,   *)
(* the matcher of grep.c, and the parser of the shell.  Strings are        *)
(* sequences that end in NUL; pointers are positions.  Every call is one   *)
(* step, which leaves its result and the reference's in ret.               *)
(***************************************************************************)
EXTENDS ShParse, FiniteSets, FiniteSetsExt

CONSTANTS
  MemSize,      \* memory for memmove()
  Width,        \* bits of an integer
  DIRSIZ,
  MaxLen        \* longest string

VARIABLE ret    \* function that was called -> its result and the reference's

Range0(n) == [i \in 1..n |-> i - 1]
Down(n) == [i \in 1..n |-> n - i]
CString(s) == Append(s, NUL)

\* Strings over S of length 0 to n
Strs(S, n) == UNION {[1..k -> S] : k \in 0..n}
-----------------------------------------------------------------------------
\* n bytes one after the other, in the given order
Copy(mem, dst, src, order) == FoldLeft(LAMBDA m, i : [m EXCEPT ![dst + i] = m[src + i]], mem, order)

memmove(mem, dst, src, n) ==
  Copy(mem, dst, src, IF src < dst /\ src + n > dst THEN Down(n) ELSE Range0(n))

umemmove(mem, dst, src, n) == Copy(mem, dst, src, IF src > dst THEN Range0(n) ELSE Down(n))

Moved(mem, dst, src, n) == [a \in DOMAIN mem |-> IF a \in dst..dst + n - 1 THEN mem[a - dst + src] ELSE mem[a]]

\* The first of n places where p ends or the two differ decides.
RECURSIVE strncmp(_, _, _)
strncmp(p, q, n) ==
  IF n = 0 THEN 0
  ELSE IF p[1] # 0 /\ p[1] = q[1] THEN strncmp(Tail(p), Tail(q), n - 1)
  ELSE p[1] - q[1]

RECURSIVE strcmp(_, _)
strcmp(p, q) == IF p[1] # 0 /\ p[1] = q[1] THEN strcmp(Tail(p), Tail(q)) ELSE p[1] - q[1]

RECURSIVE memcmp(_, _, _)
memcmp(p, q, n) ==
  IF n = 0 THEN 0 ELSE IF p[1] # q[1] THEN p[1] - q[1] ELSE memcmp(Tail(p), Tail(q), n - 1)

Sign3(x) == IF x < 0 THEN -1 ELSE IF x > 0 THEN 1 ELSE 0
Value(s, n) == FoldLeft(LAMBDA v, i : 3 * v + (IF i <= Len(s) THEN s[i] ELSE 0), 0, [i \in 1..n |-> i])

\* The copy loops: s is what the destination holds before.
RECURSIVE strncpy(_, _, _, _)
strncpy(s, t, i, n) ==
  IF n = 0 THEN s
  ELSE IF t[i] = NUL THEN [k \in DOMAIN s |-> IF k \in i..i + n - 1 THEN NUL ELSE s[k]]
  ELSE strncpy([s EXCEPT ![i] = t[i]], t, i + 1, n - 1)

RECURSIVE SafeCopy(_, _, _, _)
SafeCopy(s, t, i, n) ==
  IF n - 1 > 0 /\ t[i] # NUL THEN SafeCopy([s EXCEPT ![i] = t[i]], t, i + 1, n - 1) ELSE [s EXCEPT ![i] = NUL]

safestrcpy(s, t, n) == IF n <= 0 THEN s ELSE SafeCopy(s, t, 1, n)

Copied(s, t, n, keep) ==
  [k \in DOMAIN s |-> IF k > n THEN s[k] ELSE IF k <= Min({Len(t), keep}) THEN t[k] ELSE NUL]

\* gets() from input: the loop reads a byte at a time.
RECURSIVE Gets(_, _, _)
Gets(buf, input, max) ==
  IF Len(buf) + 1 >= max \/ input = << >> THEN buf
  ELSE IF input[1] \in {"n", "r"} THEN Append(buf, input[1]) ELSE Gets(Append(buf, input[1]), Tail(input), max)

gets(input, max) == CString(Gets(<< >>, input, max))
-----------------------------------------------------------------------------
\* printint(): xx has Width bits, in two's complement; the digits come out in the
\* order of buf, last first.
RECURSIVE Digits(_, _)
Digits(x, base) == IF x < base THEN <<x>> ELSE <<x % base>> \o Digits(x \div base, base)

printint(xx, base, sign) ==
  LET neg == sign /\ xx < 0
      x == (IF neg THEN -xx ELSE xx) % 2^Width
      buf == Digits(x, base) \o (IF neg THEN <<-1>> ELSE << >>)
  IN [i \in 1..Len(buf) |-> buf[Len(buf) + 1 - i]]

NumberOf(out, base) ==
  LET neg == out[1] = -1
      v == FoldLeft(LAMBDA s, d : base * s + d, 0, IF neg THEN Tail(out) ELSE out)
  IN IF neg THEN -v ELSE v

\* Conversions of printf(): what the letters at i mean, and how many there are.
Conversion(f, i) ==
  LET is(s) == i + Len(s) - 1 <= Len(f) /\ SubSeq(f, i, i + Len(s) - 1) = s
  IN IF is(<<"d">>) THEN [out |-> "d32", n |-> 1]
     ELSE IF is(<<"l", "d">>) THEN [out |-> "d64", n |-> 2]
     ELSE IF is(<<"l", "l", "d">>) THEN [out |-> "d64", n |-> 3]
     ELSE IF is(<<"s">>) THEN [out |-> "string", n |-> 1]
     ELSE IF is(<<"%">>) THEN [out |-> "%", n |-> 1]
     ELSE [out |-> "unknown", n |-> 1]

\* Kernel: an index that jumps.  A "%" at the end prints nothing.
RECURSIVE printf(_, _)
printf(f, i) ==
  IF f[i] = NUL THEN << >>
  ELSE IF f[i] # "%" THEN <<f[i]>> \o printf(f, i + 1)
  ELSE IF f[i + 1] = NUL THEN << >>
  ELSE LET c == Conversion(f, i + 1)
       IN (IF c.out = "unknown" THEN <<"%", f[i + 1]>> ELSE <<c.out>>) \o printf(f, i + 1 + c.n)

\* User: a state that remembers the "%".
RECURSIVE vprintf(_, _, _)
vprintf(f, i, state) ==
  IF f[i] = NUL THEN << >>
  ELSE IF state = 0 THEN (IF f[i] = "%" THEN vprintf(f, i + 1, 1) ELSE <<f[i]>> \o vprintf(f, i + 1, 0))
  ELSE LET c == Conversion(f, i)
       IN (IF c.out = "unknown" THEN <<"%", f[i]>> ELSE <<c.out>>) \o vprintf(f, i + c.n, 0)
-----------------------------------------------------------------------------
\* The first name of a path and the rest of it; the caller passes CString(path).
RECURSIVE Slashes(_, _)
Slashes(p, i) == IF p[i] = "/" THEN Slashes(p, i + 1) ELSE i

RECURSIVE NameEnd(_, _)
NameEnd(p, i) == IF p[i] \in {"/", NUL} THEN i ELSE NameEnd(p, i + 1)

skipelem(p, path) ==
  LET s == Slashes(p, path)
      e == NameEnd(p, s)
  IN [found |-> p[s] # NUL, name |-> SubSeq(p, s, s + Min({e - s, DIRSIZ}) - 1), path |-> Slashes(p, e)]

\* The names that namex() walks through.
RECURSIVE NamesFrom(_, _)
NamesFrom(p, i) == LET e == skipelem(p, i) IN IF e.found THEN <<e.name>> \o NamesFrom(p, e.path) ELSE << >>

\* Reference: every position where a name begins, in order.
NameAt(path, b) ==
  LET ends == {e \in b..Len(path) : e = Len(path) \/ path[e + 1] = "/"}
  IN SubSeq(path, b, Min({Min(ends), b + DIRSIZ - 1}))
Begins(path) == {b \in DOMAIN path : path[b] # "/" /\ (b = 1 \/ path[b - 1] = "/")}
Names(path) == LET bs == SetToSortSeq(Begins(path), <) IN [k \in DOMAIN bs |-> NameAt(path, bs[k])]
-----------------------------------------------------------------------------
\* The matcher of grep, on C strings.
RECURSIVE matchhere(_, _)

RECURSIVE matchstar(_, _, _)
matchstar(c, re, text) ==
  \/ matchhere(re, text)
  \/ text[1] # NUL /\ (text[1] = c \/ c = ".") /\ matchstar(c, re, Tail(text))

matchhere(re, text) ==
  IF re[1] = NUL THEN TRUE
  ELSE IF re[2] = "*" THEN matchstar(re[1], Tail(Tail(re)), text)
  ELSE IF re[1] = "$" /\ re[2] = NUL THEN text[1] = NUL
  ELSE text[1] # NUL /\ (re[1] = "." \/ re[1] = text[1]) /\ matchhere(Tail(re), Tail(text))

RECURSIVE Anywhere(_, _)
Anywhere(re, text) == matchhere(re, text) \/ (text[1] # NUL /\ Anywhere(re, Tail(text)))

match(re, text) == IF re[1] = "^" THEN matchhere(Tail(re), text) ELSE Anywhere(re, text)

\* Reference: the items of an expression, and the positions of the text reachable
\* through each, all at once.
RECURSIVE Items(_)
Items(re) ==
  IF re = << >> THEN << >>
  ELSE IF Len(re) >= 2 /\ re[2] = "*" THEN <<[c |-> re[1], star |-> TRUE, last |-> FALSE]>> \o Items(SubSeq(re, 3, Len(re)))
  ELSE <<[c |-> re[1], star |-> FALSE, last |-> Len(re) = 1]>> \o Items(Tail(re))

After(text, S, it) ==
  LET fits(k) == k \in DOMAIN text /\ (it.c = "." \/ text[k] = it.c)
  IN IF it.star THEN {e \in 0..Len(text) : \E b \in S : b <= e /\ \A k \in b + 1..e : fits(k)}
     ELSE IF it.last /\ it.c = "$" THEN S \intersect {Len(text)}
     ELSE {b + 1 : b \in {b \in S : fits(b + 1)}}

Matches(re, text) ==
  LET anchored == re # << >> /\ re[1] = "^"
  IN FoldLeft(LAMBDA S, it : After(text, S, it), IF anchored THEN {0} ELSE 0..Len(text),
              Items(IF anchored THEN Tail(re) ELSE re)) # {}
-----------------------------------------------------------------------------
\* grep() of one file, read in chunks of any size into a buffer of bufsize: the lines
\* it looks at.  It stops when a line does not fit.
RECURSIVE Looked(_, _, _, _)
Looked(buf, chunks, input, bufsize) ==
  LET n == Min({IF chunks = << >> THEN Len(input) ELSE chunks[1], Len(input), bufsize - Len(buf) - 1})
      b == buf \o SubSeq(input, 1, n)
      ends == SetToSortSeq({k \in DOMAIN b : b[k] = "n"}, <)
      begin(k) == IF k = 1 THEN 1 ELSE ends[k - 1] + 1
      rest == IF ends = << >> THEN b ELSE SubSeq(b, Last(ends) + 1, Len(b))
  IN IF n = 0 THEN << >>
     ELSE [k \in DOMAIN ends |-> SubSeq(b, begin(k), ends[k] - 1)]
          \o Looked(rest, IF chunks = << >> THEN << >> ELSE Tail(chunks), SubSeq(input, n + 1, Len(input)), bufsize)

grep(input, chunks, bufsize) == Looked(<< >>, chunks, input, bufsize)
-----------------------------------------------------------------------------
Returns(fn, out, ref) == ret' = [f \in {fn} |-> [out |-> out, ref |-> ref]]

Init == ret = [f \in {} |-> 0]

call_memmove ==
  LET mem == [a \in 1..MemSize |-> a]
  IN \E dst, src \in 1..MemSize, n \in 0..MemSize :
       /\ dst + n <= MemSize + 1 /\ src + n <= MemSize + 1
       /\ Returns("memmove", <<memmove(mem, dst, src, n), umemmove(mem, dst, src, n)>>,
                  <<Moved(mem, dst, src, n), Moved(mem, dst, src, n)>>)

\* Strings of 0..2 compare as numbers to the base 3.
call_strcmp ==
  \E p, q \in Strs(1..2, 2), n \in 0..3 :
    LET p0 == Append(p, 0)  q0 == Append(q, 0)  m == Min({Len(p0), Len(q0), n})
    IN Returns("strcmp", <<Sign3(strncmp(p0, q0, n)), Sign3(strcmp(p0, q0)), Sign3(memcmp(p0, q0, m))>>,
               <<Sign3(Value(p, n) - Value(q, n)), Sign3(Value(p, 3) - Value(q, 3)),
                 Sign3(Value(p0, m) - Value(q0, m))>>)

call_strcpy ==
  \E t \in Strs({"x", "y"}, 3), n \in 0..4 :
    LET s == [k \in 1..5 |-> "old"]
    IN Returns("strncpy", <<strncpy(s, CString(t), 1, n), safestrcpy(s, CString(t), n)>>,
               <<Copied(s, t, n, n),
                 [k \in 1..5 |-> IF k <= Min({Len(t) + 1, n}) THEN Copied(s, t, n, n - 1)[k] ELSE "old"]>>)

\* A line as long as the buffer, longer, ended by a newline, a carriage return or
\* the end of file.
call_gets ==
  \E input \in Strs({"x", "n", "r"}, MaxLen), max \in 1..3 :
    LET stops == {k \in 0..Len(input) : k = Len(input) \/ k = max - 1 \/ (k > 0 /\ input[k] # "x")}
    IN Returns("gets", gets(input, max), CString(SubSeq(input, 1, Min(stops))))

\* Every number of Width bits; the digits and the sign need no more room than the
\* largest unsigned number.
call_printint ==
  \E x \in -2^(Width - 1)..2^(Width - 1) - 1, base \in {10, 16}, sign \in BOOLEAN :
    LET out == printint(x, base, sign)
    IN Returns("printint", <<NumberOf(out, base), Len(out) <= Len(Digits(2^Width - 1, 10))>>,
               <<IF sign THEN x ELSE x % 2^Width, TRUE>>)

\* The two printf() say the same.
call_printf ==
  \E f \in Strs({"%", "l", "d", "s", "z"}, MaxLen) :
    Returns("printf", printf(CString(f), 1), vprintf(CString(f), 1, 0))

call_skipelem ==
  \E path \in Strs({"/", "x", "y"}, MaxLen + 1) : Returns("skipelem", NamesFrom(CString(path), 1), Names(path))

call_match ==
  \E re \in Strs({"^", "x", ".", "*", "$"}, MaxLen), text \in Strs({"x", "y"}, 3) :
    Returns("match", match(CString(re), CString(text)), Matches(re, text))

\* However read() cuts the file up, grep looks at the same lines, unless one does not
\* fit the buffer.
call_grep ==
  \E input \in Strs({"x", "n"}, MaxLen + 1), a, b \in 1..3 :
    /\ \A k \in DOMAIN input : k + 3 <= Len(input) => \E j \in k..k + 3 : input[j] = "n"
    /\ Returns("grep", grep(input, <<a, b>>, 5), grep(input, << >>, Len(input) + 2))

\* Commands of depth three, written with and without spaces, and every short line
\* that parses.
Redirs(S) == {redircmd(c, <<"f">>, m, IF m = "read" THEN 0 ELSE 1) : c \in S, m \in {"read", "trunc", "append"}}
Above(S) ==
  S \union {backcmd(c) : c \in S} \union {pipecmd(c, d) : c \in S, d \in S}
    \union {listcmd(c, d) : c \in S, d \in S} \union Redirs(S)
Commands == Above(Above({execcmd(<< >>), execcmd(<<<<"x">>>>)})) \union {execcmd(<<<<"x", "y">>, <<"z">>>>)}

call_parsecmd ==
  \/ \E cmd \in Commands, sp \in {<< >>, <<" ">>} : Returns("parsecmd", parsecmd(WrittenLine(cmd, sp)), cmd)
  \/ \E line \in Strs(symbols \union {"x", " "}, MaxLen) :
       LET cmd == parsecmd(line)
       IN Returns("parsecmd", cmd, IF cmd = Panic THEN Panic ELSE parsecmd(WrittenLine(cmd, << >>)))
  \/ Returns("parsecmd", parsecmd(Words([k \in 1..MAXARGS |-> <<"x">>], << >>)), Panic)

Next ==
  /\ DOMAIN ret = {}
  /\ \/ call_memmove \/ call_strcmp \/ call_strcpy \/ call_gets \/ call_printint \/ call_printf
     \/ call_skipelem \/ call_match \/ call_grep \/ call_parsecmd

Spec == Init /\ [][Next]_ret
-----------------------------------------------------------------------------
\* Every function returns what its reference does: overlapping copies, strings that
\* fill their buffer, the most negative number, "%" at the end of a format, names
\* longer than DIRSIZ, stars that must give back what they took, lines cut in two.
Agrees == \A f \in DOMAIN ret : ret[f].out = ret[f].ref
=============================================================================
