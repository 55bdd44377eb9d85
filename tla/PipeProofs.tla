----------------------------- MODULE PipeProofs -----------------------------
(***************************************************************************)
(* The inductive invariant of module Pipe and the properties it gives, for *)
(* any numbers of readers and writers, any PIPESIZE, and any Wrap that     *)
(* PIPESIZE divides.                                                       *)
(***************************************************************************)
EXTENDS Pipe, TLAPS

WritePC == {"write", "put", "write_end"}
ReadPC == {"read", "empty", "get", "read_end"}
ClosePC == {"close", "closed"}

\* Where readers and writers can be, and who has pi->lock.
Places ==
  /\ \A w \in Writers : pc[w] \in WritePC \union {"idle", "write_sleep"} \union ClosePC
  /\ \A r \in Readers : pc[r] \in ReadPC \union {"idle", "read_sleep"} \union ClosePC
  /\ \A p \in Procs : lock = p <=> pc[p] \in WritePC \union ReadPC
  /\ \A p \in asleep : pc[p] \in {"write_sleep", "read_sleep"}

\* The loops of pipewrite() and piperead().
Loops ==
  \A p \in Procs : /\ i[p] <= n[p]
                   /\ pc[p] = "put" => i[p] < n[p]
                   /\ pc[p] = "idle" => i[p] = 0

\* An end that is closed, or about to be, has no user left.
EndClosed(end, open) ==
  /\ open = 0 => \A p \in end : pc[p] = "closed"
  /\ \A p \in end : pc[p] = "close" =>
       open = 1 /\ \A q \in end \ {p} : pc[q] = "closed"

Ends ==
  /\ EndClosed(Readers, readopen) /\ EndClosed(Writers, writeopen)
  /\ freed = 1 => readopen = 0 /\ writeopen = 0

\* What a process has seen under pi->lock still holds.
Seen ==
  /\ \A r \in Readers : pc[r] = "empty" => Waits
  /\ \A w \in Writers : pc[w] = "put" => readopen = 1

\* A sleeper has reason to, or somebody who will wake it has pi->lock.
Sleepers ==
  /\ \A r \in Readers \intersect asleep :
       /\ writeopen = 1
       /\ Empty \/ (\E w \in Writers : killed[w] = 1) \/ (\E w \in Writers : pc[w] \in WritePC)
  /\ \A w \in Writers \intersect asleep :
       /\ readopen = 1
       /\ Full \/ (\E r \in Readers : pc[r] \in {"get", "read_end"})

\* The indexes are at most PIPESIZE apart.
Bounded == Used <= PIPESIZE

IInv == TypeOK /\ Places /\ Loops /\ Ends /\ Seen /\ Sleepers /\ Bounded

-----------------------------------------------------------------------------
\* A remainder is below its modulus.
LEMMA ModRange ==
  ASSUME NEW m \in Nat, m > 0, NEW a \in Int
  PROVE  a % m \in 0..m - 1
  OBVIOUS

\* The remainder of a number that is less than one turn off.
LEMMA ModSmall ==
  ASSUME NEW m \in Nat, m > 0, NEW a \in Int
  PROVE  /\ 0 <= a /\ a < m => a % m = a
         /\ m <= a /\ a < 2 * m => a % m = a - m
         /\ -m <= a /\ a < 0 => a % m = a + m
  OBVIOUS

\* Quotient and remainder give the number back.
LEMMA DivMod ==
  ASSUME NEW m \in Nat, m > 0, NEW a \in Int
  PROVE  a \div m \in Int /\ a % m \in 0..m - 1 /\ a = m * (a \div m) + (a % m)
<1>1. a = m * (a \div m) + (a % m)
  OBVIOUS
<1> QED
  BY <1>1

\* The only multiple of m nearer than m to zero is zero.
LEMMA MultipleInside ==
  ASSUME NEW m \in Nat, m > 0, NEW d \in Int, -m < m * d, m * d < m
  PROVE  d = 0
<1>1. d >= 1 => m * d >= m
  OBVIOUS
<1>2. d <= -1 => m * d <= -m
  OBVIOUS
<1> QED
  BY <1>1, <1>2

\* The remainder is the only one.
LEMMA ModUnique ==
  ASSUME NEW m \in Nat, m > 0, NEW q \in Int, NEW r \in 0..m - 1
  PROVE  (m * q + r) % m = r
<1> DEFINE a == m * q + r
<1>1. a \in Int
  OBVIOUS
<1>2. a = m * (a \div m) + (a % m) /\ a \div m \in Int /\ a % m \in 0..m - 1
  BY <1>1, DivMod
<1>3. m * (a \div m - q) = r - (a % m)
  BY <1>2
<1>4. a \div m - q = 0
  BY <1>2, <1>3, MultipleInside
<1> QED
  BY <1>2, <1>3, <1>4

\* An index that wraps around at a multiple of m keeps its place modulo m.
LEMMA ModWrap ==
  ASSUME NEW m \in Nat, m > 0, NEW w \in Nat, w % m = 0, NEW a \in Int
  PROVE  (a + w) % m = a % m
<1>1. w = m * (w \div m) /\ w \div m \in Int
  BY DivMod
<1>2. a = m * (a \div m) + (a % m) /\ a \div m \in Int /\ a % m \in 0..m - 1
  BY DivMod
<1> DEFINE q == a \div m + w \div m
<1>3. a + w = m * q + (a % m) /\ q \in Int
  BY <1>1, <1>2
<1> HIDE DEF q
<1>4. (m * q + (a % m)) % m = a % m
  BY <1>2, <1>3, ModUnique, ZenonT(60)
<1> QED
  BY <1>3, <1>4

\* Indexes less than a turn apart have different slots.
LEMMA ModDistinct ==
  ASSUME NEW m \in Nat, m > 0, NEW a \in Int, NEW k \in 1..m - 1
  PROVE  (a + k) % m # a % m
<1> SUFFICES ASSUME (a + k) % m = a % m PROVE FALSE
  OBVIOUS
<1> DEFINE d == (a + k) \div m - a \div m
<1>1. a = m * (a \div m) + (a % m) /\ a \div m \in Int /\ a % m \in 0..m - 1
  BY DivMod
<1>2. a + k = m * ((a + k) \div m) + ((a + k) % m) /\ (a + k) \div m \in Int
  BY DivMod
<1>3. m * d = k /\ d \in Int
  BY <1>1, <1>2
<1>4. d = 0
  BY <1>3, MultipleInside
<1> QED
  BY <1>3, <1>4

\* How far apart two indexes are, and what pi->nwrite++ and pi->nread++ do to that.
LEMMA Distance ==
  ASSUME NEW a \in 0..Wrap - 1, NEW b \in 0..Wrap - 1
  PROVE  LET d == (b - a) % Wrap
         IN  /\ d \in 0..Wrap - 1
             /\ d = 0 <=> a = b
             /\ \A c \in 0..Wrap - 1 : d = c <=> b = (a + c) % Wrap
             /\ Inc(a) \in 0..Wrap - 1
             /\ d < Wrap - 1 => (Inc(b) - a) % Wrap = d + 1
             /\ d # 0 => (b - Inc(a)) % Wrap = d - 1
<1> DEFINE d == (b - a) % Wrap
<1>1. Wrap \in Nat /\ Wrap > 1
  BY PipeAssumption
<1>2. d = IF b >= a THEN b - a ELSE b - a + Wrap
  BY <1>1, ModSmall
<1>3. \A c \in 0..Wrap - 1 : (a + c) % Wrap = IF a + c < Wrap THEN a + c ELSE a + c - Wrap
  BY <1>1, ModSmall
<1>4. \A c \in 0..Wrap - 1 : Inc(c) = IF c = Wrap - 1 THEN 0 ELSE c + 1
  BY <1>1, ModSmall DEF Inc
<1>5. Inc(a) \in 0..Wrap - 1 /\ Inc(b) \in 0..Wrap - 1
  BY <1>1, <1>4
<1>6. (Inc(b) - a) % Wrap = IF Inc(b) >= a THEN Inc(b) - a ELSE Inc(b) - a + Wrap
  BY <1>1, <1>5, ModSmall
<1>7. (b - Inc(a)) % Wrap = IF b >= Inc(a) THEN b - Inc(a) ELSE b - Inc(a) + Wrap
  BY <1>1, <1>5, ModSmall
<1> HIDE DEF d
<1>8. d \in 0..Wrap - 1 /\ (d = 0 <=> a = b)
  BY <1>1, <1>2
<1>9. \A c \in 0..Wrap - 1 : d = c <=> b = (a + c) % Wrap
  BY <1>1, <1>2, <1>3
<1>10. d < Wrap - 1 => (Inc(b) - a) % Wrap = d + 1
  BY <1>1, <1>2, <1>4, <1>6
<1>11. d # 0 => (b - Inc(a)) % Wrap = d - 1
  BY <1>1, <1>2, <1>4, <1>7
<1> QED
  BY <1>5, <1>8, <1>9, <1>10, <1>11 DEF d

\* What the tests of pipewrite() and piperead() say of the number of bytes in the pipe.
LEMMA Indexes ==
  ASSUME TypeOK
  PROVE  /\ Inc(nread) \in 0..Wrap - 1 /\ Inc(nwrite) \in 0..Wrap - 1
         /\ Used \in 0..Wrap - 1
         /\ Full <=> Used = PIPESIZE
         /\ Empty <=> Used = 0
         /\ Used < PIPESIZE => (Inc(nwrite) - nread) % Wrap = Used + 1
         /\ Used # 0 => (nwrite - Inc(nread)) % Wrap = Used - 1
<1>1. nread \in 0..Wrap - 1 /\ nwrite \in 0..Wrap - 1
  BY DEF TypeOK
<1>2. PIPESIZE \in 0..Wrap - 1 /\ Wrap \in Nat
  BY PipeAssumption
<1>3. Inc(nread) \in 0..Wrap - 1 /\ Inc(nwrite) \in 0..Wrap - 1
  BY <1>1, Distance
<1>4. Used \in 0..Wrap - 1 /\ (Empty <=> Used = 0)
  BY <1>1, Distance, Zenon DEF Used, Empty
<1>5. Full <=> Used = PIPESIZE
  <2>1. \A c \in 0..Wrap - 1 : (nwrite - nread) % Wrap = c <=> nwrite = (nread + c) % Wrap
    BY <1>1, Distance, ZenonT(60)
  <2> QED
    BY <1>2, <2>1, Zenon DEF Used, Full
<1>6. Used < Wrap - 1 => (Inc(nwrite) - nread) % Wrap = Used + 1
  BY <1>1, Distance, Zenon DEF Used
<1>7. Used # 0 => (nwrite - Inc(nread)) % Wrap = Used - 1
  BY <1>1, Distance, Zenon DEF Used
<1> QED
  BY <1>2, <1>3, <1>4, <1>5, <1>6, <1>7

\* pipealloc() establishes the invariant.
LEMMA InitInv == Init => IInv
<1> SUFFICES ASSUME Init PROVE IInv
  OBVIOUS
<1>1. TypeOK
  BY PipeAssumption DEF Init, TypeOK, Procs
<1>2. Places /\ Loops
  BY PipeAssumption DEF Init, Places, Loops, Procs, WritePC, ReadPC
<1>3. Ends /\ Seen /\ Sleepers
  BY DEF Init, Ends, EndClosed, Seen, Sleepers, Procs
<1>4. Bounded
  BY <1>1, Indexes, PipeAssumption DEF Init, Empty, Bounded
<1> QED
  BY <1>1, <1>2, <1>3, <1>4 DEF IInv

\* A step that changes nothing keeps it.
LEMMA StutterInv == IInv /\ UNCHANGED vars => IInv'
<1> SUFFICES ASSUME IInv, UNCHANGED vars PROVE IInv'
  OBVIOUS
<1> USE DEF vars, pipe, IInv
<1>1. TypeOK' /\ Bounded'
  BY DEF TypeOK, Bounded, Used
<1>2. Places' /\ Loops'
  BY DEF Places, Loops
<1>3. Ends' /\ Seen'
  BY DEF Ends, EndClosed, Seen, Waits, Empty
<1>4. Sleepers'
  BY DEF Sleepers, Empty, Full
<1> QED
  BY <1>1, <1>2, <1>3, <1>4

\* pi->lock excludes.
LEMMA Alone ==
  ASSUME IInv, NEW p \in Procs, pc[p] \in WritePC \union ReadPC, NEW q \in Procs, q # p
  PROVE  pc[q] \notin WritePC \union ReadPC
  BY DEF IInv, Places

\* A step keeps the types: the page is not freed twice.
LEMMA TypeStep == IInv /\ Next => TypeOK'
<1> SUFFICES ASSUME IInv, Next PROVE TypeOK'
  OBVIOUS
<1>0. TypeOK /\ Loops /\ Ends
  BY DEF IInv
<1> USE PipeAssumption DEF TypeOK, Procs, Goto, pipe
<1>1. ASSUME NEW p \in Procs, NEW l \in {"read", "write"}, NEW k \in 0..MaxN, Call(p, l, k),
             l = "read" => p \in Readers, l = "write" => p \in Writers
      PROVE  TypeOK'
  BY <1>0, <1>1 DEF Call
<1>2. ASSUME NEW p \in Procs, NEW l \in {"read", "write"}, Resume(p, l),
             pc[p] = IF l = "read" THEN "read_sleep" ELSE "write_sleep",
             l = "read" => p \in Readers, l = "write" => p \in Writers
      PROVE  TypeOK'
  BY <1>0, <1>2 DEF Resume
<1>3. ASSUME NEW w \in Writers, pipewrite_broken(w) PROVE TypeOK'
  BY <1>0, <1>3 DEF pipewrite_broken, Return
<1>4. ASSUME NEW w \in Writers, pipewrite_test(w) PROVE TypeOK'
  BY <1>0, <1>4 DEF pipewrite_test
<1>5. ASSUME NEW w \in Writers, pipewrite_full(w) PROVE TypeOK'
  BY <1>0, <1>5 DEF pipewrite_full
<1>6. ASSUME NEW w \in Writers, NEW ch \in Bytes, pipewrite_put(w, ch) PROVE TypeOK'
  <2>0. nwrite % PIPESIZE \in 0..PIPESIZE - 1
    BY <1>0, ModRange
  <2>1. nwrite' \in 0..Wrap - 1
    BY <1>0, <1>6, Indexes, SMTT(60) DEF pipewrite_put
  <2>2. data' \in [0..PIPESIZE - 1 -> Bytes]
    BY <1>0, <1>6, <2>0 DEF pipewrite_put
  <2>3. i' \in [Procs -> 0..MaxN]
    BY <1>0, <1>6, SMTT(60) DEF pipewrite_put, Loops
  <2> QED
    BY <1>0, <1>6, <2>1, <2>2, <2>3, SMTT(60) DEF pipewrite_put
<1>7. ASSUME NEW w \in Writers, pipewrite_fault(w) PROVE TypeOK'
  BY <1>0, <1>7 DEF pipewrite_fault
<1>8. ASSUME NEW w \in Writers, pipewrite_return(w) PROVE TypeOK'
  BY <1>0, <1>8 DEF pipewrite_return, Return, WakeReaders
<1>9. ASSUME NEW r \in Readers, piperead_killed(r) PROVE TypeOK'
  BY <1>0, <1>9 DEF piperead_killed, Return
<1>10. ASSUME NEW r \in Readers, piperead_test(r) PROVE TypeOK'
  BY <1>0, <1>10 DEF piperead_test
<1>11. ASSUME NEW r \in Readers, piperead_sleep(r) PROVE TypeOK'
  BY <1>0, <1>11 DEF piperead_sleep
<1>12. ASSUME NEW r \in Readers, piperead_get(r) PROVE TypeOK'
  <2>0. nread % PIPESIZE \in 0..PIPESIZE - 1
    BY <1>0, ModRange
  <2>1. nread' \in 0..Wrap - 1
    BY <1>0, <1>12, Indexes DEF piperead_get
  <2>2. received' \in Bytes \union {NoByte}
    BY <1>0, <1>12, <2>0 DEF piperead_get
  <2>3. i' \in [Procs -> 0..MaxN]
    BY <1>0, <1>12, SMTT(60) DEF piperead_get, Loops
  <2> QED
    BY <1>0, <1>12, <2>1, <2>2, <2>3, ZenonT(60) DEF piperead_get
<1>13. ASSUME NEW r \in Readers, piperead_return(r) PROVE TypeOK'
  BY <1>0, <1>13 DEF piperead_return, Return, WakeWriters
<1>14. ASSUME NEW p \in Procs, fileclose(p) PROVE TypeOK'
  BY <1>0, <1>14, SMTT(60) DEF fileclose
<1>15. ASSUME NEW p \in Procs, pipeclose(p) PROVE TypeOK'
  BY <1>0, <1>15 DEF pipeclose, LastEnd, Ends, EndClosed
<1>16. ASSUME NEW p \in Procs, kkill(p) PROVE TypeOK'
  BY <1>0, <1>16 DEF kkill
<1> QED
  BY <1>1, <1>2, <1>3, <1>4, <1>5, <1>6, <1>7, <1>8, <1>9, <1>10, <1>11, <1>12, <1>13, <1>14,
     <1>15, <1>16, ZenonT(60)
     DEF Next, Write, Read, pipewrite, piperead, pipewrite_resume, piperead_resume, Procs

\* A step keeps pi->lock with the process that took it.
LEMMA PlacesStep == IInv /\ Next => Places'
<1> SUFFICES ASSUME IInv, Next PROVE Places'
  OBVIOUS
<1>0. TypeOK /\ Places
  BY DEF IInv
<1> USE PipeAssumption DEF TypeOK, Places, Procs, Goto, WritePC, ReadPC, ClosePC
<1>1. ASSUME NEW p \in Procs, NEW l \in {"read", "write"}, NEW k \in 0..MaxN, Call(p, l, k),
             l = "read" => p \in Readers, l = "write" => p \in Writers
      PROVE  Places'
  BY <1>0, <1>1 DEF Call
<1>2. ASSUME NEW p \in Procs, NEW l \in {"read", "write"}, Resume(p, l),
             pc[p] = IF l = "read" THEN "read_sleep" ELSE "write_sleep",
             l = "read" => p \in Readers, l = "write" => p \in Writers
      PROVE  Places'
  BY <1>0, <1>2 DEF Resume
<1>3. ASSUME NEW w \in Writers, pipewrite_broken(w) PROVE Places'
  BY <1>0, <1>3 DEF pipewrite_broken, Return
<1>4. ASSUME NEW w \in Writers, pipewrite_test(w) PROVE Places'
  BY <1>0, <1>4 DEF pipewrite_test
<1>5. ASSUME NEW w \in Writers, pipewrite_full(w) PROVE Places'
  BY <1>0, <1>5 DEF pipewrite_full
<1>6. ASSUME NEW w \in Writers, NEW ch \in Bytes, pipewrite_put(w, ch) PROVE Places'
  BY <1>0, <1>6 DEF pipewrite_put
<1>7. ASSUME NEW w \in Writers, pipewrite_fault(w) PROVE Places'
  BY <1>0, <1>7 DEF pipewrite_fault
<1>8. ASSUME NEW w \in Writers, pipewrite_return(w) PROVE Places'
  BY <1>0, <1>8 DEF pipewrite_return, Return, WakeReaders
<1>9. ASSUME NEW r \in Readers, piperead_killed(r) PROVE Places'
  BY <1>0, <1>9 DEF piperead_killed, Return
<1>10. ASSUME NEW r \in Readers, piperead_test(r) PROVE Places'
  BY <1>0, <1>10 DEF piperead_test
<1>11. ASSUME NEW r \in Readers, piperead_sleep(r) PROVE Places'
  BY <1>0, <1>11 DEF piperead_sleep
<1>12. ASSUME NEW r \in Readers, piperead_get(r) PROVE Places'
  BY <1>0, <1>12, ZenonT(60) DEF piperead_get
<1>13. ASSUME NEW r \in Readers, piperead_return(r) PROVE Places'
  BY <1>0, <1>13 DEF piperead_return, Return, WakeWriters
<1>14. ASSUME NEW p \in Procs, fileclose(p) PROVE Places'
  BY <1>0, <1>14, ZenonT(60) DEF fileclose
<1>15. ASSUME NEW p \in Procs, pipeclose(p) PROVE Places'
  BY <1>0, <1>15, SMTT(60) DEF pipeclose
<1>16. ASSUME NEW p \in Procs, kkill(p) PROVE Places'
  BY <1>0, <1>16 DEF kkill
<1> QED
  BY <1>1, <1>2, <1>3, <1>4, <1>5, <1>6, <1>7, <1>8, <1>9, <1>10, <1>11, <1>12, <1>13, <1>14,
     <1>15, <1>16, ZenonT(60)
     DEF Next, Write, Read, pipewrite, piperead, pipewrite_resume, piperead_resume, Procs

\* A step keeps the bounds of the loops.
LEMMA LoopsStep == IInv /\ Next => Loops'
<1> SUFFICES ASSUME IInv, Next PROVE Loops'
  OBVIOUS
<1>0. TypeOK /\ Loops
  BY DEF IInv
<1> USE PipeAssumption DEF TypeOK, Loops, Procs, Goto
<1>1. ASSUME NEW p \in Procs, NEW l \in {"read", "write"}, NEW k \in 0..MaxN, Call(p, l, k),
             l = "read" => p \in Readers, l = "write" => p \in Writers
      PROVE  Loops'
  BY <1>0, <1>1 DEF Call
<1>2. ASSUME NEW p \in Procs, NEW l \in {"read", "write"}, Resume(p, l),
             pc[p] = IF l = "read" THEN "read_sleep" ELSE "write_sleep",
             l = "read" => p \in Readers, l = "write" => p \in Writers
      PROVE  Loops'
  BY <1>0, <1>2 DEF Resume
<1>3. ASSUME NEW w \in Writers, pipewrite_broken(w) PROVE Loops'
  BY <1>0, <1>3 DEF pipewrite_broken, Return
<1>4. ASSUME NEW w \in Writers, pipewrite_test(w) PROVE Loops'
  BY <1>0, <1>4 DEF pipewrite_test
<1>5. ASSUME NEW w \in Writers, pipewrite_full(w) PROVE Loops'
  BY <1>0, <1>5 DEF pipewrite_full
<1>6. ASSUME NEW w \in Writers, NEW ch \in Bytes, pipewrite_put(w, ch) PROVE Loops'
  BY <1>0, <1>6 DEF pipewrite_put
<1>7. ASSUME NEW w \in Writers, pipewrite_fault(w) PROVE Loops'
  BY <1>0, <1>7 DEF pipewrite_fault
<1>8. ASSUME NEW w \in Writers, pipewrite_return(w) PROVE Loops'
  BY <1>0, <1>8 DEF pipewrite_return, Return
<1>9. ASSUME NEW r \in Readers, piperead_killed(r) PROVE Loops'
  BY <1>0, <1>9 DEF piperead_killed, Return
<1>10. ASSUME NEW r \in Readers, piperead_test(r) PROVE Loops'
  BY <1>0, <1>10 DEF piperead_test
<1>11. ASSUME NEW r \in Readers, piperead_sleep(r) PROVE Loops'
  BY <1>0, <1>11 DEF piperead_sleep
<1>12. ASSUME NEW r \in Readers, piperead_get(r) PROVE Loops'
  <2>1. i[r] < n[r] /\ n' = n /\ pc[r] = "get" /\ (pc' = pc \/ pc' = [pc EXCEPT ![r] = "read_end"])
        /\ (i' = i \/ i' = [i EXCEPT ![r] = i[r] + 1])
    BY <1>12 DEF piperead_get
  <2> SUFFICES ASSUME NEW q \in Procs
               PROVE  /\ i'[q] <= n[q] /\ (pc'[q] = "put" => i'[q] < n[q])
                      /\ pc'[q] = "idle" => i'[q] = 0
    BY <2>1, SMTT(60)
  <2>2. CASE q = r
    <3>1. i'[q] \in {i[r], i[r] + 1} /\ pc'[q] \in {"get", "read_end"}
      BY <1>0, <2>1, <2>2, SMTT(60)
    <3> QED
      BY <1>0, <2>1, <2>2, <3>1, SMTT(60)
  <2>3. CASE q # r
    BY <1>0, <2>1, <2>3
  <2> QED
    BY <2>2, <2>3
<1>13. ASSUME NEW r \in Readers, piperead_return(r) PROVE Loops'
  BY <1>0, <1>13 DEF piperead_return, Return
<1>14. ASSUME NEW p \in Procs, fileclose(p) PROVE Loops'
  BY <1>0, <1>14 DEF fileclose
<1>15. ASSUME NEW p \in Procs, pipeclose(p) PROVE Loops'
  BY <1>0, <1>15 DEF pipeclose
<1>16. ASSUME NEW p \in Procs, kkill(p) PROVE Loops'
  BY <1>0, <1>16 DEF kkill
<1> QED
  BY <1>1, <1>2, <1>3, <1>4, <1>5, <1>6, <1>7, <1>8, <1>9, <1>10, <1>11, <1>12, <1>13, <1>14,
     <1>15, <1>16, ZenonT(60)
     DEF Next, Write, Read, pipewrite, piperead, pipewrite_resume, piperead_resume, Procs

\* Only the last descriptor of an end closes it, and the second end frees.
LEMMA EndsStep == IInv /\ Next => Ends'
<1> SUFFICES ASSUME IInv, Next PROVE Ends'
  OBVIOUS
<1>0. TypeOK /\ Places /\ Ends
  BY SMTT(60) DEF IInv
<1> USE PipeAssumption DEF TypeOK, Ends, EndClosed, Procs, Goto, pipe
<1>1. ASSUME NEW p \in Procs, NEW l \in {"read", "write"}, NEW k \in 0..MaxN, Call(p, l, k),
             l = "read" => p \in Readers, l = "write" => p \in Writers
      PROVE  Ends'
  BY <1>0, <1>1, SMTT(60) DEF Call
<1>2. ASSUME NEW p \in Procs, NEW l \in {"read", "write"}, Resume(p, l),
             pc[p] = IF l = "read" THEN "read_sleep" ELSE "write_sleep",
             l = "read" => p \in Readers, l = "write" => p \in Writers
      PROVE  Ends'
  BY <1>0, <1>2, SMTT(60) DEF Resume
<1>3. ASSUME NEW w \in Writers, pipewrite_broken(w) PROVE Ends'
  BY <1>0, <1>3, SMTT(60) DEF pipewrite_broken, Return
<1>4. ASSUME NEW w \in Writers, pipewrite_test(w) PROVE Ends'
  BY <1>0, <1>4, SMTT(60) DEF pipewrite_test
<1>5. ASSUME NEW w \in Writers, pipewrite_full(w) PROVE Ends'
  BY <1>0, <1>5, SMTT(60) DEF pipewrite_full
<1>6. ASSUME NEW w \in Writers, NEW ch \in Bytes, pipewrite_put(w, ch) PROVE Ends'
  BY <1>0, <1>6, SMTT(60) DEF pipewrite_put
<1>7. ASSUME NEW w \in Writers, pipewrite_fault(w) PROVE Ends'
  BY <1>0, <1>7, SMTT(60) DEF pipewrite_fault
<1>8. ASSUME NEW w \in Writers, pipewrite_return(w) PROVE Ends'
  BY <1>0, <1>8, SMTT(60) DEF pipewrite_return, Return
<1>9. ASSUME NEW r \in Readers, piperead_killed(r) PROVE Ends'
  BY <1>0, <1>9, SMTT(60) DEF piperead_killed, Return
<1>10. ASSUME NEW r \in Readers, piperead_test(r) PROVE Ends'
  BY <1>0, <1>10, SMTT(60) DEF piperead_test
<1>11. ASSUME NEW r \in Readers, piperead_sleep(r) PROVE Ends'
  BY <1>0, <1>11, SMTT(60) DEF piperead_sleep
<1>12. ASSUME NEW r \in Readers, piperead_get(r) PROVE Ends'
  BY <1>0, <1>12, SMTT(60) DEF piperead_get
<1>13. ASSUME NEW r \in Readers, piperead_return(r) PROVE Ends'
  BY <1>0, <1>13 DEF piperead_return, Return
<1>14. ASSUME NEW p \in Procs, fileclose(p) PROVE Ends'
  BY <1>0, <1>14, SMTT(60) DEF fileclose
<1>15. ASSUME NEW p \in Procs, pipeclose(p) PROVE Ends'
  BY <1>0, <1>15 DEF pipeclose, LastEnd
<1>16. ASSUME NEW p \in Procs, kkill(p) PROVE Ends'
  BY <1>0, <1>16 DEF kkill
<1> QED
  BY <1>1, <1>2, <1>3, <1>4, <1>5, <1>6, <1>7, <1>8, <1>9, <1>10, <1>11, <1>12, <1>13, <1>14,
     <1>15, <1>16, ZenonT(60)
     DEF Next, Write, Read, pipewrite, piperead, pipewrite_resume, piperead_resume, Procs

\* Nobody changes what the holder of pi->lock has tested.
LEMMA SeenStep == IInv /\ Next => Seen'
<1> SUFFICES ASSUME IInv, Next PROVE Seen'
  OBVIOUS
<1>0. TypeOK /\ Places /\ Seen /\ Ends
  BY DEF IInv
<1> USE PipeAssumption DEF TypeOK, Seen, Waits, Empty, Procs, Goto, pipe
<1>1. ASSUME NEW p \in Procs, NEW l \in {"read", "write"}, NEW k \in 0..MaxN, Call(p, l, k),
             l = "read" => p \in Readers, l = "write" => p \in Writers
      PROVE  Seen'
  BY <1>0, <1>1, Alone DEF Call, WritePC, ReadPC
<1>2. ASSUME NEW p \in Procs, NEW l \in {"read", "write"}, Resume(p, l),
             pc[p] = IF l = "read" THEN "read_sleep" ELSE "write_sleep",
             l = "read" => p \in Readers, l = "write" => p \in Writers
      PROVE  Seen'
  BY <1>0, <1>2, Alone DEF Resume, WritePC, ReadPC
<1>3. ASSUME NEW w \in Writers, pipewrite_broken(w) PROVE Seen'
  BY <1>0, <1>3, Alone DEF pipewrite_broken, Return, WritePC, ReadPC
<1>4. ASSUME NEW w \in Writers, pipewrite_test(w) PROVE Seen'
  BY <1>0, <1>4, Alone DEF pipewrite_test, Broken, WritePC, ReadPC
<1>5. ASSUME NEW w \in Writers, pipewrite_full(w) PROVE Seen'
  BY <1>0, <1>5, Alone DEF pipewrite_full, WritePC, ReadPC
<1>6. ASSUME NEW w \in Writers, NEW ch \in Bytes, pipewrite_put(w, ch) PROVE Seen'
  BY <1>0, <1>6, Alone DEF pipewrite_put, WritePC, ReadPC
<1>7. ASSUME NEW w \in Writers, pipewrite_fault(w) PROVE Seen'
  BY <1>0, <1>7, Alone DEF pipewrite_fault, WritePC, ReadPC
<1>8. ASSUME NEW w \in Writers, pipewrite_return(w) PROVE Seen'
  BY <1>0, <1>8, Alone, SMTT(60) DEF pipewrite_return, Return, WritePC, ReadPC
<1>9. ASSUME NEW r \in Readers, piperead_killed(r) PROVE Seen'
  BY <1>0, <1>9, Alone, SMTT(60) DEF piperead_killed, Return, WritePC, ReadPC
<1>10. ASSUME NEW r \in Readers, piperead_test(r) PROVE Seen'
  BY <1>0, <1>10, Alone, SMTT(60) DEF piperead_test, WritePC, ReadPC
<1>11. ASSUME NEW r \in Readers, piperead_sleep(r) PROVE Seen'
  BY <1>0, <1>11, Alone, SMTT(60) DEF piperead_sleep, WritePC, ReadPC
<1>12. ASSUME NEW r \in Readers, piperead_get(r) PROVE Seen'
  BY <1>0, <1>12, Alone, SMTT(60) DEF piperead_get, WritePC, ReadPC
<1>13. ASSUME NEW r \in Readers, piperead_return(r) PROVE Seen'
  BY <1>0, <1>13, Alone, SMTT(60) DEF piperead_return, Return, WritePC, ReadPC
<1>14. ASSUME NEW p \in Procs, fileclose(p) PROVE Seen'
  BY <1>0, <1>14, Alone, SMTT(60) DEF fileclose, WritePC, ReadPC
<1>15. ASSUME NEW p \in Procs, pipeclose(p) PROVE Seen'
  BY <1>0, <1>15, SMTT(60) DEF pipeclose, Places, Ends, EndClosed, WritePC, ReadPC
<1>16. ASSUME NEW p \in Procs, kkill(p) PROVE Seen'
  BY <1>0, <1>16, Alone DEF kkill, WritePC, ReadPC
<1> QED
  BY <1>1, <1>2, <1>3, <1>4, <1>5, <1>6, <1>7, <1>8, <1>9, <1>10, <1>11, <1>12, <1>13, <1>14,
     <1>15, <1>16, ZenonT(60)
     DEF Next, Write, Read, pipewrite, piperead, pipewrite_resume, piperead_resume, Procs

\* Every step that takes away the reason to sleep wakes, or leaves the lock with who will.
LEMMA SleepersStep == IInv /\ Next => Sleepers'
<1> SUFFICES ASSUME IInv, Next PROVE Sleepers'
  OBVIOUS
<1>0. TypeOK /\ Places /\ Seen /\ Ends /\ Sleepers
  BY SMTT(60) DEF IInv
<1> USE PipeAssumption DEF TypeOK, Sleepers, Procs, Goto, pipe, WritePC
<1>1. ASSUME NEW p \in Procs, NEW l \in {"read", "write"}, NEW k \in 0..MaxN, Call(p, l, k),
             l = "read" => p \in Readers, l = "write" => p \in Writers
      PROVE  Sleepers'
  BY <1>0, <1>1, ZenonT(60) DEF Call, Empty, Full
<1>2. ASSUME NEW p \in Procs, NEW l \in {"read", "write"}, Resume(p, l),
             pc[p] = IF l = "read" THEN "read_sleep" ELSE "write_sleep",
             l = "read" => p \in Readers, l = "write" => p \in Writers
      PROVE  Sleepers'
  BY <1>0, <1>2, ZenonT(60) DEF Resume, Empty, Full
<1>3. ASSUME NEW w \in Writers, pipewrite_broken(w) PROVE Sleepers'
  BY <1>0, <1>3, ZenonT(60) DEF pipewrite_broken, Return, Broken, Places, Ends,
     EndClosed, Empty, Full
<1>4. ASSUME NEW w \in Writers, pipewrite_test(w) PROVE Sleepers'
  BY <1>0, <1>4 DEF pipewrite_test, Empty, Full
<1>5. ASSUME NEW w \in Writers, pipewrite_full(w) PROVE Sleepers'
  BY <1>0, <1>5 DEF pipewrite_full, Seen, Empty, Full
<1>6. ASSUME NEW w \in Writers, NEW ch \in Bytes, pipewrite_put(w, ch) PROVE Sleepers'
  BY <1>0, <1>6, SMTT(60) DEF pipewrite_put, Empty, Full
<1>7. ASSUME NEW w \in Writers, pipewrite_fault(w) PROVE Sleepers'
  BY <1>0, <1>7 DEF pipewrite_fault, Empty, Full
<1>8. ASSUME NEW w \in Writers, pipewrite_return(w) PROVE Sleepers'
  BY <1>0, <1>8, SMTT(60) DEF pipewrite_return, Return, WakeReaders, Empty, Full
<1>9. ASSUME NEW r \in Readers, piperead_killed(r) PROVE Sleepers'
  BY <1>0, <1>9, ZenonT(60) DEF piperead_killed, Return, Empty, Full
<1>10. ASSUME NEW r \in Readers, piperead_test(r) PROVE Sleepers'
  BY <1>0, <1>10, ZenonT(60) DEF piperead_test, Empty, Full
<1>11. ASSUME NEW r \in Readers, piperead_sleep(r) PROVE Sleepers'
  BY <1>0, <1>11, ZenonT(60) DEF piperead_sleep, Seen, Waits, Empty, Full
<1>12. ASSUME NEW r \in Readers, piperead_get(r) PROVE Sleepers'
  BY <1>0, <1>12, ZenonT(60) DEF piperead_get, Empty, Full
<1>13. ASSUME NEW r \in Readers, piperead_return(r) PROVE Sleepers'
  BY <1>0, <1>13, SMTT(60) DEF piperead_return, Return, WakeWriters, Empty, Full
<1>14. ASSUME NEW p \in Procs, fileclose(p) PROVE Sleepers'
  BY <1>0, <1>14, ZenonT(60) DEF fileclose, Empty, Full
<1>15. ASSUME NEW p \in Procs, pipeclose(p) PROVE Sleepers'
  BY <1>0, <1>15, SMTT(60) DEF pipeclose, Empty, Full
<1>16. ASSUME NEW p \in Procs, kkill(p) PROVE Sleepers'
  BY <1>0, <1>16, SMTT(60) DEF kkill, Empty, Full
<1> QED
  BY <1>1, <1>2, <1>3, <1>4, <1>5, <1>6, <1>7, <1>8, <1>9, <1>10, <1>11, <1>12, <1>13, <1>14,
     <1>15, <1>16, ZenonT(60)
     DEF Next, Write, Read, pipewrite, piperead, pipewrite_resume, piperead_resume, Procs

\* A byte is put only where there is room, and taken only where there is one.
LEMMA BoundedStep == IInv /\ Next => Bounded'
<1> SUFFICES ASSUME IInv, Next PROVE Bounded'
  OBVIOUS
<1>0. TypeOK /\ Bounded
  BY SMTT(60) DEF IInv
<1> USE PipeAssumption DEF TypeOK, Bounded, pipe
<1>1. ASSUME NEW p \in Procs, NEW l \in {"read", "write"}, NEW k \in 0..MaxN, Call(p, l, k),
             l = "read" => p \in Readers, l = "write" => p \in Writers
      PROVE  Bounded'
  BY <1>0, <1>1, SMTT(60) DEF Call, Used
<1>2. ASSUME NEW p \in Procs, NEW l \in {"read", "write"}, Resume(p, l),
             pc[p] = IF l = "read" THEN "read_sleep" ELSE "write_sleep",
             l = "read" => p \in Readers, l = "write" => p \in Writers
      PROVE  Bounded'
  BY <1>0, <1>2, SMTT(60) DEF Resume, Used
<1>3. ASSUME NEW w \in Writers, pipewrite_broken(w) PROVE Bounded'
  BY <1>0, <1>3 DEF pipewrite_broken, Return, Used
<1>4. ASSUME NEW w \in Writers, pipewrite_test(w) PROVE Bounded'
  BY <1>0, <1>4 DEF pipewrite_test, Used
<1>5. ASSUME NEW w \in Writers, pipewrite_full(w) PROVE Bounded'
  BY <1>0, <1>5, SMTT(60) DEF pipewrite_full, Used
<1>6. ASSUME NEW w \in Writers, NEW ch \in Bytes, pipewrite_put(w, ch) PROVE Bounded'
  BY <1>0, <1>6, Indexes DEF pipewrite_put, Used, Full
<1>7. ASSUME NEW w \in Writers, pipewrite_fault(w) PROVE Bounded'
  BY <1>0, <1>7, SMTT(60) DEF pipewrite_fault, Used
<1>8. ASSUME NEW w \in Writers, pipewrite_return(w) PROVE Bounded'
  BY <1>0, <1>8 DEF pipewrite_return, Return, Used
<1>9. ASSUME NEW r \in Readers, piperead_killed(r) PROVE Bounded'
  BY <1>0, <1>9 DEF piperead_killed, Return, Used
<1>10. ASSUME NEW r \in Readers, piperead_test(r) PROVE Bounded'
  BY <1>0, <1>10 DEF piperead_test, Used
<1>11. ASSUME NEW r \in Readers, piperead_sleep(r) PROVE Bounded'
  BY <1>0, <1>11, SMTT(60) DEF piperead_sleep, Used
<1>12. ASSUME NEW r \in Readers, piperead_get(r) PROVE Bounded'
  BY <1>0, <1>12, Indexes DEF piperead_get, Used, Empty
<1>13. ASSUME NEW r \in Readers, piperead_return(r) PROVE Bounded'
  BY <1>0, <1>13 DEF piperead_return, Return, Used
<1>14. ASSUME NEW p \in Procs, fileclose(p) PROVE Bounded'
  BY <1>0, <1>14, SMTT(60) DEF fileclose, Used
<1>15. ASSUME NEW p \in Procs, pipeclose(p) PROVE Bounded'
  BY <1>0, <1>15 DEF pipeclose, Used
<1>16. ASSUME NEW p \in Procs, kkill(p) PROVE Bounded'
  BY <1>0, <1>16 DEF kkill, Used
<1> QED
  BY <1>1, <1>2, <1>3, <1>4, <1>5, <1>6, <1>7, <1>8, <1>9, <1>10, <1>11, <1>12, <1>13, <1>14,
     <1>15, <1>16, ZenonT(60)
     DEF Next, Write, Read, pipewrite, piperead, pipewrite_resume, piperead_resume, Procs

\* Every step keeps the invariant.
LEMMA NextInv == IInv /\ [Next]_vars => IInv'
  BY TypeStep, PlacesStep, LoopsStep, EndsStep, SeenStep, SleepersStep, BoundedStep, StutterInv
     DEF IInv

\* The invariant holds always.
LEMMA InductiveInv == Spec => []IInv
  BY InitInv, NextInv, PTL DEF Spec

-----------------------------------------------------------------------------
(***************************************************************************)
(* The page of the pipe is given to kfree() once, when both ends are       *)
(* closed and nobody is inside a call, for any numbers of readers and      *)
(* writers.                                                                *)
(***************************************************************************)
THEOREM FreedOnce == Spec => []NoUseAfterFree
<1>1. IInv => NoUseAfterFree
  <2> SUFFICES ASSUME IInv, freed > 0
               PROVE  freed = 1 /\ lock = NoProc /\ \A p \in Procs : pc[p] = "closed"
    BY DEF NoUseAfterFree, IInv
  <2>1. freed = 1
    BY DEF IInv, TypeOK
  <2>2. \A p \in Procs : pc[p] = "closed"
    BY <2>1, ZenonT(60) DEF IInv, Ends, EndClosed, Procs
  <2> QED
    BY <2>1, <2>2, ZenonT(60) DEF IInv, TypeOK, Places, WritePC, ReadPC
<1> QED
  BY <1>1, InductiveInv, PTL

(***************************************************************************)
(* No wakeup() of pipe.c is missed: whenever pi->lock is free, a reader    *)
(* that sleeps has nothing to read and a writer that sleeps has no room,   *)
(* except for bytes that a killed writer left.                             *)
(***************************************************************************)
THEOREM SleepersAreWoken == Spec => []NoLostWakeup
<1>1. IInv => NoLostWakeup
  <2> SUFFICES ASSUME IInv, lock = NoProc PROVE NoLostWakeup
    BY DEF NoLostWakeup
  <2>1. \A p \in Procs : pc[p] \notin WritePC \union ReadPC
    BY PipeAssumption DEF IInv, Places, Procs
  <2> QED
    BY <2>1 DEF IInv, Sleepers, NoLostWakeup, Procs, ReadPC
<1> QED
  BY <1>1, InductiveInv, PTL

-----------------------------------------------------------------------------
\* The place in data[] of the k-th byte in the pipe.
Slot(k) == (nread + k - 1) % PIPESIZE
Content == [k \in 1..Used |-> data[Slot(k)]]

\* The bytes between the indexes are a sequence.
LEMMA ContentIsSeq ==
  ASSUME IInv
  PROVE  /\ Used \in Nat /\ Content \in Seq(Bytes) /\ Len(Content) = Used
         /\ \A k \in 1..Used : Slot(k) \in 0..PIPESIZE - 1 /\ Content[k] = data[Slot(k)]
<1>1. nread \in Nat /\ PIPESIZE \in Nat /\ PIPESIZE > 0 /\ data \in [0..PIPESIZE - 1 -> Bytes]
  BY PipeAssumption DEF IInv, TypeOK
<1>2. Used \in Nat
  BY Indexes, PipeAssumption DEF IInv
<1>3. \A k \in 1..Used : Slot(k) \in 0..PIPESIZE - 1
  BY <1>1, <1>2, ModRange DEF Slot
<1>4. \A k \in 1..Used : data[Slot(k)] \in Bytes
  BY <1>1, <1>3
<1> QED
  BY <1>2, <1>3, <1>4 DEF Content

\* The slot that pipewrite() fills is the next one, and holds no byte of the pipe.
LEMMA SlotFilled ==
  ASSUME IInv, Used < PIPESIZE
  PROVE  /\ Slot(Used + 1) = nwrite % PIPESIZE
         /\ \A k \in 1..Used : Slot(k) # nwrite % PIPESIZE
<1>1. /\ nread \in 0..Wrap - 1 /\ nwrite \in 0..Wrap - 1 /\ Wrap \in Nat /\ Wrap > 0
      /\ PIPESIZE \in Nat /\ PIPESIZE > 0 /\ Wrap % PIPESIZE = 0
  BY PipeAssumption DEF IInv, TypeOK
<1>2. Used \in Nat
  BY ContentIsSeq
<1>3. nread + Used = nwrite \/ nread + Used = nwrite + Wrap
  BY <1>1, ModSmall DEF Used
<1>4. (nread + Used) % PIPESIZE = nwrite % PIPESIZE
  <2>1. (nwrite + Wrap) % PIPESIZE = nwrite % PIPESIZE
    <3>1. nwrite \in Int
      BY <1>1
    <3> QED
      BY <1>1, <3>1, ModWrap, Zenon
  <2> QED
    BY <1>3, <2>1
<1>5. Slot(Used + 1) = nwrite % PIPESIZE
  BY <1>1, <1>2, <1>4 DEF Slot
<1>6. ASSUME NEW k \in 1..Used PROVE Slot(k) # nwrite % PIPESIZE
  <2> DEFINE a == nread + k - 1
             j == Used - k + 1
  <2>1. a \in Int /\ j \in 1..PIPESIZE - 1 /\ a + j = nread + Used
    BY <1>1, <1>2, <1>6
  <2>2. (a + j) % PIPESIZE # a % PIPESIZE
    BY <1>1, <2>1, ModDistinct, ZenonT(60)
  <2> QED
    BY <1>4, <2>1, <2>2 DEF Slot
<1> QED
  BY <1>5, <1>6

\* After nread++ every byte that is left is one place nearer.
LEMMA SlotsMove ==
  ASSUME IInv, nread' = Inc(nread), NEW k \in Nat
  PROVE  Slot(k)' = Slot(k + 1)
<1>1. /\ nread \in 0..Wrap - 1 /\ Wrap \in Nat /\ Wrap > 0
      /\ PIPESIZE \in Nat /\ PIPESIZE > 0 /\ Wrap % PIPESIZE = 0
  BY PipeAssumption DEF IInv, TypeOK
<1>2. nread' \in Int /\ (nread' = nread + 1 \/ nread' + Wrap = nread + 1)
  BY <1>1, ModSmall DEF Inc
<1>3. CASE nread' = nread + 1
  BY <1>1, <1>3 DEF Slot
<1>4. CASE nread' + Wrap = nread + 1
  <2> DEFINE a == nread' + k - 1
  <2>1. a \in Int /\ a + Wrap = nread + (k + 1) - 1
    BY <1>1, <1>2, <1>4
  <2>2. (a + Wrap) % PIPESIZE = a % PIPESIZE
    <3> HIDE DEF a
    <3> QED
      BY <1>1, <2>1, ModWrap, ZenonT(60)
  <2> QED
    BY <2>1, <2>2 DEF Slot
<1> QED
  BY <1>2, <1>3, <1>4

\* pi->data[pi->nwrite++ % PIPESIZE] = ch appends.
LEMMA PutAppends ==
  ASSUME IInv, IInv', NEW w \in Writers, NEW ch \in Bytes, pipewrite_put(w, ch)
  PROVE  Len(Content) < PIPESIZE /\ Content' = Append(Content, ch) /\ received' = received
<1>1. /\ data' = [data EXCEPT ![nwrite % PIPESIZE] = ch] /\ nwrite' = Inc(nwrite)
      /\ nread' = nread /\ received' = received /\ ~Full
  BY DEF pipewrite_put
<1>2. Used \in Nat /\ Used < PIPESIZE /\ Used' = Used + 1
  <2>1. Used \in Nat /\ Used <= PIPESIZE /\ Used # PIPESIZE
    BY <1>1, Indexes, ContentIsSeq DEF IInv, Bounded
  <2>2. Used < PIPESIZE
    BY <2>1, PipeAssumption
  <2>3. Used' = (Inc(nwrite) - nread) % Wrap
    BY <1>1, SMTT(60) DEF Used
  <2> QED
    BY <2>1, <2>2, <2>3, Indexes DEF IInv
<1>3. data \in [0..PIPESIZE - 1 -> Bytes] /\ nwrite % PIPESIZE \in 0..PIPESIZE - 1
  BY PipeAssumption, ModRange, SMTT(60) DEF IInv, TypeOK
<1>4. \A k \in 1..Used : data'[Slot(k)] = Content[k]
  BY <1>1, <1>2, <1>3, SlotFilled, ContentIsSeq
<1>5. data'[Slot(Used + 1)] = ch
  BY <1>1, <1>2, <1>3, SlotFilled
<1>6. \A k \in Nat : Slot(k)' = Slot(k)
  BY <1>1 DEF Slot
<1>7. Content' = [k \in 1..Used + 1 |-> data'[Slot(k)]]
  BY <1>2, <1>6, SMTT(60) DEF Content
<1>8. Content \in Seq(Bytes) /\ Len(Content) = Used
  BY ContentIsSeq
<1>9. Append(Content, ch) = [k \in 1..Used + 1 |-> data'[Slot(k)]]
  <2> DEFINE A == Append(Content, ch)
  <2>1. A \in Seq(Bytes) /\ Len(A) = Used + 1
    BY <1>2, <1>8
  <2>2. \A k \in 1..Used + 1 : A[k] = IF k = Used + 1 THEN ch ELSE Content[k]
    BY <1>2, <1>8
  <2> HIDE DEF A
  <2>3. ASSUME NEW k \in 1..Used + 1 PROVE A[k] = data'[Slot(k)]
    <3>1. CASE k = Used + 1
      BY <1>5, <2>2, <3>1
    <3>2. CASE k # Used + 1
      <4>1. k \in 1..Used
        BY <1>2, <3>2
      <4> QED
        BY <1>4, <2>2, <3>2, <4>1
    <3> QED
      BY <3>1, <3>2
  <2>4. A = [k \in 1..Used + 1 |-> A[k]]
    BY <1>2, <2>1
  <2> QED
    BY <2>3, <2>4, ZenonT(60) DEF A
<1> QED
  BY <1>1, <1>2, <1>7, <1>8, <1>9

\* pi->data[pi->nread++ % PIPESIZE] takes the first byte.
LEMMA GetRemoves ==
  ASSUME IInv, NEW r \in Readers, piperead_get(r)
  PROVE  /\ Content # <<>> /\ Content' = Tail(Content)
         /\ received' = Head(Content) \/ received' = received
<1>1. /\ nread' = Inc(nread) /\ nwrite' = nwrite /\ data' = data /\ ~Empty
      /\ received' = data[nread % PIPESIZE] \/ received' = received
  BY SMTT(60) DEF piperead_get
<1>2. Used \in Nat /\ Used # 0 /\ Content \in Seq(Bytes) /\ Len(Content) = Used
  BY <1>1, Indexes, ContentIsSeq DEF IInv
<1>3. Used' = Used - 1
  <2>1. Used' = (nwrite - Inc(nread)) % Wrap
    BY <1>1 DEF Used
  <2> QED
    BY <1>2, <2>1, Indexes DEF IInv
<1>4. Content' = [k \in 1..Used - 1 |-> data[Slot(k + 1)]]
  BY <1>1, <1>2, <1>3, SlotsMove DEF Content
<1>5. Tail(Content) = [k \in 1..Used - 1 |-> data[Slot(k + 1)]]
  BY <1>2 DEF Content
<1>6. Head(Content) = data[nread % PIPESIZE]
  <2>1. Head(Content) = Content[1] /\ Content[1] = data[Slot(1)]
    BY <1>2, ContentIsSeq
  <2>2. Slot(1) = nread % PIPESIZE
    BY DEF Slot, IInv, TypeOK
  <2> QED
    BY <2>1, <2>2
<1> QED
  BY <1>1, <1>2, <1>4, <1>5, <1>6

(***************************************************************************)
(* A pipe is a bounded first-in first-out queue for every PIPESIZE and     *)
(* every range of the unsigned indexes that is a multiple of it, any       *)
(* number of times around.                                                 *)
(***************************************************************************)
THEOREM PipeIsQueue == Spec => IsQueue
<1>1. Init => Queue!Init
  <2> SUFFICES ASSUME Init PROVE Queue!Init
    OBVIOUS
  <2>1. Used = 0
    BY InitInv, Indexes DEF IInv, Init, Empty
  <2> QED
    BY <2>1, SMTT(60) DEF Init, Queue!Init
<1>2. IInv /\ IInv' /\ [Next]_vars => [Queue!Next]_<<Content, received>>
  <2> SUFFICES ASSUME IInv, IInv', [Next]_vars
               PROVE  Queue!Next \/ UNCHANGED <<Content, received>>
    OBVIOUS
  <2>1. ASSUME UNCHANGED <<data, nread, nwrite, received>> PROVE UNCHANGED <<Content, received>>
    BY <2>1, SMTT(60) DEF Content, Slot, Used
  <2>2. ASSUME NEW w \in Writers, NEW ch \in Bytes, pipewrite_put(w, ch) PROVE Queue!Next
    BY <2>2, PutAppends, ZenonT(60) DEF Queue!Next, Queue!Put, Content, Slot
  <2>3. ASSUME NEW r \in Readers, piperead_get(r) PROVE Queue!Next
    BY <2>3, GetRemoves, ZenonT(60) DEF Queue!Next, Queue!Get, Queue!Drop, Content, Slot
  <2>4. ASSUME NEW p \in Procs, NEW l, NEW k, Call(p, l, k) \/ Resume(p, l)
        PROVE  UNCHANGED <<Content, received>>
    BY <2>1, <2>4, SMTT(60) DEF Call, Resume, pipe
  <2>5. ASSUME NEW w \in Writers,
               \/ pipewrite_broken(w) \/ pipewrite_test(w) \/ pipewrite_full(w)
               \/ pipewrite_fault(w) \/ pipewrite_return(w)
        PROVE  UNCHANGED <<Content, received>>
    BY <2>1, <2>5, SMTT(60) DEF pipewrite_broken, pipewrite_test, pipewrite_full, pipewrite_fault,
       pipewrite_return, pipe
  <2>6. ASSUME NEW r \in Readers,
               \/ piperead_killed(r) \/ piperead_test(r) \/ piperead_sleep(r) \/ piperead_return(r)
        PROVE  UNCHANGED <<Content, received>>
    BY <2>1, <2>6, SMTT(60) DEF piperead_killed, piperead_test, piperead_sleep,
       piperead_return, pipe
  <2>7. ASSUME NEW p \in Procs, fileclose(p) \/ pipeclose(p) \/ kkill(p)
        PROVE  UNCHANGED <<Content, received>>
    BY <2>1, <2>7, SMTT(60) DEF fileclose, pipeclose, kkill, pipe
  <2>8. ASSUME UNCHANGED vars PROVE UNCHANGED <<Content, received>>
    BY <2>1, <2>8 DEF vars, pipe
  <2> QED
    BY <2>2, <2>3, <2>4, <2>5, <2>6, <2>7, <2>8, ZenonT(60)
       DEF Next, Write, Read, pipewrite, piperead, pipewrite_resume, piperead_resume, Procs
<1>3. IInv /\ IInv' /\ [Next]_vars
      => [Queue!Next]_<<[k \in 1..Used |-> data[(nread + k - 1) % PIPESIZE]], received>>
  BY <1>2 DEF Content, Slot
<1> QED
  BY <1>1, <1>3, InductiveInv, PTL DEF Spec, IsQueue, Queue!Spec
=============================================================================
