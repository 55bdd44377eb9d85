---------------------------- MODULE VirtioProofs ----------------------------
(***************************************************************************)
(* The inductive invariant of module Virtio and the safety properties it   *)
(* gives, for any set of processes, any number of descriptors and any      *)
(* width of the indexes of the rings.                                      *)
(***************************************************************************)
EXTENDS Virtio, FiniteSetTheorems, WellFoundedInduction, TLAPS

Index == 0..Wrap - 1

\* A ring holds no more entries than it has room for, and no entry twice.
Proper(ring, from, to) ==
  /\ (to - from) % Wrap <= NUM
  /\ \A j, k \in Window(from, to) : j # k => ring[j % NUM] # ring[k % NUM]

\* Requests that the device has finished and the driver has not seen.
Finished == Entries(used, used_idx, usedidx)

\* The processes whose request has descriptors.
Active == {p \in Procs : pc[p] \in {"notify", "wait", "test"}}

\* Who has vdisk_lock.
Locked ==
  /\ \A p \in Procs : pc[p] \in {"alloc", "notify", "test"} => lock = p
  /\ handler # "idle" => lock = Intr

\* A request is a chain of three descriptors of its own, with its buffer.
Built(p) ==
  LET d == idx0[p] IN
  /\ next[d] \in Descs /\ next[next[d]] \in Descs /\ next[next[next[d]]] = NUM
  /\ next[d] # d /\ next[next[d]] # d /\ next[next[d]] # next[d]
  /\ d \notin free /\ next[d] \notin free /\ next[next[d]] \notin free
  /\ addr[next[d]] = p /\ infob[d] = p

Chains == \A p \in Active : Built(p)

\* Two requests share no descriptor.
Apart ==
  \A p, q \in Active : p # q => Chain(idx0[p]) \intersect Chain(idx0[q]) = {}

\* The state of the rings.
Rings ==
  /\ Proper(avail, fetched, availidx) /\ Proper(used, used_idx, usedidx)
  /\ Offered \intersect working = {}
  /\ \A p \in Procs : pc[p] = "notify" =>
       (availidx - fetched) % Wrap < NUM /\ avail[availidx % NUM] = idx0[p]

\* How far the request of a process has come.
Waits(p, d, n) ==
  pc[p] \in {"wait", "test"} /\ idx0[p] = d /\ bdisk[p] = 1 /\ done[p] = n

\* A request in flight is not done, one in the used ring is done once; b->disk
\* is 0 only after that.
Stages ==
  /\ \A d \in InFlight : \E p \in Procs : Waits(p, d, 0)
  /\ \A d \in Finished : status[d] = 0 /\ \E p \in Procs : Waits(p, d, 1)
  /\ \A p \in Procs :
       /\ pc[p] \in {"idle", "alloc", "nodesc"} => done[p] = 0
       /\ pc[p] = "notify" => bdisk[p] = 1 /\ done[p] = 0
       /\ pc[p] \in {"wait", "test"} /\ bdisk[p] = 0 => done[p] = 1

\* A process that sleeps for descriptors, whoever has the lock.
Wanting == Waiting("nodesc") # {} => Cardinality(free) < 3

\* A process that sleeps for its request.
Pending == \A p \in Waiting("wait") : bdisk[p] = 1

\* An entry that the driver has not seen will be looked at.
Noticed == usedidx # used_idx => handler = "loop" \/ intr = 1 \/ finished = 1

(***************************************************************************)
(* DeviceOwnsChains is not inductive: that an entry of a ring is not       *)
(* overwritten needs to know how many there are, and they are at most NUM  *)
(* only because they are different descriptors of different requests.      *)
(***************************************************************************)
IInv ==
  /\ TypeOK /\ panicked = 0
  /\ Locked /\ Chains /\ Apart /\ Rings /\ Stages /\ Wanting /\ Pending /\ Noticed

-----------------------------------------------------------------------------
\* Distances between two indexes, which go around.
LEMMA Turn ==
  ASSUME NEW a \in Index, NEW b \in Index
  PROVE  /\ (b - a) % Wrap = (IF a <= b THEN b - a ELSE b - a + Wrap)
         /\ (b - a) % Wrap \in Nat
         /\ (a + 1) % Wrap = (IF a = Wrap - 1 THEN 0 ELSE a + 1)
         /\ (a + 1) % Wrap \in Index
<1>1. Wrap \in Nat /\ Wrap > 1
  BY VirtioAssumption
<1>2. (b - a) % Wrap = (IF a <= b THEN b - a ELSE b - a + Wrap)
  BY <1>1 DEF Index
<1>3. (a + 1) % Wrap = (IF a = Wrap - 1 THEN 0 ELSE a + 1)
  BY <1>1 DEF Index
<1> QED
  BY <1>1, <1>2, <1>3 DEF Index

\* Quotient and remainder give an index back.
LEMMA DivMod ==
  ASSUME NEW a \in Nat
  PROVE  a \div NUM \in Int /\ a % NUM \in Descs /\ a = NUM * (a \div NUM) + (a % NUM)
<1>1. NUM \in Nat /\ NUM > 0
  BY VirtioAssumption
<1>2. a = NUM * (a \div NUM) + (a % NUM)
  BY <1>1
<1> QED
  BY <1>1, <1>2 DEF Descs

\* Indexes that share a slot are at least one turn of the ring apart, because
\* NUM divides 2^16.
LEMMA SlotsApart ==
  ASSUME NEW j \in Index, NEW k \in Index, j # k, j % NUM = k % NUM
  PROVE  (j - k) % Wrap >= NUM
<1>1. NUM \in Nat /\ NUM > 0 /\ Wrap \in Nat /\ Wrap % NUM = 0
  BY VirtioAssumption
<1> DEFINE x == j \div NUM
           y == k \div NUM
           m == Wrap \div NUM
           z == IF k <= j THEN x - y ELSE x - y + m
<1>2. x \in Int /\ j = NUM * x + (j % NUM) /\ y \in Int /\ k = NUM * y + (j % NUM) /\ j % NUM \in Int
  BY <1>1, DivMod DEF Index, Descs
<1>3. m \in Int /\ Wrap = NUM * m
  BY <1>1, DivMod
<1>4. (j - k) % Wrap = (IF k <= j THEN j - k ELSE j - k + Wrap)
  BY Turn
<1> HIDE DEF x, y, m
<1>5. (j - k) % Wrap = NUM * z /\ z \in Int
  <2>1. j - k = NUM * (x - y)
    BY <1>1, <1>2
  <2>2. j - k + Wrap = NUM * (x - y + m)
    BY <1>1, <1>3, <2>1, <1>2
  <2> QED
    BY <1>2, <1>3, <1>4, <2>1, <2>2
<1>6. (j - k) % Wrap > 0
  BY <1>1, <1>4 DEF Index
<1> HIDE DEF z
<1>7. z >= 1
  BY <1>1, <1>5, <1>6
<1> QED
  BY <1>1, <1>5, <1>7

\* One more entry at the end.
LEMMA WindowPut ==
  ASSUME NEW a \in Index, NEW b \in Index, (b - a) % Wrap < NUM
  PROVE  /\ Window(a, (b + 1) % Wrap) = Window(a, b) \union {b}
         /\ \A k \in Window(a, b) : k \in Index /\ k # b /\ k % NUM # b % NUM
         /\ (((b + 1) % Wrap) - a) % Wrap <= NUM
<1>1. NUM \in Nat /\ Wrap \in Nat /\ Wrap > NUM
  BY VirtioAssumption
<1> DEFINE c == (b + 1) % Wrap
<1>2. c \in Index /\ c = (IF b = Wrap - 1 THEN 0 ELSE b + 1)
  BY Turn
<1> HIDE DEF c
<1>3. (b - a) % Wrap = (IF a <= b THEN b - a ELSE b - a + Wrap)
  BY Turn
<1>4. (c - a) % Wrap = (IF a <= c THEN c - a ELSE c - a + Wrap)
  BY <1>2, Turn
<1>5. (c - a) % Wrap = ((b - a) % Wrap) + 1
  BY <1>1, <1>2, <1>3, <1>4 DEF Index
<1>6. ASSUME NEW k \in Index PROVE /\ (k - a) % Wrap < (c - a) % Wrap <=> (k - a) % Wrap < (b - a) % Wrap \/ k = b
                                   /\ (k - a) % Wrap < (b - a) % Wrap => (b - k) % Wrap < NUM /\ k # b
  <2>1. (k - a) % Wrap = (IF a <= k THEN k - a ELSE k - a + Wrap)
    BY Turn
  <2>2. (b - k) % Wrap = (IF k <= b THEN b - k ELSE b - k + Wrap)
    BY Turn
  <2> QED
    BY <1>1, <1>3, <1>5, <2>1, <2>2 DEF Index
<1>7. ASSUME NEW k \in Window(a, b) PROVE k \in Index /\ k # b /\ k % NUM # b % NUM
  <2>1. k \in Index /\ (b - k) % Wrap < NUM /\ k # b
    BY <1>6 DEF Window, Index
  <2>2. (b - k) % Wrap \in Nat
    BY <2>1, Turn
  <2> QED
    BY <1>1, <2>1, <2>2, SlotsApart
<1>8. Window(a, c) = Window(a, b) \union {b}
  BY <1>6, ZenonT(60) DEF Window, Index
<1>9. (c - a) % Wrap <= NUM
  BY <1>1, <1>3, <1>5 DEF Index
<1> QED
  BY <1>7, <1>8, <1>9 DEF c

\* One entry less at the front.
LEMMA WindowTake ==
  ASSUME NEW a \in Index, NEW b \in Index, a # b, (b - a) % Wrap <= NUM
  PROVE  /\ Window((a + 1) % Wrap, b) = Window(a, b) \ {a}
         /\ a \in Window(a, b)
         /\ \A k \in Window(a, b) : k \in Index /\ (k # a => k % NUM # a % NUM)
         /\ (b - a) % Wrap < NUM => b % NUM # a % NUM
         /\ (b - ((a + 1) % Wrap)) % Wrap < (b - a) % Wrap
<1>1. NUM \in Nat /\ Wrap \in Nat /\ Wrap > NUM
  BY VirtioAssumption
<1> DEFINE c == (a + 1) % Wrap
<1>2. c \in Index /\ c = (IF a = Wrap - 1 THEN 0 ELSE a + 1)
  BY Turn
<1> HIDE DEF c
<1>3. (b - a) % Wrap = (IF a <= b THEN b - a ELSE b - a + Wrap)
  BY Turn
<1>4. (b - c) % Wrap = (IF c <= b THEN b - c ELSE b - c + Wrap)
  BY <1>2, Turn
<1>5. (b - c) % Wrap = ((b - a) % Wrap) - 1
  BY <1>1, <1>2, <1>3, <1>4 DEF Index
<1>6. ASSUME NEW k \in Index PROVE (k - c) % Wrap < (b - c) % Wrap <=> (k - a) % Wrap < (b - a) % Wrap /\ k # a
  <2>1. (k - a) % Wrap = (IF a <= k THEN k - a ELSE k - a + Wrap)
    BY Turn
  <2>2. (k - c) % Wrap = (IF c <= k THEN k - c ELSE k - c + Wrap)
    BY <1>2, Turn
  <2> QED
    BY <1>1, <1>2, <1>3, <1>5, <2>1, <2>2 DEF Index
<1>7. ASSUME NEW k \in Window(a, b), k # a PROVE k % NUM # a % NUM
  <2>1. k \in Index /\ (k - a) % Wrap < (b - a) % Wrap
    BY ZenonT(60) DEF Window, Index
  <2>2. (k - a) % Wrap \in Nat /\ (b - a) % Wrap \in Nat
    BY <2>1, Turn
  <2> QED
    BY <1>1, <1>7, <2>1, <2>2, SlotsApart
<1>8. (b - a) % Wrap < NUM => b % NUM # a % NUM
  <2>1. (b - a) % Wrap \in Nat
    BY Turn
  <2> QED
    BY <1>1, <2>1, SlotsApart
<1>9. a \in Window(a, b)
  <2>1. (a - a) % Wrap = 0
    BY <1>1, Turn DEF Index
  <2> QED
    BY <1>1, <1>3, <2>1 DEF Window, Index
<1>10. Window(c, b) = Window(a, b) \ {a}
  BY <1>6, ZenonT(60) DEF Window, Index
<1>11. \A k \in Window(a, b) : k \in Index
  BY ZenonT(60) DEF Window, Index
<1>12. (b - c) % Wrap < (b - a) % Wrap
  BY <1>1, <1>3, <1>5 DEF Index
<1> QED
  BY <1>7, <1>8, <1>9, <1>10, <1>11, <1>12 DEF c

\* A write to one slot of a ring.
Stored(ring, ring2, i, x) == \A d \in Descs : ring2[d] = IF d = i THEN x ELSE ring[d]

\* An entry x is put behind the last one, first its slot, then the index.
LEMMA RingPut ==
  ASSUME NEW ring, NEW a \in Index, NEW b \in Index, Proper(ring, a, b), (b - a) % Wrap < NUM,
         NEW x, x \notin Entries(ring, a, b),
         NEW ring2, Stored(ring, ring2, b % NUM, x)
  PROVE  /\ Proper(ring2, a, b) /\ Entries(ring2, a, b) = Entries(ring, a, b)
         /\ Proper(ring2, a, (b + 1) % Wrap)
         /\ Entries(ring2, a, (b + 1) % Wrap) = Entries(ring, a, b) \union {x}
<1> DEFINE W == Window(a, b)
           V == Window(a, (b + 1) % Wrap)
<1>1. V = W \union {b}
  BY WindowPut, ZenonT(60)
<1>2. \A k \in W : k \in Index /\ k # b /\ k % NUM # b % NUM
  BY WindowPut, ZenonT(60)
<1>3. (((b + 1) % Wrap) - a) % Wrap <= NUM
  BY WindowPut, ZenonT(60)
<1>4. \A k \in Index : k % NUM \in Descs
  BY DivMod DEF Index
<1>5. \A k \in W : ring2[k % NUM] = ring[k % NUM]
  BY <1>2, <1>4, ZenonT(60) DEF Stored
<1>6. ring2[b % NUM] = x
  BY <1>4, ZenonT(60) DEF Stored
<1>7. \A k \in W : ring[k % NUM] # x
  BY ZenonT(60) DEF Entries
<1>8. \A j, k \in W : j # k => ring[j % NUM] # ring[k % NUM]
  BY ZenonT(60) DEF Proper
<1> HIDE DEF W, V
<1>9. ASSUME NEW j \in V, NEW k \in V, j # k PROVE ring2[j % NUM] # ring2[k % NUM]
  <2>1. CASE j \in W /\ k \in W
    BY <1>5, <1>8, <1>9, <2>1, ZenonT(60)
  <2>2. CASE j \in W /\ k = b
    BY <1>5, <1>6, <1>7, <2>2, ZenonT(60)
  <2>3. CASE k \in W /\ j = b
    BY <1>5, <1>6, <1>7, <2>3, ZenonT(60)
  <2> QED
    BY <1>1, <1>9, <2>1, <2>2, <2>3, ZenonT(60)
<1>10. {ring2[k % NUM] : k \in V} = {ring[k % NUM] : k \in W} \union {x}
  BY <1>1, <1>5, <1>6, ZenonT(60)
<1>11. {ring2[k % NUM] : k \in W} = {ring[k % NUM] : k \in W}
  BY <1>5, ZenonT(60)
<1>12. Proper(ring2, a, b)
  BY <1>5, <1>8, ZenonT(60) DEF Proper, W
<1> QED
  BY <1>3, <1>9, <1>10, <1>11, <1>12, ZenonT(60) DEF Proper, Entries, V, W

\* The first entry is taken out, and its slot is cleared.
LEMMA RingTake ==
  ASSUME NEW ring, NEW a \in Index, NEW b \in Index, a # b, Proper(ring, a, b),
         NEW y, NEW ring2, Stored(ring, ring2, a % NUM, y)
  PROVE  /\ ring[a % NUM] \in Entries(ring, a, b)
         /\ Proper(ring2, (a + 1) % Wrap, b)
         /\ Entries(ring2, (a + 1) % Wrap, b) = Entries(ring, a, b) \ {ring[a % NUM]}
         /\ (b - a) % Wrap < NUM => /\ (b - ((a + 1) % Wrap)) % Wrap < NUM
                                    /\ ring2[b % NUM] = ring[b % NUM]
<1> DEFINE W == Window(a, b)
           c == (a + 1) % Wrap
           V == Window(c, b)
<1>0. (b - a) % Wrap <= NUM
  BY ZenonT(60) DEF Proper
<1>1. V = W \ {a} /\ a \in W
  BY <1>0, WindowTake, ZenonT(60)
<1>2. \A k \in W : k \in Index /\ (k # a => k % NUM # a % NUM)
  BY <1>0, WindowTake, ZenonT(60)
<1>3. (b - a) % Wrap < NUM => b % NUM # a % NUM
  BY <1>0, WindowTake, ZenonT(60)
<1>4. (b - c) % Wrap < (b - a) % Wrap
  BY <1>0, WindowTake, ZenonT(60)
<1>5. \A k \in Index : k % NUM \in Descs
  BY DivMod DEF Index
<1>6. (b - c) % Wrap <= NUM /\ ((b - a) % Wrap < NUM => (b - c) % Wrap < NUM)
  <2>1. (b - a) % Wrap \in Nat /\ (b - c) % Wrap \in Nat /\ NUM \in Nat
    BY Turn, VirtioAssumption
  <2> HIDE DEF c
  <2> QED
    BY <1>0, <1>4, <2>1
<1>7. \A k \in V : ring2[k % NUM] = ring[k % NUM]
  BY <1>1, <1>2, <1>5, ZenonT(60) DEF Stored
<1>8. \A j, k \in W : j # k => ring[j % NUM] # ring[k % NUM]
  BY ZenonT(60) DEF Proper
<1> HIDE DEF W, V, c
<1>9. \A j, k \in V : j # k => ring2[j % NUM] # ring2[k % NUM]
  BY <1>1, <1>7, <1>8, ZenonT(60)
<1>10. {ring2[k % NUM] : k \in V} = {ring[k % NUM] : k \in W} \ {ring[a % NUM]}
  <2>1. ASSUME NEW v \in {ring2[k % NUM] : k \in V} PROVE v \in {ring[k % NUM] : k \in W} \ {ring[a % NUM]}
    BY <1>1, <1>7, <1>8, ZenonT(60)
  <2>2. ASSUME NEW v \in {ring[k % NUM] : k \in W} \ {ring[a % NUM]} PROVE v \in {ring2[k % NUM] : k \in V}
    BY <1>1, <1>7, ZenonT(60)
  <2> QED
    BY <2>1, <2>2, ZenonT(60)
<1>11. ring[a % NUM] \in {ring[k % NUM] : k \in W}
  BY <1>1, ZenonT(60)
<1>12. (b - a) % Wrap < NUM => ring2[b % NUM] = ring[b % NUM]
  BY <1>3, <1>5, ZenonT(60) DEF Stored
<1> QED
  BY <1>6, <1>9, <1>10, <1>11, <1>12, ZenonT(60) DEF Proper, Entries, V, W, c

\* A ring without the descriptor x has room: its entries are different and are
\* descriptors.
LEMMA RingRoom ==
  ASSUME NEW ring \in [Descs -> Descs], NEW a \in Index, NEW b \in Index, Proper(ring, a, b),
         NEW x \in Descs, x \notin Entries(ring, a, b)
  PROVE  (b - a) % Wrap < NUM
<1>1. NUM \in Nat /\ NUM > 0 /\ Wrap \in Nat /\ Wrap > NUM
  BY VirtioAssumption
<1>2. SUFFICES ASSUME (b - a) % Wrap = NUM PROVE FALSE
  <2>1. (b - a) % Wrap \in Nat
    BY Turn, ZenonT(60)
  <2>2. (b - a) % Wrap <= NUM
    BY ZenonT(60) DEF Proper
  <2> QED
    BY <1>1, <2>1, <2>2
<1> DEFINE at(j) == IF a + j < Wrap THEN a + j ELSE a + j - Wrap
           f == [j \in Descs |-> ring[at(j) % NUM]]
           T == Descs \ {x}
<1>3. ASSUME NEW j \in Descs PROVE at(j) \in Window(a, b)
  <2>1. at(j) \in Index
    BY <1>1, SMTT(60) DEF Index, Descs
  <2>2. (at(j) - a) % Wrap = (IF a <= at(j) THEN at(j) - a ELSE at(j) - a + Wrap)
    BY <2>1, Turn
  <2>3. (at(j) - a) % Wrap < NUM
    <3>1. a <= at(j) => at(j) - a = j
      BY <1>1 DEF Index, Descs
    <3>2. ~(a <= at(j)) => at(j) - a + Wrap = j
      BY <1>1 DEF Index, Descs
    <3>3. j < NUM
      BY <1>1 DEF Descs
    <3> HIDE DEF at
    <3> QED
      BY <2>2, <3>1, <3>2, <3>3, ZenonT(60)
  <2> HIDE DEF at
  <2> QED
    BY <1>2, <2>1, <2>3, ZenonT(60) DEF Window, Index
<1>4. ASSUME NEW j \in Descs, NEW k \in Descs, j # k PROVE at(j) # at(k)
  BY <1>1, <1>4, SMTT(60) DEF Index, Descs
<1>5. \A k \in Window(a, b) : k % NUM \in Descs
  BY DivMod DEF Window
<1> HIDE DEF at
<1>6. f \in [Descs -> T]
  <2> SUFFICES ASSUME NEW j \in Descs PROVE ring[at(j) % NUM] \in Descs \ {x}
    BY ZenonT(60)
  <2>1. at(j) \in Window(a, b) /\ at(j) % NUM \in Descs
    BY <1>3, <1>5, ZenonT(60)
  <2> QED
    BY <2>1, ZenonT(60) DEF Entries
<1>7. \A j, k \in Descs : j # k => f[j] # f[k]
  BY <1>3, <1>4, ZenonT(60) DEF Proper
<1> HIDE DEF f
<1>8. IsFiniteSet(Descs) /\ Cardinality(Descs) = NUM
  BY <1>1, FS_Interval DEF Descs
<1>9. IsFiniteSet(T) /\ Cardinality(T) < Cardinality(Descs)
  <2>1. IsFiniteSet(T) /\ Cardinality(T) = NUM - 1
    BY <1>8, FS_RemoveElement, ZenonT(60)
  <2> QED
    BY <1>1, <1>8, <2>1
<1> HIDE DEF T
<1>10. \E j, k \in Descs : j # k /\ f[j] = f[k]
  BY <1>6, <1>8, <1>9, FS_PigeonHole, ZenonT(60)
<1> QED
  BY <1>7, <1>10, ZenonT(60)

-----------------------------------------------------------------------------
\* alloc_desc() finds a descriptor when there is one.
LEMMA Allocates ==
  ASSUME NEW S \in SUBSET Descs, S # {}
  PROVE  alloc_desc(S) \in S
<1>1. Descs \subseteq Nat
  BY VirtioAssumption DEF Descs
<1>2. PICK d \in S : \A e \in S : ~(<<e, d>> \in OpToRel(<, Nat))
  BY <1>1, NatLessThanWellFounded, WFMin
<1>3. ASSUME NEW e \in S PROVE d <= e
  <2>1. ~(e < d) /\ e \in Nat /\ d \in Nat
    BY <1>1, <1>2 DEF OpToRel
  <2> QED
    BY <2>1
<1> QED
  BY <1>3, ZenonT(60) DEF alloc_desc

\* The three descriptors that alloc3_desc() takes.
LEMMA Picks ==
  ASSUME free \subseteq Descs, Cardinality(free) >= 3
  PROVE  /\ First \in free /\ Second \in free /\ Third \in free
         /\ First # Second /\ First # Third /\ Second # Third
<1>1. IsFiniteSet(free) /\ Cardinality(free) \in Nat
  <2>1. IsFiniteSet(Descs)
    BY VirtioAssumption, FS_Interval DEF Descs
  <2> QED
    BY <2>1, FS_Subset, FS_CardinalityType, ZenonT(60)
<1>2. Cardinality({}) = 0
  BY FS_EmptySet, ZenonT(60)
<1>3. First \in free
  <2>1. free # {}
    BY <1>1, <1>2
  <2> QED
    BY <2>1, Allocates, ZenonT(60) DEF First
<1>4. IsFiniteSet(free \ {First}) /\ Cardinality(free \ {First}) = Cardinality(free) - 1
  BY <1>1, <1>3, FS_RemoveElement, ZenonT(60)
<1>5. Second \in free \ {First}
  <2>1. free \ {First} # {}
    BY <1>1, <1>2, <1>4
  <2> QED
    BY <2>1, Allocates, ZenonT(60) DEF Second
<1>6. Cardinality((free \ {First}) \ {Second}) = Cardinality(free) - 1 - 1
  BY <1>4, <1>5, FS_RemoveElement, ZenonT(60)
<1>7. Third \in free \ {First, Second}
  <2>1. (free \ {First}) \ {Second} # {}
    <3> SUFFICES ASSUME (free \ {First}) \ {Second} = {} PROVE FALSE
      BY ZenonT(60)
    <3>1. Cardinality({}) = Cardinality(free) - 1 - 1
      BY <1>6, ZenonT(60)
    <3> QED
      BY <1>1, <1>2, <3>1
  <2>2. (free \ {First}) \ {Second} = free \ {First, Second}
    BY ZenonT(60)
  <2>3. free \ {First, Second} # {}
    BY <2>1, <2>2, ZenonT(60)
  <2> QED
    BY <2>3, Allocates, ZenonT(60) DEF Third
<1> QED
  BY <1>3, <1>5, <1>7, ZenonT(60)

\* What free_chain() visits is the chain of the request.
LEMMA ChainIs ==
  ASSUME Chains, NEW p \in Active
  PROVE  /\ Chain(idx0[p]) = {idx0[p], next[idx0[p]], next[next[idx0[p]]]}
         /\ Buffer(idx0[p]) = p
<1>1. NUM \notin Descs
  BY VirtioAssumption DEF Descs
<1> DEFINE d == idx0[p]
<1>2. next[d] # NUM /\ next[next[d]] # NUM /\ addr[next[d]] = p
  BY <1>1, ZenonT(60) DEF Chains, Built
<1> HIDE DEF d
<1>3. Chain(d) = {d} \union ({next[d]} \union {next[next[d]]})
  BY <1>2, ZenonT(60) DEF Chain
<1>4. Buffer(d) = p
  BY <1>2, ZenonT(60) DEF Buffer
<1> QED
  BY <1>3, <1>4, ZenonT(60) DEF d

\* Requests have different first descriptors, which are not free.
LEMMA Heads ==
  ASSUME Chains, Apart
  PROVE  /\ \A p, q \in Active : idx0[p] = idx0[q] => p = q
         /\ \A p \in Active : idx0[p] \notin free
<1>1. \A p \in Active : idx0[p] \in Chain(idx0[p])
  BY ZenonT(60) DEF Chain
<1>2. \A p \in Active : idx0[p] \notin free
  BY ZenonT(60) DEF Chains, Built
<1> QED
  BY <1>1, <1>2, ZenonT(60) DEF Apart

\* A step that leaves the descriptors of a request alone.
LEMMA ChainKept ==
  ASSUME Chains, NEW q \in Active, idx0'[q] = idx0[q],
         \A d \in Chain(idx0[q]) : /\ next'[d] = next[d] /\ addr'[d] = addr[d] /\ infob'[d] = infob[d]
                                   /\ d \notin free'
  PROVE  Built(q)' /\ Chain(idx0[q])' = Chain(idx0[q])
<1> DEFINE d == idx0[q]
           e == next[d]
           f == next[e]
<1>1. Chain(idx0[q]) = {d, e, f}
  BY ChainIs, ZenonT(60)
<1>2. /\ e \in Descs /\ f \in Descs /\ next[f] = NUM /\ e # d /\ f # d /\ f # e /\ addr[e] = q /\ infob[d] = q
  BY ZenonT(60) DEF Chains, Built
<1>3. /\ idx0'[q] = d /\ next'[d] = e /\ next'[e] = f /\ next'[f] = NUM /\ addr'[e] = q /\ infob'[d] = q
      /\ d \notin free' /\ e \notin free' /\ f \notin free'
  BY <1>1, <1>2, ZenonT(60)
<1>4. NUM \notin Descs
  BY VirtioAssumption DEF Descs
<1> HIDE DEF d, e, f
<1>5. Built(q)'
  BY <1>2, <1>3, ZenonT(60) DEF Built
<1>6. e # NUM /\ f # NUM
  BY <1>2, <1>4, ZenonT(60)
<1>7. Chain(idx0[q])' = {d} \union ({e} \union {f})
  BY <1>3, <1>6, ZenonT(60) DEF Chain
<1> QED
  BY <1>1, <1>5, <1>7, ZenonT(60)

\* A step that only moves processes between places that are alike.
LEMMA Quiet ==
  ASSUME Chains, Apart, Rings, Stages,
         UNCHANGED <<free, next, addr, infob, bdisk, used_idx, status, avail, availidx, used, usedidx,
                     fetched, working, done, idx0>>,
         \A p \in Procs : /\ pc'[p] = "notify" <=> pc[p] = "notify"
                          /\ pc'[p] \in {"wait", "test"} <=> pc[p] \in {"wait", "test"}
                          /\ pc'[p] \in {"idle", "alloc", "nodesc"} => pc[p] \in {"idle", "alloc", "nodesc"}
  PROVE  Chains' /\ Apart' /\ Rings' /\ Stages'
<1>1. Active' = Active
  BY ZenonT(60) DEF Active
<1>2. Chains'
  BY <1>1, ZenonT(60) DEF Chains, Built
<1>3. Apart'
  <2>1. \A d : Chain(d)' = Chain(d)
    BY ZenonT(60) DEF Chain
  <2> QED
    BY <1>1, <2>1, ZenonT(60) DEF Apart
<1>4. Offered' = Offered /\ Finished' = Finished /\ InFlight' = InFlight
  BY ZenonT(60) DEF Offered, Finished, InFlight
<1>5. Rings'
  BY <1>4, ZenonT(60) DEF Rings
<1>6. \A p \in Procs : \A d, n : Waits(p, d, n) => Waits(p, d, n)'
  BY ZenonT(60) DEF Waits
<1>7. Stages'
  <2>1. \A d \in InFlight' : \E p \in Procs : Waits(p, d, 0)'
    BY <1>4, <1>6, ZenonT(60) DEF Stages
  <2>2. \A d \in Finished' : status'[d] = 0 /\ \E p \in Procs : Waits(p, d, 1)'
    BY <1>4, <1>6, ZenonT(60) DEF Stages
  <2>3. ASSUME NEW p \in Procs
        PROVE  /\ pc'[p] \in {"idle", "alloc", "nodesc"} => done'[p] = 0
               /\ pc'[p] = "notify" => bdisk'[p] = 1 /\ done'[p] = 0
               /\ pc'[p] \in {"wait", "test"} /\ bdisk'[p] = 0 => done'[p] = 1
    BY ZenonT(60) DEF Stages
  <2> QED
    BY <2>1, <2>2, <2>3, ZenonT(60) DEF Stages
<1> QED
  BY <1>2, <1>3, <1>5, <1>7, ZenonT(60)

-----------------------------------------------------------------------------
\* The steps that change the state of a request, one lemma each.  virtio_disk_rw()
\* fills in a chain and the entry of the avail ring.
LEMMA AllocStep ==
  ASSUME IInv, NEW p \in Procs, alloc3_desc(p)
  PROVE  Chains' /\ Apart' /\ Rings' /\ Stages'
<1>0. TypeOK /\ Locked /\ Chains /\ Apart /\ Rings /\ Stages
  BY ZenonT(60) DEF IInv
<1>1. /\ First \in free /\ Second \in free /\ Third \in free
      /\ First # Second /\ First # Third /\ Second # Third
  BY <1>0, Picks, ZenonT(60) DEF TypeOK, alloc3_desc
<1>2. free \subseteq Descs /\ availidx \in Index /\ fetched \in Index /\ avail \in [Descs -> Descs]
  BY <1>0, ZenonT(60) DEF TypeOK, Index
<1> DEFINE F == First
           S == Second
           T == Third
<1>3. /\ free' = free \ {F, S, T}
      /\ next' = [next EXCEPT ![F] = S, ![S] = T, ![T] = NUM]
      /\ addr' = [addr EXCEPT ![S] = p]
      /\ status' = [status EXCEPT ![F] = 255]
      /\ bdisk' = [bdisk EXCEPT ![p] = 1]
      /\ infob' = [infob EXCEPT ![F] = p]
      /\ idx0' = [idx0 EXCEPT ![p] = F]
      /\ avail' = [avail EXCEPT ![availidx % NUM] = F]
      /\ pc' = [pc EXCEPT ![p] = "notify"]
  BY ZenonT(60) DEF alloc3_desc, Taken, Goto
<1>4. pc[p] = "alloc" /\ UNCHANGED <<used_idx, availidx, used, usedidx, fetched, working, done>>
  BY ZenonT(60) DEF alloc3_desc, device
<1> HIDE DEF F, S, T
<1>5. /\ F \in free /\ S \in free /\ T \in free /\ F # S /\ F # T /\ S # T
      /\ F \in Descs /\ S \in Descs /\ T \in Descs
  BY <1>1, <1>2, ZenonT(60) DEF F, S, T
<1>6. \A q \in Procs : pc'[q] = (IF q = p THEN "notify" ELSE pc[q]) /\ bdisk'[q] = (IF q = p THEN 1 ELSE bdisk[q])
                       /\ idx0'[q] = (IF q = p THEN F ELSE idx0[q])
  BY <1>0, <1>3, ZenonT(60) DEF TypeOK
<1>7. \A d \in Descs : d \notin free => /\ next'[d] = next[d] /\ addr'[d] = addr[d] /\ infob'[d] = infob[d]
                                        /\ status'[d] = status[d]
  <2>1. ASSUME NEW d \in Descs, d \notin free PROVE d # F /\ d # S /\ d # T
    BY <1>5, <2>1, ZenonT(60)
  <2>2. \A d \in Descs : d \notin free => next'[d] = next[d]
    <3>1. next \in [Descs -> 0..NUM] /\ next' = [next EXCEPT ![F] = S, ![S] = T, ![T] = NUM]
      BY <1>0, <1>3, ZenonT(60) DEF TypeOK
    <3> QED
      BY <2>1, <3>1, ZenonT(60)
  <2>3. \A d \in Descs : d \notin free => addr'[d] = addr[d] /\ infob'[d] = infob[d]
    <3>1. /\ addr \in [Descs -> Procs \union {NoProc}] /\ addr' = [addr EXCEPT ![S] = p]
          /\ infob \in [Descs -> Procs \union {NoProc}] /\ infob' = [infob EXCEPT ![F] = p]
      BY <1>0, <1>3, ZenonT(60) DEF TypeOK
    <3> QED
      BY <2>1, <3>1, ZenonT(60)
  <2>4. \A d \in Descs : d \notin free => status'[d] = status[d]
    <3>1. status \in [Descs -> {0, 255}] /\ status' = [status EXCEPT ![F] = 255]
      BY <1>0, <1>3, ZenonT(60) DEF TypeOK
    <3> QED
      BY <2>1, <3>1
  <2> QED
    BY <2>2, <2>3, <2>4, ZenonT(60)
<1>8. next'[F] = S /\ next'[S] = T /\ next'[T] = NUM /\ addr'[S] = p /\ infob'[F] = p
  BY <1>0, <1>3, <1>5, ZenonT(60) DEF TypeOK
<1>9. \A q \in Active : q # p
  BY <1>4, ZenonT(60) DEF Active
<1>10. Active' = Active \union {p}
  BY <1>6, ZenonT(60) DEF Active
<1>11. ASSUME NEW q \in Active
       PROVE  Built(q)' /\ Chain(idx0[q])' = Chain(idx0[q]) /\ Chain(idx0[q]) \intersect free = {}
  <2>1. q \in Procs /\ idx0[q] \in Descs
    BY <1>0, ZenonT(60) DEF Active, TypeOK
  <2>2. \A d \in Chain(idx0[q]) : d \in Descs /\ d \notin free
    <3>1. Chain(idx0[q]) = {idx0[q], next[idx0[q]], next[next[idx0[q]]]}
      BY <1>0, ChainIs, ZenonT(60)
    <3>2. /\ next[idx0[q]] \in Descs /\ next[next[idx0[q]]] \in Descs
          /\ idx0[q] \notin free /\ next[idx0[q]] \notin free /\ next[next[idx0[q]]] \notin free
      BY <1>0, ZenonT(60) DEF Chains, Built
    <3> QED
      BY <2>1, <3>1, <3>2, ZenonT(60)
  <2>3. \A d \in Chain(idx0[q]) : /\ next'[d] = next[d] /\ addr'[d] = addr[d] /\ infob'[d] = infob[d]
                                  /\ d \notin free'
    BY <1>3, <1>7, <2>2, ZenonT(60)
  <2>4. idx0'[q] = idx0[q]
    BY <1>6, <1>9, <2>1, ZenonT(60)
  <2> QED
    BY <1>0, <2>2, <2>3, <2>4, ChainKept, ZenonT(60)
<1>12. Chains'
  <2>1. idx0'[p] = F /\ F \notin free' /\ S \notin free' /\ T \notin free'
    BY <1>3, <1>6, ZenonT(60)
  <2>2. Built(p)'
    BY <1>5, <1>8, <2>1, ZenonT(60) DEF Built
  <2> QED
    BY <1>10, <1>11, <2>2, ZenonT(60) DEF Chains
<1>13. Apart'
  <2>1. Chain(idx0[p])' \subseteq free
    <3>1. idx0'[p] = F
      BY <1>6, ZenonT(60)
    <3> QED
      BY <1>5, <1>8, <3>1, ZenonT(60) DEF Chain
  <2>2. \A u, v \in Active : u # v => Chain(idx0[u])' \intersect Chain(idx0[v])' = {}
    BY <1>0, <1>11, ZenonT(60) DEF Apart
  <2>3. \A u \in Active : Chain(idx0[u])' \intersect Chain(idx0[p])' = {}
    BY <1>11, <2>1, ZenonT(60)
  <2>4. \A u \in Active : Chain(idx0[p])' \intersect Chain(idx0[u])' = {}
    BY <2>3, ZenonT(60)
  <2> QED
    BY <1>10, <2>2, <2>3, <2>4, ZenonT(60) DEF Apart
<1>14. \A d \in Offered \union working \union Finished : d \notin free
  <2>1. \A q \in Procs : \A d, n : Waits(q, d, n) => d \notin free
    BY <1>0, Heads, ZenonT(60) DEF Waits, Active
  <2> QED
    BY <1>0, <2>1, ZenonT(60) DEF Stages, InFlight
<1>15. F \notin Offered
  BY <1>5, <1>14, ZenonT(60)
<1>16. (availidx - fetched) % Wrap < NUM
  BY <1>0, <1>2, <1>5, <1>15, RingRoom, ZenonT(60) DEF Offered, Rings
<1>17. availidx % NUM \in Descs
  BY <1>2, DivMod DEF Index
<1>18. Stored(avail, avail', availidx % NUM, F)
  BY <1>2, <1>3, ZenonT(60) DEF Stored
<1>19. Proper(avail', fetched, availidx) /\ Entries(avail', fetched, availidx) = Offered
  <2>1. Proper(avail, fetched, availidx) /\ F \notin Entries(avail, fetched, availidx)
    BY <1>0, <1>15, ZenonT(60) DEF Offered, Rings
  <2>2. Proper(avail', fetched, availidx) /\ Entries(avail', fetched, availidx) = Entries(avail, fetched, availidx)
    BY <1>2, <1>16, <1>18, <2>1, RingPut
  <2> QED
    BY <2>2, ZenonT(60) DEF Offered
<1>20. Offered' = Offered /\ Finished' = Finished /\ InFlight' = InFlight
  BY <1>4, <1>19, ZenonT(60) DEF Offered, Finished, InFlight
<1>21. Rings'
  <2>1. Proper(avail, fetched, availidx)' /\ Proper(used, used_idx, usedidx)'
    BY <1>0, <1>4, <1>19, ZenonT(60) DEF Rings
  <2>2. Offered' \intersect working' = {}
    BY <1>0, <1>4, <1>20, ZenonT(60) DEF Rings
  <2>3. ASSUME NEW q \in Procs, pc'[q] = "notify" PROVE q = p
    BY <1>0, <1>4, <1>6, <2>3, ZenonT(60) DEF Locked
  <2>4. avail'[availidx % NUM] = idx0'[p]
    BY <1>6, <1>17, <1>18, ZenonT(60) DEF Stored
  <2> QED
    BY <1>4, <1>16, <2>1, <2>2, <2>3, <2>4, ZenonT(60) DEF Rings
<1>22. Stages'
  <2>1. \A q \in Procs : \A d, n : Waits(q, d, n) => Waits(q, d, n)'
    BY <1>4, <1>6, ZenonT(60) DEF Waits
  <2>2. \A d \in InFlight' : \E q \in Procs : Waits(q, d, 0)'
    BY <1>0, <1>20, <2>1, ZenonT(60) DEF Stages
  <2>3. \A d \in Finished' : \E q \in Procs : Waits(q, d, 1)'
    BY <1>0, <1>20, <2>1, ZenonT(60) DEF Stages
  <2>4. \A d \in Finished' : status'[d] = 0
    <3>1. \A q \in Procs : idx0[q] \in Descs
      BY <1>0, ZenonT(60) DEF TypeOK
    <3>2. \A d \in Finished : d \in Descs
      BY <1>0, <3>1, ZenonT(60) DEF Stages, Waits
    <3> QED
      BY <1>0, <1>7, <1>14, <1>20, <3>2, ZenonT(60) DEF Stages
  <2>5. ASSUME NEW q \in Procs
        PROVE  /\ pc'[q] \in {"idle", "alloc", "nodesc"} => done'[q] = 0
               /\ pc'[q] = "notify" => bdisk'[q] = 1 /\ done'[q] = 0
               /\ pc'[q] \in {"wait", "test"} /\ bdisk'[q] = 0 => done'[q] = 1
    BY <1>0, <1>4, <1>6, ZenonT(60) DEF Stages
  <2> QED
    BY <2>2, <2>3, <2>4, <2>5, ZenonT(60) DEF Stages
<1> QED
  BY <1>12, <1>13, <1>21, <1>22, ZenonT(60)

\* The new index shows the entry to the device.
LEMMA NotifyStep ==
  ASSUME IInv, NEW p \in Procs, notify(p)
  PROVE  Chains' /\ Apart' /\ Rings' /\ Stages'
<1>0. TypeOK /\ Locked /\ Chains /\ Apart /\ Rings /\ Stages
  BY ZenonT(60) DEF IInv
<1>1. /\ pc[p] = "notify" /\ availidx' = (availidx + 1) % Wrap /\ pc' = [pc EXCEPT ![p] = "wait"]
      /\ UNCHANGED <<free, next, addr, infob, bdisk, used_idx, status, avail, used, usedidx, fetched,
                     working, done, idx0>>
  BY ZenonT(60) DEF notify, Goto, driver, device
<1>2. availidx \in Index /\ fetched \in Index
  BY <1>0, ZenonT(60) DEF TypeOK, Index
<1>3. \A q \in Procs : pc'[q] = IF q = p THEN "wait" ELSE pc[q]
  BY <1>0, <1>1, ZenonT(60) DEF TypeOK
<1>4. Active' = Active /\ p \in Active
  BY <1>1, <1>3, ZenonT(60) DEF Active
<1>5. Chains'
  BY <1>0, <1>1, <1>4, ZenonT(60) DEF Chains, Built
<1>6. Apart'
  <2>1. \A d : Chain(d)' = Chain(d)
    BY <1>1, ZenonT(60) DEF Chain
  <2> QED
    BY <1>0, <1>1, <1>4, <2>1, ZenonT(60) DEF Apart
<1>7. \A q \in Procs : \A d, n : Waits(q, d, n) => q # p /\ d # idx0[p] /\ Waits(q, d, n)'
  <2>1. \A q \in Procs : \A d, n : Waits(q, d, n) => q # p /\ q \in Active /\ d = idx0[q]
    BY <1>1, ZenonT(60) DEF Waits, Active
  <2>2. \A q \in Procs : \A d, n : Waits(q, d, n) => Waits(q, d, n)'
    BY <1>1, <1>3, ZenonT(60) DEF Waits
  <2> QED
    BY <1>0, <1>4, <2>1, <2>2, Heads, ZenonT(60)
<1>8. idx0[p] \notin InFlight /\ idx0[p] \notin Offered /\ idx0[p] \notin working
  BY <1>0, <1>7, ZenonT(60) DEF Stages, InFlight
<1>9. (availidx - fetched) % Wrap < NUM /\ avail[availidx % NUM] = idx0[p]
  BY <1>0, <1>1, ZenonT(60) DEF Rings
<1>10. Stored(avail, avail, availidx % NUM, idx0[p])
  BY <1>9, ZenonT(60) DEF Stored
<1>11. /\ Proper(avail, fetched, (availidx + 1) % Wrap)
       /\ Entries(avail, fetched, (availidx + 1) % Wrap) = Offered \union {idx0[p]}
  <2>1. Proper(avail, fetched, availidx) /\ idx0[p] \notin Entries(avail, fetched, availidx)
    BY <1>0, <1>8, ZenonT(60) DEF Offered, Rings
  <2>2. /\ Proper(avail, fetched, (availidx + 1) % Wrap)
        /\ Entries(avail, fetched, (availidx + 1) % Wrap) = Entries(avail, fetched, availidx) \union {idx0[p]}
    BY <1>2, <1>9, <1>10, <2>1, RingPut
  <2> QED
    BY <2>2, ZenonT(60) DEF Offered
<1>12. Offered' = Offered \union {idx0[p]} /\ Finished' = Finished /\ InFlight' = InFlight \union {idx0[p]}
  BY <1>1, <1>11, ZenonT(60) DEF Offered, Finished, InFlight
<1>13. Rings'
  <2>1. Proper(avail, fetched, availidx)' /\ Proper(used, used_idx, usedidx)'
    BY <1>0, <1>1, <1>11, ZenonT(60) DEF Rings
  <2>2. Offered' \intersect working' = {}
    BY <1>0, <1>1, <1>8, <1>12, ZenonT(60) DEF Rings
  <2>3. ASSUME NEW q \in Procs, pc'[q] = "notify" PROVE FALSE
    <3>1. q # p /\ pc[q] = "notify"
      BY <1>3, <2>3
    <3> QED
      BY <1>0, <1>1, <3>1, ZenonT(60) DEF Locked
  <2> QED
    BY <2>1, <2>2, <2>3, ZenonT(60) DEF Rings
<1>14. Stages'
  <2>1. Waits(p, idx0[p], 0)'
    BY <1>0, <1>1, <1>3, ZenonT(60) DEF Stages, Waits
  <2>2. \A d \in InFlight' : \E q \in Procs : Waits(q, d, 0)'
    BY <1>0, <1>1, <1>7, <1>12, <2>1, ZenonT(60) DEF Stages
  <2>3. \A d \in Finished' : status'[d] = 0 /\ \E q \in Procs : Waits(q, d, 1)'
    BY <1>0, <1>1, <1>7, <1>12, ZenonT(60) DEF Stages
  <2>4. ASSUME NEW q \in Procs
        PROVE  /\ pc'[q] \in {"idle", "alloc", "nodesc"} => done'[q] = 0
               /\ pc'[q] = "notify" => bdisk'[q] = 1 /\ done'[q] = 0
               /\ pc'[q] \in {"wait", "test"} /\ bdisk'[q] = 0 => done'[q] = 1
    <3>1. CASE q = p
      <4>1. bdisk'[p] = 1 /\ pc'[p] = "wait" /\ 1 # 0
        BY <1>0, <1>1, <1>3 DEF Stages
      <4> QED
        BY <3>1, <4>1, ZenonT(60)
    <3>2. CASE q # p
      BY <1>0, <1>1, <1>3, <3>2, ZenonT(60) DEF Stages
    <3> QED
      BY <3>1, <3>2
  <2> QED
    BY <2>2, <2>3, <2>4, ZenonT(60) DEF Stages
<1> QED
  BY <1>5, <1>6, <1>13, <1>14, ZenonT(60)

\* free_chain() gives back what only this request used.
LEMMA FreeStep ==
  ASSUME IInv, NEW p \in Procs, free_chain(p)
  PROVE  Chains' /\ Apart' /\ Rings' /\ Stages' /\ panicked' = 0
<1>0. TypeOK /\ Locked /\ Chains /\ Apart /\ Rings /\ Stages
  BY ZenonT(60) DEF IInv
<1> DEFINE C == Chain(idx0[p])
<1>1. /\ pc[p] = "test" /\ bdisk[p] = 0
      /\ infob' = [infob EXCEPT ![idx0[p]] = NoProc]
      /\ panicked' = (IF C \intersect free # {} THEN 1 ELSE 0)
      /\ free' = free \union C
      /\ next' = [d \in Descs |-> IF d \in C THEN NUM ELSE next[d]]
      /\ addr' = [d \in Descs |-> IF d \in C THEN NoProc ELSE addr[d]]
      /\ idx0' = [idx0 EXCEPT ![p] = 0]
      /\ done' = [done EXCEPT ![p] = 0]
      /\ pc' = [pc EXCEPT ![p] = "idle"]
  BY ZenonT(60) DEF free_chain, Complete, Goto
<1>2. UNCHANGED <<bdisk, used_idx, status, avail, availidx, used, usedidx, fetched, working>>
  BY ZenonT(60) DEF free_chain
<1>3. \A q \in Procs : /\ pc'[q] = (IF q = p THEN "idle" ELSE pc[q]) /\ done'[q] = (IF q = p THEN 0 ELSE done[q])
                       /\ idx0'[q] = (IF q = p THEN 0 ELSE idx0[q])
  BY <1>0, <1>1, ZenonT(60) DEF TypeOK
<1>4. p \in Active /\ idx0[p] \in Descs
  BY <1>0, <1>1, ZenonT(60) DEF Active, TypeOK
<1>5. Active' = Active \ {p}
  BY <1>3, ZenonT(60) DEF Active
<1>6. ASSUME NEW q \in Active PROVE \A d \in Chain(idx0[q]) : d \in Descs /\ d \notin free
  <2>0. idx0[q] \in Descs
    BY <1>0, ZenonT(60) DEF Active, TypeOK
  <2>1. Chain(idx0[q]) = {idx0[q], next[idx0[q]], next[next[idx0[q]]]}
    BY <1>0, ChainIs, ZenonT(60)
  <2>2. /\ next[idx0[q]] \in Descs /\ next[next[idx0[q]]] \in Descs
        /\ idx0[q] \notin free /\ next[idx0[q]] \notin free /\ next[next[idx0[q]]] \notin free
    BY <1>0, ZenonT(60) DEF Chains, Built
  <2> QED
    BY <2>0, <2>1, <2>2, ZenonT(60)
<1>7. idx0[p] \in C
  BY ZenonT(60) DEF Chain
<1>8. panicked' = 0
  <2>1. C \intersect free = {}
    BY <1>4, <1>6, ZenonT(60)
  <2> QED
    BY <1>1, <2>1, ZenonT(60)
<1>9. ASSUME NEW q \in Active, q # p PROVE Built(q)' /\ Chain(idx0[q])' = Chain(idx0[q])
  <2>1. Chain(idx0[q]) \intersect C = {}
    BY <1>0, <1>4, <1>9, ZenonT(60) DEF Apart
  <2> HIDE DEF C
  <2>2. \A d \in Descs : d \notin C => next'[d] = next[d] /\ addr'[d] = addr[d]
    BY <1>1, ZenonT(60)
  <2>3. \A d \in Descs : d \notin C => infob'[d] = infob[d]
    BY <1>0, <1>1, <1>7, ZenonT(60) DEF TypeOK
  <2>4. \A d \in Chain(idx0[q]) : /\ next'[d] = next[d] /\ addr'[d] = addr[d] /\ infob'[d] = infob[d]
                                  /\ d \notin free'
    BY <1>1, <1>6, <2>1, <2>2, <2>3, ZenonT(60)
  <2>5. idx0'[q] = idx0[q]
    BY <1>3, <1>9, ZenonT(60) DEF Active
  <2> QED
    BY <1>0, <2>4, <2>5, ChainKept, ZenonT(60)
<1>10. Chains'
  BY <1>5, <1>9, ZenonT(60) DEF Chains
<1>11. Apart'
  <2>1. \A u, v \in Active \ {p} : u # v => Chain(idx0[u])' \intersect Chain(idx0[v])' = {}
    BY <1>0, <1>9, ZenonT(60) DEF Apart
  <2> QED
    BY <1>5, <2>1, ZenonT(60) DEF Apart
<1>12. Offered' = Offered /\ Finished' = Finished /\ InFlight' = InFlight
  BY <1>2, ZenonT(60) DEF Offered, Finished, InFlight
<1>13. Rings'
  <2>1. Proper(avail, fetched, availidx)' /\ Proper(used, used_idx, usedidx)' /\ Offered' \intersect working' = {}
    BY <1>0, <1>2, <1>12, ZenonT(60) DEF Rings
  <2>2. ASSUME NEW q \in Procs, pc'[q] = "notify" PROVE q # p /\ pc[q] = "notify" /\ idx0'[q] = idx0[q]
    BY <1>3, <2>2
  <2> QED
    BY <1>0, <1>2, <2>1, <2>2, ZenonT(60) DEF Rings
<1>14. Stages'
  <2>1. \A q \in Procs : \A d, n : Waits(q, d, n) => q # p
    <3>1. bdisk[p] # 1
      BY <1>1
    <3> QED
      BY <3>1, ZenonT(60) DEF Waits
  <2>2. \A q \in Procs : \A d, n : Waits(q, d, n) => Waits(q, d, n)'
    BY <1>2, <1>3, <2>1, ZenonT(60) DEF Waits
  <2>3. \A d \in InFlight' : \E q \in Procs : Waits(q, d, 0)'
    BY <1>0, <1>12, <2>2, ZenonT(60) DEF Stages
  <2>4. \A d \in Finished' : status'[d] = 0 /\ \E q \in Procs : Waits(q, d, 1)'
    BY <1>0, <1>2, <1>12, <2>2, ZenonT(60) DEF Stages
  <2>5. ASSUME NEW q \in Procs
        PROVE  /\ pc'[q] \in {"idle", "alloc", "nodesc"} => done'[q] = 0
               /\ pc'[q] = "notify" => bdisk'[q] = 1 /\ done'[q] = 0
               /\ pc'[q] \in {"wait", "test"} /\ bdisk'[q] = 0 => done'[q] = 1
    BY <1>0, <1>2, <1>3, ZenonT(60) DEF Stages
  <2> QED
    BY <2>3, <2>4, <2>5, ZenonT(60) DEF Stages
<1> QED
  BY <1>8, <1>10, <1>11, <1>13, <1>14, ZenonT(60)

\* virtio_disk_intr() clears b->disk of the process that waits for this entry.
LEMMA UsedStep ==
  ASSUME IInv, virtio_disk_intr_used
  PROVE  Chains' /\ Apart' /\ Rings' /\ Stages' /\ panicked' = 0
<1>0. TypeOK /\ Chains /\ Apart /\ Rings /\ Stages
  BY ZenonT(60) DEF IInv
<1> DEFINE e == Entry
<1>1. /\ panicked' = (IF status[e] # 0 \/ infob[e] = NoProc THEN 1 ELSE 0)
      /\ bdisk' = [q \in Procs |-> IF q = infob[e] THEN 0 ELSE bdisk[q]]
      /\ used_idx # usedidx
      /\ used_idx' = (used_idx + 1) % Wrap
      /\ used' = [used EXCEPT ![used_idx % NUM] = 0]
  BY ZenonT(60) DEF virtio_disk_intr_used, Seen
<1>2. UNCHANGED <<free, next, addr, infob, status, avail, availidx, usedidx, fetched, working, done, pc, idx0>>
  BY ZenonT(60) DEF virtio_disk_intr_used
<1>3. used_idx \in Index /\ usedidx \in Index /\ used \in [Descs -> Descs]
  BY <1>0, ZenonT(60) DEF TypeOK, Index
<1>4. Stored(used, used', used_idx % NUM, 0)
  BY <1>1, <1>3, ZenonT(60) DEF Stored
<1>5. Proper(used, used_idx, usedidx)
  BY <1>0, ZenonT(60) DEF Rings
<1>6. /\ e \in Entries(used, used_idx, usedidx)
      /\ Proper(used', (used_idx + 1) % Wrap, usedidx)
      /\ Entries(used', (used_idx + 1) % Wrap, usedidx) = Entries(used, used_idx, usedidx) \ {e}
  <2>1. used_idx # usedidx
    BY <1>1, ZenonT(60)
  <2>2. /\ used[used_idx % NUM] \in Entries(used, used_idx, usedidx)
        /\ Proper(used', (used_idx + 1) % Wrap, usedidx)
        /\ Entries(used', (used_idx + 1) % Wrap, usedidx) = Entries(used, used_idx, usedidx) \ {used[used_idx % NUM]}
    BY <1>3, <1>4, <1>5, <2>1, RingTake
  <2> QED
    BY <2>2, ZenonT(60) DEF Entry
<1>7. e \in Finished /\ Finished' = Finished \ {e} /\ Offered' = Offered /\ InFlight' = InFlight
  BY <1>1, <1>2, <1>6, ZenonT(60) DEF Finished, Offered, InFlight
<1> HIDE DEF e
<1>8. PICK p \in Procs : Waits(p, e, 1)
  BY <1>0, <1>7, ZenonT(60) DEF Stages
<1>9. p \in Active /\ idx0[p] = e /\ done[p] = 1
  BY <1>8, ZenonT(60) DEF Waits, Active
<1>10. infob[e] = p
  BY <1>0, <1>9, ZenonT(60) DEF Chains, Built
<1>11. panicked' = 0
  <2>1. status[e] = 0
    BY <1>0, <1>7, ZenonT(60) DEF Stages
  <2>2. infob[e] # NoProc
    BY <1>10, VirtioAssumption, ZenonT(60)
  <2> QED
    BY <1>1, <2>1, <2>2, ZenonT(60)
<1>12. \A q \in Procs : bdisk'[q] = IF q = p THEN 0 ELSE bdisk[q]
  BY <1>1, <1>10, ZenonT(60)
<1>13. Active' = Active
  BY <1>2, ZenonT(60) DEF Active
<1>14. Chains'
  BY <1>0, <1>2, <1>13, ZenonT(60) DEF Chains, Built
<1>15. Apart'
  <2>1. \A d : Chain(d)' = Chain(d)
    BY <1>2, ZenonT(60) DEF Chain
  <2> QED
    BY <1>0, <1>2, <1>13, <2>1, ZenonT(60) DEF Apart
<1>16. Rings'
  <2>1. Proper(avail, fetched, availidx)' /\ Proper(used, used_idx, usedidx)' /\ Offered' \intersect working' = {}
    BY <1>0, <1>1, <1>2, <1>6, <1>7, ZenonT(60) DEF Rings
  <2> QED
    BY <1>0, <1>2, <2>1, ZenonT(60) DEF Rings
<1>17. Stages'
  <2>1. \A q \in Procs : \A d, n : Waits(q, d, n) /\ q # p => Waits(q, d, n)'
    BY <1>2, <1>12, ZenonT(60) DEF Waits
  <2>2. \A q \in Procs : \A d : Waits(q, d, 0) => q # p
    <3>1. done[p] # 0
      BY <1>9
    <3> QED
      BY <3>1, ZenonT(60) DEF Waits
  <2>3. \A q \in Procs : \A d : Waits(q, d, 1) /\ d # e => q # p
    BY <1>9, ZenonT(60) DEF Waits
  <2>4. \A d \in InFlight' : \E q \in Procs : Waits(q, d, 0)'
    BY <1>0, <1>7, <2>1, <2>2, ZenonT(60) DEF Stages
  <2>5. \A d \in Finished' : status'[d] = 0 /\ \E q \in Procs : Waits(q, d, 1)'
    BY <1>0, <1>2, <1>7, <2>1, <2>3, ZenonT(60) DEF Stages
  <2>6. pc[p] \in {"wait", "test"}
    BY <1>8, ZenonT(60) DEF Waits
  <2>7. ASSUME NEW q \in Procs
        PROVE  /\ pc'[q] \in {"idle", "alloc", "nodesc"} => done'[q] = 0
               /\ pc'[q] = "notify" => bdisk'[q] = 1 /\ done'[q] = 0
               /\ pc'[q] \in {"wait", "test"} /\ bdisk'[q] = 0 => done'[q] = 1
    <3>1. CASE q = p
      BY <1>2, <1>9, <2>6, <3>1
    <3>2. CASE q # p
      BY <1>0, <1>2, <1>12, <3>2, ZenonT(60) DEF Stages
    <3> QED
      BY <3>1, <3>2, ZenonT(60)
  <2> QED
    BY <2>4, <2>5, <2>7, ZenonT(60) DEF Stages
<1> QED
  BY <1>11, <1>14, <1>15, <1>16, <1>17, ZenonT(60)

\* The device takes an entry out of the avail ring.
LEMMA FetchStep ==
  ASSUME IInv, device_fetch
  PROVE  Chains' /\ Apart' /\ Rings' /\ Stages'
<1>0. TypeOK /\ Chains /\ Apart /\ Rings /\ Stages
  BY ZenonT(60) DEF IInv
<1> DEFINE x == avail[fetched % NUM]
<1>1. /\ fetched # availidx /\ working' = working \union {x} /\ fetched' = (fetched + 1) % Wrap
      /\ avail' = [avail EXCEPT ![fetched % NUM] = 0]
  BY ZenonT(60) DEF device_fetch
<1>2. UNCHANGED <<free, next, addr, infob, bdisk, used_idx, status, availidx, used, usedidx, done, pc, idx0>>
  BY ZenonT(60) DEF device_fetch, driver
<1>3. fetched \in Index /\ availidx \in Index /\ avail \in [Descs -> Descs]
  BY <1>0, ZenonT(60) DEF TypeOK, Index
<1>4. Stored(avail, avail', fetched % NUM, 0)
  BY <1>1, <1>3, ZenonT(60) DEF Stored
<1>5. Proper(avail, fetched, availidx) /\ fetched # availidx
  BY <1>0, <1>1, ZenonT(60) DEF Rings
<1>6. /\ x \in Entries(avail, fetched, availidx)
      /\ Proper(avail', (fetched + 1) % Wrap, availidx)
      /\ Entries(avail', (fetched + 1) % Wrap, availidx) = Entries(avail, fetched, availidx) \ {x}
      /\ (availidx - fetched) % Wrap < NUM => /\ (availidx - ((fetched + 1) % Wrap)) % Wrap < NUM
                                              /\ avail'[availidx % NUM] = avail[availidx % NUM]
  BY <1>3, <1>4, <1>5, RingTake
<1>7. x \in Offered /\ Offered' = Offered \ {x} /\ Finished' = Finished
  BY <1>1, <1>2, <1>6, ZenonT(60) DEF Finished, Offered
<1> HIDE DEF x
<1>8. InFlight' = InFlight
  BY <1>1, <1>7, ZenonT(60) DEF InFlight
<1>9. Active' = Active
  BY <1>2, ZenonT(60) DEF Active
<1>10. Chains'
  BY <1>0, <1>2, <1>9, ZenonT(60) DEF Chains, Built
<1>11. Apart'
  <2>1. \A d : Chain(d)' = Chain(d)
    BY <1>2, ZenonT(60) DEF Chain
  <2> QED
    BY <1>0, <1>2, <1>9, <2>1, ZenonT(60) DEF Apart
<1>12. Rings'
  <2>1. Proper(avail, fetched, availidx)' /\ Proper(used, used_idx, usedidx)'
    BY <1>0, <1>1, <1>2, <1>6, ZenonT(60) DEF Rings
  <2>2. Offered' \intersect working' = {}
    BY <1>0, <1>1, <1>7, ZenonT(60) DEF Rings
  <2>3. ASSUME NEW q \in Procs, pc'[q] = "notify"
        PROVE  (availidx' - fetched') % Wrap < NUM /\ avail'[availidx' % NUM] = idx0'[q]
    <3>1. (availidx - fetched) % Wrap < NUM /\ avail[availidx % NUM] = idx0[q]
      BY <1>0, <1>2, <2>3, ZenonT(60) DEF Rings
    <3> QED
      BY <1>1, <1>2, <1>6, <3>1, ZenonT(60)
  <2> QED
    BY <2>1, <2>2, <2>3, ZenonT(60) DEF Rings
<1>13. Stages'
  <2>1. \A q \in Procs : \A d, n : Waits(q, d, n) => Waits(q, d, n)'
    BY <1>2, ZenonT(60) DEF Waits
  <2>2. \A d \in InFlight' : \E q \in Procs : Waits(q, d, 0)'
    BY <1>0, <1>8, <2>1, ZenonT(60) DEF Stages
  <2>3. \A d \in Finished' : status'[d] = 0 /\ \E q \in Procs : Waits(q, d, 1)'
    BY <1>0, <1>2, <1>7, <2>1, ZenonT(60) DEF Stages
  <2> QED
    BY <1>0, <1>2, <2>2, <2>3, ZenonT(60) DEF Stages
<1> QED
  BY <1>10, <1>11, <1>12, <1>13, ZenonT(60)

\* The device puts a request into the used ring, which has room for it.
LEMMA FinishStep ==
  ASSUME IInv, NEW d \in Descs, device_finish(d)
  PROVE  Chains' /\ Apart' /\ Rings' /\ Stages'
<1>0. TypeOK /\ Chains /\ Apart /\ Rings /\ Stages
  BY ZenonT(60) DEF IInv
<1>1. /\ d \in working /\ working' = working \ {d}
      /\ done' = [q \in Procs |-> IF q = Buffer(d) THEN done[q] + 1 ELSE done[q]]
      /\ status' = [status EXCEPT ![d] = 0]
      /\ used' = [used EXCEPT ![usedidx % NUM] = d]
      /\ usedidx' = (usedidx + 1) % Wrap
  BY ZenonT(60) DEF device_finish
<1>2. UNCHANGED <<free, next, addr, infob, bdisk, used_idx, avail, availidx, fetched, pc, idx0>>
  BY ZenonT(60) DEF device_finish, driver
<1>3. used_idx \in Index /\ usedidx \in Index /\ used \in [Descs -> Descs]
  BY <1>0, ZenonT(60) DEF TypeOK, Index
<1>4. PICK p \in Procs : Waits(p, d, 0)
  BY <1>0, <1>1, ZenonT(60) DEF Stages, InFlight
<1>5. p \in Active /\ idx0[p] = d /\ done[p] = 0 /\ bdisk[p] = 1 /\ pc[p] \in {"wait", "test"}
  BY <1>4, ZenonT(60) DEF Waits, Active
<1>6. \A q \in Procs : \A e, n : Waits(q, e, n) /\ e = d => q = p
  <2>1. \A q \in Procs : \A e, n : Waits(q, e, n) => q \in Active /\ e = idx0[q]
    BY ZenonT(60) DEF Waits, Active
  <2> QED
    <3>1. \A q \in Active : idx0[q] = idx0[p] => q = p
      BY <1>0, <1>5, Heads, ZenonT(60)
    <3> QED
      BY <1>5, <2>1, <3>1, ZenonT(60)
<1>7. \A q \in Procs : done'[q] = IF q = p THEN 1 ELSE done[q]
  <2>1. Buffer(d) = p
    BY <1>0, <1>5, ChainIs, ZenonT(60)
  <2> QED
    BY <1>1, <1>5, <2>1
<1>8. d \notin Finished
  <2>1. ASSUME d \in Finished PROVE FALSE
    <3>1. PICK q \in Procs : Waits(q, d, 1)
      BY <1>0, <2>1, ZenonT(60) DEF Stages
    <3>2. q = p
      BY <1>6, <3>1, ZenonT(60)
    <3>3. done[p] = 1
      BY <3>1, <3>2, ZenonT(60) DEF Waits
    <3> QED
      BY <1>5, <3>3
  <2> QED
    BY <2>1, ZenonT(60)
<1>9. Proper(used, used_idx, usedidx) /\ d \notin Entries(used, used_idx, usedidx)
  BY <1>0, <1>8, ZenonT(60) DEF Rings, Finished
<1>10. (usedidx - used_idx) % Wrap < NUM
  BY <1>3, <1>9, RingRoom
<1>11. Stored(used, used', usedidx % NUM, d)
  BY <1>1, <1>3, ZenonT(60) DEF Stored
<1>12. /\ Proper(used', used_idx, (usedidx + 1) % Wrap)
       /\ Entries(used', used_idx, (usedidx + 1) % Wrap) = Entries(used, used_idx, usedidx) \union {d}
  BY <1>3, <1>9, <1>10, <1>11, RingPut
<1>13. Finished' = Finished \union {d} /\ Offered' = Offered
  BY <1>1, <1>2, <1>12, ZenonT(60) DEF Finished, Offered
<1>14. InFlight' \subseteq InFlight /\ d \notin InFlight'
  BY <1>0, <1>1, <1>13, ZenonT(60) DEF InFlight, Rings
<1>15. Active' = Active
  BY <1>2, ZenonT(60) DEF Active
<1>16. Chains'
  BY <1>0, <1>2, <1>15, ZenonT(60) DEF Chains, Built
<1>17. Apart'
  <2>1. \A e : Chain(e)' = Chain(e)
    BY <1>2, ZenonT(60) DEF Chain
  <2> QED
    BY <1>0, <1>2, <1>15, <2>1, ZenonT(60) DEF Apart
<1>18. Rings'
  <2>1. Proper(avail, fetched, availidx)' /\ Proper(used, used_idx, usedidx)'
    BY <1>0, <1>1, <1>2, <1>12, ZenonT(60) DEF Rings
  <2>2. Offered' \intersect working' = {}
    BY <1>0, <1>1, <1>13, ZenonT(60) DEF Rings
  <2> QED
    BY <1>0, <1>2, <2>1, <2>2, ZenonT(60) DEF Rings
<1>19. Stages'
  <2>1. ASSUME NEW q \in Procs, NEW e, NEW n, Waits(q, e, n), e # d PROVE Waits(q, e, n)'
    <3>1. q # p
      BY <1>5, <2>1, ZenonT(60) DEF Waits
    <3> QED
      BY <1>2, <1>7, <2>1, <3>1, ZenonT(60) DEF Waits
  <2>2. Waits(p, d, 1)'
    BY <1>2, <1>5, <1>7, ZenonT(60) DEF Waits
  <2>3. \A e \in InFlight' : \E q \in Procs : Waits(q, e, 0)'
    BY <1>0, <1>14, <2>1, ZenonT(60) DEF Stages
  <2>4. \A e \in Finished' : \E q \in Procs : Waits(q, e, 1)'
    BY <1>0, <1>8, <1>13, <2>1, <2>2, ZenonT(60) DEF Stages
  <2>5. \A e \in Finished' : status'[e] = 0
    <3>1. \A e \in Descs : status'[e] = IF e = d THEN 0 ELSE status[e]
      BY <1>0, <1>1, ZenonT(60) DEF TypeOK
    <3>2. \A q \in Procs : idx0[q] \in Descs
      BY <1>0, ZenonT(60) DEF TypeOK
    <3>3. \A e \in Finished : e \in Descs /\ status[e] = 0
      BY <1>0, <3>2, ZenonT(60) DEF Stages, Waits
    <3> QED
      BY <1>13, <3>1, <3>3, ZenonT(60)
  <2>6. ASSUME NEW q \in Procs
        PROVE  /\ pc'[q] \in {"idle", "alloc", "nodesc"} => done'[q] = 0
               /\ pc'[q] = "notify" => bdisk'[q] = 1 /\ done'[q] = 0
               /\ pc'[q] \in {"wait", "test"} /\ bdisk'[q] = 0 => done'[q] = 1
    <3>1. CASE q = p
      BY <1>2, <1>5, <1>7, <3>1
    <3>2. CASE q # p
      BY <1>0, <1>2, <1>7, <3>2, ZenonT(60) DEF Stages
    <3> QED
      BY <3>1, <3>2, ZenonT(60)
  <2> QED
    BY <2>3, <2>4, <2>5, <2>6, ZenonT(60) DEF Stages
<1> QED
  BY <1>16, <1>17, <1>18, <1>19, ZenonT(60)

-----------------------------------------------------------------------------
\* Types are kept.
LEMMA IndexTypes ==
  ASSUME TypeOK
  PROVE  availidx \in Index /\ usedidx \in Index /\ used_idx \in Index /\ fetched \in Index
  BY ZenonT(60) DEF TypeOK, Index

\* The types after a step of a process.
LEMMA ProcTypes ==
  ASSUME IInv, NEW p \in Procs, virtio_disk_rw(p) \/ Inside(p) \/ kkill(p)
  PROVE  TypeOK'
<1>0. TypeOK /\ Chains /\ Rings
  BY ZenonT(60) DEF IInv
<1>1. /\ availidx \in Index /\ (availidx + 1) % Wrap \in Index
      /\ 0 \in Descs /\ NUM \in 0..NUM /\ Descs \subseteq 0..NUM
      /\ availidx % NUM \in Descs
  <2>1. availidx \in Index
    BY <1>0, ZenonT(60) DEF TypeOK, Index
  <2>2. 0 \in Descs /\ NUM \in 0..NUM /\ Descs \subseteq 0..NUM
    BY VirtioAssumption DEF Descs
  <2>3. (availidx + 1) % Wrap \in Index
    BY <2>1, Turn, ZenonT(60)
  <2>4. availidx % NUM \in Descs
    BY <2>1, DivMod DEF Index
  <2> QED
    BY <2>1, <2>2, <2>3, <2>4, ZenonT(60)
<1>2. CASE virtio_disk_rw(p)
  BY <1>0, <1>2, ZenonT(60) DEF TypeOK, virtio_disk_rw, Goto, driver, device
<1>3. CASE alloc3_desc_fails(p)
  BY <1>0, <1>3, ZenonT(60) DEF TypeOK, alloc3_desc_fails, Goto, driver, device
<1>4. CASE alloc3_desc(p)
  <2>1. First \in Descs /\ Second \in Descs /\ Third \in Descs
    BY <1>0, <1>4, Picks, ZenonT(60) DEF TypeOK, alloc3_desc
  <2>2. /\ free' \subseteq Descs /\ next' \in [Descs -> 0..NUM] /\ addr' \in [Descs -> Procs \union {NoProc}]
        /\ infob' \in [Descs -> Procs \union {NoProc}] /\ status' \in [Descs -> {0, 255}]
    BY <1>0, <1>1, <1>4, <2>1, ZenonT(60) DEF TypeOK, alloc3_desc
  <2>3. /\ bdisk' \in [Procs -> {0, 1}] /\ avail' \in [Descs -> Descs] /\ idx0' \in [Procs -> Descs]
        /\ pc' \in [Procs -> {"idle", "alloc", "nodesc", "notify", "wait", "test"}]
    BY <1>0, <1>1, <1>4, <2>1, ZenonT(60) DEF TypeOK, alloc3_desc, Goto
  <2>4. UNCHANGED <<used_idx, availidx, used, usedidx, fetched, working, finished, done, lock, asleep,
                    intr, handler, panicked>>
    BY <1>4, ZenonT(60) DEF alloc3_desc, device
  <2> QED
    BY <1>0, <2>2, <2>3, <2>4, ZenonT(60) DEF TypeOK
<1>5. CASE notify(p)
  <2>1. /\ UNCHANGED <<driver, status, avail, device, idx0, intr, handler, panicked>>
        /\ availidx' \in Index /\ asleep' = asleep \union {p} /\ lock' = NoProc /\ pc' = [pc EXCEPT ![p] = "wait"]
    BY <1>1, <1>5, ZenonT(60) DEF notify, Goto
  <2>2. {availidx', usedidx', used_idx', fetched'} \subseteq 0..Wrap - 1
    <3>1. availidx' \in Index /\ usedidx' \in Index /\ used_idx' \in Index /\ fetched' \in Index
      BY <1>0, <2>1, IndexTypes, ZenonT(60) DEF driver, device
    <3> QED
      BY <3>1 DEF Index
  <2> QED
    BY <1>0, <2>1, <2>2, ZenonT(60) DEF TypeOK, driver, device
<1>6. CASE sleep_again(p)
  BY <1>0, <1>6, ZenonT(60) DEF TypeOK, sleep_again, Goto, driver, device
<1>7. CASE free_chain(p)
  <2>1. Chain(idx0[p]) \subseteq Descs
    <3>1. p \in Active /\ idx0[p] \in Descs
      BY <1>0, <1>7, ZenonT(60) DEF Active, TypeOK, free_chain
    <3>2. Chain(idx0[p]) = {idx0[p], next[idx0[p]], next[next[idx0[p]]]}
      BY <1>0, <3>1, ChainIs, ZenonT(60)
    <3>3. next[idx0[p]] \in Descs /\ next[next[idx0[p]]] \in Descs
      BY <1>0, <3>1, ZenonT(60) DEF Chains, Built
    <3> QED
      BY <3>1, <3>2, <3>3, ZenonT(60)
  <2>2. /\ free' \subseteq Descs /\ next' \in [Descs -> 0..NUM] /\ addr' \in [Descs -> Procs \union {NoProc}]
        /\ infob' \in [Descs -> Procs \union {NoProc}]
    BY <1>0, <1>1, <1>7, <2>1, ZenonT(60) DEF TypeOK, free_chain
  <2>3. /\ panicked' \in {0, 1} /\ asleep' \subseteq Procs /\ lock' = NoProc
    BY <1>0, <1>7, ZenonT(60) DEF TypeOK, free_chain, Freed
  <2>4. /\ idx0' \in [Procs -> Descs] /\ done' \in [Procs -> Nat]
        /\ pc' \in [Procs -> {"idle", "alloc", "nodesc", "notify", "wait", "test"}]
    <3>1. 0 \in Nat
      OBVIOUS
    <3> QED
      BY <1>0, <1>1, <1>7, <3>1, ZenonT(60) DEF TypeOK, free_chain, Goto
  <2>5. UNCHANGED <<bdisk, used_idx, status, avail, availidx, used, usedidx, fetched, working, finished, intr, handler>>
    BY <1>7, ZenonT(60) DEF free_chain
  <2> QED
    BY <1>0, <2>2, <2>3, <2>4, <2>5, ZenonT(60) DEF TypeOK
<1>8. CASE kkill(p)
  BY <1>0, <1>8, ZenonT(60) DEF TypeOK, kkill, driver, device
<1> QED
  BY <1>2, <1>3, <1>4, <1>5, <1>6, <1>7, <1>8, ZenonT(60) DEF Inside

\* The types after a step of the handler or the device.
LEMMA OtherTypes ==
  ASSUME IInv, Handler \/ Device
  PROVE  TypeOK'
<1>0. TypeOK
  BY ZenonT(60) DEF IInv
<1>1. /\ usedidx \in Index /\ used_idx \in Index /\ fetched \in Index /\ 0 \in Descs
      /\ (usedidx + 1) % Wrap \in Index /\ (used_idx + 1) % Wrap \in Index /\ (fetched + 1) % Wrap \in Index
      /\ fetched % NUM \in Descs
  <2>1. usedidx \in Index /\ used_idx \in Index /\ fetched \in Index
    BY <1>0, ZenonT(60) DEF TypeOK, Index
  <2>2. 0 \in Descs
    BY VirtioAssumption DEF Descs
  <2>3. (usedidx + 1) % Wrap \in Index /\ (used_idx + 1) % Wrap \in Index /\ (fetched + 1) % Wrap \in Index
    BY <2>1, Turn, ZenonT(60)
  <2>4. fetched % NUM \in Descs
    BY <2>1, DivMod DEF Index
  <2> QED
    BY <2>1, <2>2, <2>3, <2>4, ZenonT(60)
<1>2. CASE virtio_disk_intr
  <2>1. AckAt = "entry" /\ intr' = 0
    BY <1>2, ZenonT(60) DEF virtio_disk_intr, Ack, AckAt
  <2> QED
    BY <1>0, <1>2, <2>1, ZenonT(60) DEF TypeOK, virtio_disk_intr, driver, device
<1>3. CASE virtio_disk_intr_used
  <2>1. /\ panicked' \in {0, 1} /\ bdisk' \in [Procs -> {0, 1}] /\ asleep' \subseteq Procs /\ used_idx' \in Index
        /\ used' \in [Descs -> Descs]
    BY <1>0, <1>1, <1>3, ZenonT(60) DEF TypeOK, virtio_disk_intr_used, Done, Seen
  <2>2. UNCHANGED <<free, next, addr, infob, status, avail, availidx, usedidx, fetched, working, finished,
                    done, lock, pc, idx0, intr, handler>>
    BY <1>3, ZenonT(60) DEF virtio_disk_intr_used
  <2>3. {availidx', usedidx', used_idx', fetched'} \subseteq 0..Wrap - 1
    <3>1. availidx' \in Index /\ usedidx' \in Index /\ used_idx' \in Index /\ fetched' \in Index
      BY <1>0, <2>1, <2>2, IndexTypes, ZenonT(60)
    <3> QED
      BY <3>1 DEF Index
  <2> QED
    BY <1>0, <2>1, <2>2, <2>3, ZenonT(60) DEF TypeOK
<1>4. CASE virtio_disk_intr_exit
  BY <1>0, <1>4, ZenonT(60) DEF TypeOK, virtio_disk_intr_exit, driver, device
<1>5. CASE virtio_disk_intr_return
  <2>1. intr' = intr
    BY <1>5, ZenonT(60) DEF virtio_disk_intr_return, Ack, AckAt
  <2> QED
    BY <1>0, <1>5, <2>1, ZenonT(60) DEF TypeOK, virtio_disk_intr_return, driver, device
<1>6. CASE device_fetch
  <2>1. working' \subseteq Descs /\ fetched' \in Index /\ avail' \in [Descs -> Descs]
    <3>1. avail[fetched % NUM] \in Descs /\ avail \in [Descs -> Descs] /\ working \subseteq Descs
      BY <1>0, <1>1, ZenonT(60) DEF TypeOK
    <3> QED
      BY <1>1, <1>6, <3>1, ZenonT(60) DEF device_fetch
  <2>2. UNCHANGED <<driver, status, availidx, used, usedidx, finished, done, lock, asleep, pc,
                 idx0, intr, handler, panicked>>
    BY <1>6, ZenonT(60) DEF device_fetch
  <2>3. {availidx', usedidx', used_idx', fetched'} \subseteq 0..Wrap - 1
    <3>1. availidx' \in Index /\ usedidx' \in Index /\ used_idx' \in Index /\ fetched' \in Index
      BY <1>0, <2>1, <2>2, IndexTypes, ZenonT(60) DEF driver
    <3> QED
      BY <3>1 DEF Index
  <2> QED
    BY <1>0, <2>1, <2>2, <2>3, ZenonT(60) DEF TypeOK, driver
<1>7. ASSUME NEW d \in Descs, device_finish(d) PROVE TypeOK'
  <2>1. /\ working' \subseteq Descs /\ status' \in [Descs -> {0, 255}] /\ used' \in [Descs -> Descs]
        /\ usedidx' \in Index /\ finished' = 1
    BY <1>0, <1>1, <1>7, ZenonT(60) DEF TypeOK, device_finish
  <2>2. done' \in [Procs -> Nat]
    <3>1. \A q \in Procs : done[q] \in Nat /\ done[q] + 1 \in Nat
      BY <1>0 DEF TypeOK
    <3> QED
      BY <1>7, <3>1, ZenonT(60) DEF device_finish
  <2>3. UNCHANGED <<driver, avail, availidx, fetched, lock, asleep, pc, idx0, intr, handler, panicked>>
    BY <1>7, ZenonT(60) DEF device_finish
  <2>4. {availidx', usedidx', used_idx', fetched'} \subseteq 0..Wrap - 1
    <3>1. availidx' \in Index /\ usedidx' \in Index /\ used_idx' \in Index /\ fetched' \in Index
      BY <1>0, <2>1, <2>3, IndexTypes, ZenonT(60) DEF driver
    <3> QED
      BY <3>1 DEF Index
  <2> QED
    BY <1>0, <2>1, <2>2, <2>3, <2>4, ZenonT(60) DEF TypeOK, driver
<1>8. CASE device_interrupt
  BY <1>0, <1>8, ZenonT(60) DEF TypeOK, device_interrupt, driver
<1> QED
  BY <1>2, <1>3, <1>4, <1>5, <1>6, <1>7, <1>8, ZenonT(60) DEF Handler, Loop, Device

-----------------------------------------------------------------------------
\* Nobody new sleeps for descriptors.
LEMMA WantingKept ==
  ASSUME Wanting, free' = free,
         \A q \in asleep' : pc'[q] = "nodesc" => q \in asleep /\ pc[q] = "nodesc"
  PROVE  Wanting'
  BY ZenonT(60) DEF Wanting, Waiting

\* Nobody new sleeps on a buffer, and nobody who goes on sleeping is done.
LEMMA PendingKept ==
  ASSUME Pending,
         \A q \in asleep' : pc'[q] = "wait" => q \in asleep /\ pc[q] = "wait" /\ bdisk'[q] = bdisk[q]
  PROVE  Pending'
  BY ZenonT(60) DEF Pending, Waiting

\* A process in one of its critical sections has the lock, and then lets go of it.
LEMMA LetGo ==
  ASSUME TypeOK, Locked, NEW p \in Procs, pc[p] \in {"alloc", "notify", "test"},
         NEW l \in {"idle", "nodesc", "wait"}, Goto(p, l), lock' = NoProc, handler' = handler
  PROVE  Locked'
<1>1. lock = p /\ p # Intr
  BY VirtioAssumption, ZenonT(60) DEF Locked
<1>2. handler' = "idle"
  BY <1>1, ZenonT(60) DEF Locked
<1>3. \A q \in Procs : pc'[q] = IF q = p THEN l ELSE pc[q]
  BY ZenonT(60) DEF Goto, TypeOK
<1>4. \A q \in Procs : q # p => pc[q] \notin {"alloc", "notify", "test"}
  BY <1>1, ZenonT(60) DEF Locked
<1>5. l \notin {"alloc", "notify", "test"}
  OBVIOUS
<1>6. \A q \in Procs : pc'[q] \notin {"alloc", "notify", "test"}
  BY <1>3, <1>4, <1>5, ZenonT(60)
<1> QED
  BY <1>2, <1>6, ZenonT(60) DEF Locked

\* A step of a process keeps the invariant.
LEMMA ProcStep ==
  ASSUME IInv, NEW p \in Procs, virtio_disk_rw(p) \/ Inside(p) \/ kkill(p)
  PROVE  IInv'
<1>0. /\ TypeOK /\ panicked = 0 /\ Locked /\ Chains /\ Apart /\ Rings /\ Stages /\ Wanting /\ Pending /\ Noticed
      /\ pc \in [Procs -> {"idle", "alloc", "nodesc", "notify", "wait", "test"}] /\ asleep \subseteq Procs
  BY ZenonT(60) DEF IInv, TypeOK
<1>1. TypeOK'
  BY ProcTypes, ZenonT(60)
<1> SUFFICES Locked' /\ Chains' /\ Apart' /\ Rings' /\ Stages' /\ Wanting' /\ Pending' /\ Noticed'
                  /\ panicked' = 0
  BY <1>1, ZenonT(60) DEF IInv
<1>2. CASE virtio_disk_rw(p)
  <2>1. /\ lock = NoProc /\ lock' = p /\ p \notin asleep
        /\ UNCHANGED <<free, next, addr, infob, bdisk, used_idx, status, avail, availidx, used, usedidx,
                       fetched, working, finished, done, asleep, idx0, intr, handler, panicked>>
    BY <1>2, ZenonT(60) DEF virtio_disk_rw, driver, device
  <2>2. \/ pc[p] \in {"idle", "nodesc"} /\ pc' = [pc EXCEPT ![p] = "alloc"]
        \/ pc[p] = "wait" /\ pc' = [pc EXCEPT ![p] = "test"]
    BY <1>2, ZenonT(60) DEF virtio_disk_rw, Goto
  <2>3. \A q \in Procs : q # p => pc'[q] = pc[q]
    BY <1>0, <2>2, ZenonT(60)
  <2>4. \/ pc[p] \in {"idle", "nodesc"} /\ pc'[p] = "alloc"
        \/ pc[p] = "wait" /\ pc'[p] = "test"
    <3>1. CASE pc' = [pc EXCEPT ![p] = "alloc"] /\ pc[p] \in {"idle", "nodesc"}
      BY <1>0, <3>1, ZenonT(60)
    <3>2. CASE pc' = [pc EXCEPT ![p] = "test"] /\ pc[p] = "wait"
      BY <1>0, <3>2, ZenonT(60)
    <3> QED
      BY <2>2, <3>1, <3>2, ZenonT(60)
  <2>5. \A q \in Procs : /\ pc'[q] = "notify" <=> pc[q] = "notify"
                         /\ pc'[q] \in {"wait", "test"} <=> pc[q] \in {"wait", "test"}
                         /\ pc'[q] \in {"idle", "alloc", "nodesc"} => pc[q] \in {"idle", "alloc", "nodesc"}
    BY <2>3, <2>4
  <2>6. Chains' /\ Apart' /\ Rings' /\ Stages'
    BY <1>0, <2>1, <2>5, Quiet
  <2>7. Locked'
    <3>1. lock # Intr /\ \A q \in Procs : lock # q
      BY <2>1, VirtioAssumption, ZenonT(60)
    <3> QED
      BY <1>0, <2>1, <2>3, <3>1, ZenonT(60) DEF Locked
  <2>8. Wanting'
    <3>1. \A q \in asleep' : q \in asleep /\ pc'[q] = pc[q]
      BY <1>0, <2>1, <2>3, ZenonT(60)
    <3>2. \A q \in asleep' : pc'[q] = "nodesc" => q \in asleep /\ pc[q] = "nodesc"
      BY <3>1, ZenonT(60)
    <3> QED
      BY <1>0, <2>1, <3>2, WantingKept, ZenonT(60)
  <2>9. Noticed' /\ panicked' = 0
    BY <1>0, <2>1, ZenonT(60) DEF Noticed
  <2>10. Pending'
    <3>1. \A q \in asleep' : q \in asleep /\ pc'[q] = pc[q] /\ bdisk'[q] = bdisk[q]
      BY <1>0, <2>1, <2>3, ZenonT(60)
    <3> QED
      BY <1>0, <3>1, PendingKept, ZenonT(60)
  <2> QED
    BY <2>6, <2>7, <2>8, <2>9, <2>10, ZenonT(60)
<1>3. CASE alloc3_desc_fails(p)
  <2>1. /\ pc[p] = "alloc" /\ Cardinality(free) < 3 /\ lock' = NoProc /\ pc' = [pc EXCEPT ![p] = "nodesc"]
        /\ UNCHANGED <<free, next, addr, infob, bdisk, used_idx, status, avail, availidx, used, usedidx,
                       fetched, working, finished, done, idx0, intr, handler, panicked>>
    BY <1>3, ZenonT(60) DEF alloc3_desc_fails, Goto, driver, device
  <2>2. \A q \in Procs : pc'[q] = IF q = p THEN "nodesc" ELSE pc[q]
    BY <1>0, <2>1, ZenonT(60)
  <2>3. \A q \in Procs : /\ pc'[q] = "notify" <=> pc[q] = "notify"
                         /\ pc'[q] \in {"wait", "test"} <=> pc[q] \in {"wait", "test"}
                         /\ pc'[q] \in {"idle", "alloc", "nodesc"} => pc[q] \in {"idle", "alloc", "nodesc"}
    BY <2>1, <2>2
  <2>4. Chains' /\ Apart' /\ Rings' /\ Stages'
    BY <1>0, <2>1, <2>3, Quiet
  <2>5. Locked'
    BY <1>0, <2>1, LetGo, ZenonT(60) DEF Goto
  <2>6. Wanting' /\ Noticed' /\ panicked' = 0
    BY <1>0, <2>1, ZenonT(60) DEF Wanting, Noticed
  <2>7. Pending'
    <3>1. asleep' \subseteq asleep \union {p}
      BY <1>3, ZenonT(60) DEF alloc3_desc_fails
    <3>2. \A q \in asleep' : pc'[q] = "wait" => q \in asleep /\ pc[q] = "wait" /\ bdisk'[q] = bdisk[q]
      BY <1>0, <2>1, <2>2, <3>1
    <3> QED
      BY <1>0, <3>2, PendingKept, ZenonT(60)
  <2> QED
    BY <2>4, <2>5, <2>6, <2>7, ZenonT(60)
<1>4. CASE alloc3_desc(p)
  <2>1. /\ pc[p] = "alloc" /\ Cardinality(free) >= 3 /\ pc' = [pc EXCEPT ![p] = "notify"]
        /\ UNCHANGED <<used_idx, usedidx, finished, lock, asleep, intr, handler, panicked>>
    BY <1>4, ZenonT(60) DEF alloc3_desc, Goto, device
  <2>2. Chains' /\ Apart' /\ Rings' /\ Stages'
    BY <1>4, AllocStep, ZenonT(60)
  <2>3. \A q \in Procs : pc'[q] = IF q = p THEN "notify" ELSE pc[q]
    BY <1>0, <2>1, ZenonT(60)
  <2>4. Locked'
    BY <1>0, <2>1, <2>3, ZenonT(60) DEF Locked
  <2>5. Wanting'
    <3>1. Waiting("nodesc") = {}
      <4>1. Cardinality(free) \in Nat
        <5>1. IsFiniteSet(Descs) /\ free \in SUBSET Descs
          BY <1>0, VirtioAssumption, FS_Interval DEF Descs, TypeOK
        <5> QED
          BY <5>1, FS_Subset, FS_CardinalityType, ZenonT(60)
      <4>2. ~(Cardinality(free) < 3)
        BY <2>1, <4>1
      <4> QED
        BY <1>0, <4>2, ZenonT(60) DEF Wanting
    <3>2. \A q \in asleep' : pc'[q] # "nodesc"
      <4>1. \A q \in asleep : q \in Procs /\ pc[q] # "nodesc"
        BY <1>0, <3>1, ZenonT(60) DEF Waiting
      <4> QED
        BY <2>1, <2>3, <4>1
    <3> QED
      BY <3>2, ZenonT(60) DEF Wanting, Waiting
  <2>6. Noticed' /\ panicked' = 0
    BY <1>0, <2>1, ZenonT(60) DEF Noticed
  <2>7. Pending'
    <3>1. bdisk' = [bdisk EXCEPT ![p] = 1] /\ bdisk \in [Procs -> {0, 1}]
      BY <1>0, <1>4, ZenonT(60) DEF alloc3_desc, TypeOK
    <3>2. \A q \in asleep' : pc'[q] = "wait" => q \in asleep /\ pc[q] = "wait" /\ bdisk'[q] = bdisk[q]
      BY <1>0, <2>1, <2>3, <3>1
    <3> QED
      BY <1>0, <3>2, PendingKept, ZenonT(60)
  <2> QED
    BY <2>2, <2>4, <2>5, <2>6, <2>7, ZenonT(60)
<1>5. CASE notify(p)
  <2>1. /\ pc[p] = "notify" /\ lock' = NoProc /\ pc' = [pc EXCEPT ![p] = "wait"] /\ asleep' = asleep \union {p}
        /\ UNCHANGED <<free, used_idx, usedidx, finished, intr, handler, panicked>>
    BY <1>5, ZenonT(60) DEF notify, Goto, driver, device
  <2>2. Chains' /\ Apart' /\ Rings' /\ Stages'
    BY <1>5, NotifyStep, ZenonT(60)
  <2>3. Locked'
    BY <1>0, <2>1, LetGo, ZenonT(60) DEF Goto
  <2>4. \A q \in Procs : pc'[q] = IF q = p THEN "wait" ELSE pc[q]
    BY <1>0, <2>1, ZenonT(60)
  <2>5. \A q \in asleep' : pc'[q] = "nodesc" => q \in asleep /\ pc[q] = "nodesc"
    BY <1>0, <2>1, <2>4
  <2>6. Wanting'
    BY <1>0, <2>1, <2>5, WantingKept, ZenonT(60)
  <2>7. Noticed' /\ panicked' = 0
    BY <1>0, <2>1, ZenonT(60) DEF Noticed
  <2>8. Pending'
    <3>1. bdisk' = bdisk /\ bdisk[p] = 1
      BY <1>0, <1>5, <2>1, ZenonT(60) DEF notify, driver, Stages
    <3>2. \A q \in asleep' : pc'[q] = "wait" => q = p \/ (q \in asleep /\ pc[q] = "wait")
      BY <1>0, <2>1, <2>4
    <3> QED
      BY <1>0, <3>1, <3>2, ZenonT(60) DEF Pending, Waiting
  <2> QED
    BY <2>2, <2>3, <2>6, <2>7, <2>8, ZenonT(60)
<1>6. CASE sleep_again(p)
  <2>1. /\ pc[p] = "test" /\ lock' = NoProc /\ pc' = [pc EXCEPT ![p] = "wait"] /\ asleep' = asleep \union {p}
        /\ UNCHANGED <<free, next, addr, infob, bdisk, used_idx, status, avail, availidx, used, usedidx,
                       fetched, working, finished, done, idx0, intr, handler, panicked>>
    BY <1>6, ZenonT(60) DEF sleep_again, Goto, driver, device
  <2>2. \A q \in Procs : pc'[q] = IF q = p THEN "wait" ELSE pc[q]
    BY <1>0, <2>1, ZenonT(60)
  <2>3. \A q \in Procs : /\ pc'[q] = "notify" <=> pc[q] = "notify"
                         /\ pc'[q] \in {"wait", "test"} <=> pc[q] \in {"wait", "test"}
                         /\ pc'[q] \in {"idle", "alloc", "nodesc"} => pc[q] \in {"idle", "alloc", "nodesc"}
    BY <2>1, <2>2
  <2>4. Chains' /\ Apart' /\ Rings' /\ Stages'
    BY <1>0, <2>1, <2>3, Quiet
  <2>5. Locked'
    BY <1>0, <2>1, LetGo, ZenonT(60) DEF Goto
  <2>6. \A q \in asleep' : pc'[q] = "nodesc" => q \in asleep /\ pc[q] = "nodesc"
    BY <1>0, <2>1, <2>2
  <2>7. Wanting'
    BY <1>0, <2>1, <2>6, WantingKept, ZenonT(60)
  <2>8. Noticed' /\ panicked' = 0
    BY <1>0, <2>1, ZenonT(60) DEF Noticed
  <2>9. Pending'
    <3>1. bdisk' = bdisk /\ bdisk[p] = 1
      BY <1>0, <1>6, <2>1, ZenonT(60) DEF sleep_again, Complete, TypeOK
    <3>2. \A q \in asleep' : pc'[q] = "wait" => q = p \/ (q \in asleep /\ pc[q] = "wait")
      BY <1>0, <2>1, <2>2
    <3> QED
      BY <1>0, <3>1, <3>2, ZenonT(60) DEF Pending, Waiting
  <2> QED
    BY <2>4, <2>5, <2>7, <2>8, <2>9, ZenonT(60)
<1>7. CASE free_chain(p)
  <2>1. /\ pc[p] = "test" /\ lock' = NoProc /\ pc' = [pc EXCEPT ![p] = "idle"]
        /\ asleep' = asleep \ Waiting("nodesc")
        /\ UNCHANGED <<used_idx, usedidx, finished, intr, handler>>
    BY <1>7, ZenonT(60) DEF free_chain, Goto, Freed
  <2>2. Chains' /\ Apart' /\ Rings' /\ Stages' /\ panicked' = 0
    BY <1>7, FreeStep, ZenonT(60)
  <2>3. Locked'
    BY <1>0, <2>1, LetGo, ZenonT(60) DEF Goto
  <2>4. \A q \in Procs : pc'[q] = IF q = p THEN "idle" ELSE pc[q]
    BY <1>0, <2>1, ZenonT(60)
  <2>5. \A q \in asleep' : q \in Procs /\ pc[q] # "nodesc"
    BY <1>0, <2>1, ZenonT(60) DEF Waiting
  <2>6. \A q \in asleep' : pc'[q] # "nodesc"
    BY <2>4, <2>5
  <2>7. Wanting'
    BY <2>6, ZenonT(60) DEF Wanting, Waiting
  <2>8. Noticed'
    BY <1>0, <2>1, ZenonT(60) DEF Noticed
  <2>9. Pending'
    <3>1. bdisk' = bdisk /\ asleep' \subseteq asleep
      BY <1>7, <2>1, ZenonT(60) DEF free_chain
    <3>2. \A q \in asleep' : pc'[q] = "wait" => q \in asleep /\ pc[q] = "wait" /\ bdisk'[q] = bdisk[q]
      BY <1>0, <2>4, <3>1
    <3> QED
      BY <1>0, <3>2, PendingKept, ZenonT(60)
  <2> QED
    BY <2>2, <2>3, <2>7, <2>8, <2>9, ZenonT(60)
<1>8. CASE kkill(p)
  <2>1. /\ asleep' = asleep \ {p}
        /\ UNCHANGED <<free, next, addr, infob, bdisk, used_idx, status, avail, availidx, used, usedidx,
                       fetched, working, finished, done, lock, pc, idx0, intr, handler, panicked>>
    BY <1>8, ZenonT(60) DEF kkill, driver, device
  <2>2. Chains' /\ Apart' /\ Rings' /\ Stages'
    BY <1>0, <2>1, Quiet, ZenonT(60)
  <2>3. Wanting'
    BY <1>0, <2>1, WantingKept, ZenonT(60)
  <2>4. Locked' /\ Noticed' /\ panicked' = 0
    BY <1>0, <2>1, ZenonT(60) DEF Locked, Noticed
  <2>5. Pending'
    BY <1>0, <2>1, PendingKept, ZenonT(60)
  <2> QED
    BY <2>2, <2>3, <2>4, <2>5, ZenonT(60)
<1> QED
  BY <1>2, <1>3, <1>4, <1>5, <1>6, <1>7, <1>8, ZenonT(60) DEF Inside

\* A step of the handler or the device keeps the invariant.
LEMMA OtherStep ==
  ASSUME IInv, Handler \/ Device
  PROVE  IInv'
<1>0. /\ TypeOK /\ panicked = 0 /\ Locked /\ Chains /\ Apart /\ Rings /\ Stages /\ Wanting /\ Pending /\ Noticed
      /\ asleep \subseteq Procs
  BY ZenonT(60) DEF IInv, TypeOK
<1>1. TypeOK'
  BY OtherTypes, ZenonT(60)
<1> SUFFICES Locked' /\ Chains' /\ Apart' /\ Rings' /\ Stages' /\ Wanting' /\ Pending' /\ Noticed'
                  /\ panicked' = 0
  BY <1>1, ZenonT(60) DEF IInv
<1>2. CASE virtio_disk_intr
  <2>1. /\ lock = NoProc /\ lock' = Intr /\ handler' = "loop"
        /\ UNCHANGED <<free, next, addr, infob, bdisk, used_idx, status, avail, availidx, used, usedidx,
                       fetched, working, done, pc, idx0, asleep, panicked>>
    BY <1>2, ZenonT(60) DEF virtio_disk_intr, driver, device
  <2>2. Chains' /\ Apart' /\ Rings' /\ Stages'
    BY <1>0, <2>1, Quiet, ZenonT(60)
  <2>3. Wanting'
    BY <1>0, <2>1, WantingKept, ZenonT(60)
  <2>4. Locked'
    <3>1. \A q \in Procs : lock # q
      BY <2>1, VirtioAssumption, ZenonT(60)
    <3> QED
      BY <1>0, <2>1, <3>1, ZenonT(60) DEF Locked
  <2>5. Noticed' /\ panicked' = 0
    BY <1>0, <2>1, ZenonT(60) DEF Noticed
  <2>6. Pending'
    BY <1>0, <2>1, PendingKept, ZenonT(60)
  <2> QED
    BY <2>2, <2>3, <2>4, <2>5, <2>6, ZenonT(60)
<1>3. CASE virtio_disk_intr_used
  <2>1. /\ handler = "loop" /\ asleep' \subseteq asleep
        /\ UNCHANGED <<free, lock, pc, handler>>
    BY <1>3, ZenonT(60) DEF virtio_disk_intr_used, Done
  <2>2. Chains' /\ Apart' /\ Rings' /\ Stages' /\ panicked' = 0
    BY <1>3, UsedStep, ZenonT(60)
  <2>3. Wanting'
    BY <1>0, <2>1, WantingKept, ZenonT(60)
  <2>4. Locked' /\ Noticed'
    BY <1>0, <2>1, ZenonT(60) DEF Locked, Noticed
  <2>5. Pending'
    <3>1. \A q \in Procs : q # infob[Entry] => bdisk'[q] = bdisk[q]
      BY <1>3, ZenonT(60) DEF virtio_disk_intr_used
    <3>2. \A q \in asleep' : q \in asleep /\ (pc[q] = "wait" => q # infob[Entry])
      BY <1>3, ZenonT(60) DEF virtio_disk_intr_used, Done, Waiting
    <3> QED
      BY <1>0, <2>1, <3>1, <3>2, PendingKept, ZenonT(60)
  <2> QED
    BY <2>2, <2>3, <2>4, <2>5, ZenonT(60)
<1>4. CASE virtio_disk_intr_exit
  <2>1. /\ handler = "loop" /\ used_idx = usedidx /\ handler' = "exit"
        /\ UNCHANGED <<free, next, addr, infob, bdisk, used_idx, status, avail, availidx, used, usedidx,
                       fetched, working, done, pc, idx0, asleep, panicked, lock>>
    BY <1>4, ZenonT(60) DEF virtio_disk_intr_exit, driver, device
  <2>2. Chains' /\ Apart' /\ Rings' /\ Stages'
    BY <1>0, <2>1, Quiet, ZenonT(60)
  <2>3. Wanting'
    BY <1>0, <2>1, WantingKept, ZenonT(60)
  <2>4. handler # "idle"
    BY <2>1
  <2>5. Locked' /\ Noticed' /\ panicked' = 0
    BY <1>0, <2>1, <2>4, ZenonT(60) DEF Locked, Noticed
  <2>6. Pending'
    BY <1>0, <2>1, PendingKept, ZenonT(60)
  <2> QED
    BY <2>2, <2>3, <2>5, <2>6, ZenonT(60)
<1>5. CASE virtio_disk_intr_return
  <2>1. /\ handler = "exit" /\ lock' = NoProc /\ handler' = "idle"
        /\ UNCHANGED <<free, next, addr, infob, bdisk, used_idx, status, avail, availidx, used, usedidx,
                       fetched, working, finished, done, pc, idx0, asleep, panicked>>
    BY <1>5, ZenonT(60) DEF virtio_disk_intr_return, driver, device
  <2>2. intr' = intr
    BY <1>5, ZenonT(60) DEF virtio_disk_intr_return, Ack, AckAt
  <2>3. Chains' /\ Apart' /\ Rings' /\ Stages'
    BY <1>0, <2>1, Quiet, ZenonT(60)
  <2>4. Wanting'
    BY <1>0, <2>1, WantingKept, ZenonT(60)
  <2>5. Locked'
    <3>1. handler # "idle"
      BY <2>1
    <3>2. \A q \in Procs : lock # q
      BY <1>0, <3>1, VirtioAssumption, ZenonT(60) DEF Locked
    <3> QED
      BY <1>0, <2>1, <3>2, ZenonT(60) DEF Locked
  <2>6. handler # "loop"
    BY <2>1
  <2>7. Noticed' /\ panicked' = 0
    BY <1>0, <2>1, <2>2, <2>6, ZenonT(60) DEF Noticed
  <2>8. Pending'
    BY <1>0, <2>1, PendingKept, ZenonT(60)
  <2> QED
    BY <2>3, <2>4, <2>5, <2>7, <2>8, ZenonT(60)
<1>6. CASE device_fetch
  <2>1. UNCHANGED <<free, lock, asleep, pc, handler, usedidx, used_idx, finished, intr, panicked>>
    BY <1>6, ZenonT(60) DEF device_fetch, driver
  <2>2. Chains' /\ Apart' /\ Rings' /\ Stages'
    BY <1>6, FetchStep, ZenonT(60)
  <2>3. Wanting'
    BY <1>0, <2>1, WantingKept, ZenonT(60)
  <2>4. Locked' /\ Noticed' /\ panicked' = 0
    BY <1>0, <2>1, ZenonT(60) DEF Locked, Noticed
  <2>5. Pending'
    <3>1. bdisk' = bdisk
      BY <1>6, ZenonT(60) DEF device_fetch, driver
    <3> QED
      BY <1>0, <2>1, <3>1, PendingKept, ZenonT(60)
  <2> QED
    BY <2>2, <2>3, <2>4, <2>5, ZenonT(60)
<1>7. ASSUME NEW d \in Descs, device_finish(d)
      PROVE  Locked' /\ Chains' /\ Apart' /\ Rings' /\ Stages' /\ Wanting' /\ Pending' /\ Noticed'
             /\ panicked' = 0
  <2>1. finished' = 1 /\ UNCHANGED <<free, lock, asleep, pc, handler, panicked>>
    BY <1>7, ZenonT(60) DEF device_finish, driver
  <2>2. Chains' /\ Apart' /\ Rings' /\ Stages'
    BY <1>7, FinishStep, ZenonT(60)
  <2>3. Wanting'
    BY <1>0, <2>1, WantingKept, ZenonT(60)
  <2>4. Locked' /\ Noticed' /\ panicked' = 0
    BY <1>0, <2>1, ZenonT(60) DEF Locked, Noticed
  <2>5. Pending'
    <3>1. bdisk' = bdisk
      BY <1>7, ZenonT(60) DEF device_finish, driver
    <3> QED
      BY <1>0, <2>1, <3>1, PendingKept, ZenonT(60)
  <2> QED
    BY <2>2, <2>3, <2>4, <2>5, ZenonT(60)
<1>8. CASE device_interrupt
  <2>1. /\ intr' = 1
        /\ UNCHANGED <<free, next, addr, infob, bdisk, used_idx, status, avail, availidx, used, usedidx,
                       fetched, working, done, pc, idx0, asleep, panicked, lock, handler>>
    BY <1>8, ZenonT(60) DEF device_interrupt, driver
  <2>2. Chains' /\ Apart' /\ Rings' /\ Stages'
    BY <1>0, <2>1, Quiet, ZenonT(60)
  <2>3. Wanting'
    BY <1>0, <2>1, WantingKept, ZenonT(60)
  <2>4. Locked' /\ Noticed' /\ panicked' = 0
    BY <1>0, <2>1, ZenonT(60) DEF Locked, Noticed
  <2>5. Pending'
    BY <1>0, <2>1, PendingKept, ZenonT(60)
  <2> QED
    BY <2>2, <2>3, <2>4, <2>5, ZenonT(60)
<1> QED
  BY <1>2, <1>3, <1>4, <1>5, <1>6, <1>7, <1>8, ZenonT(60) DEF Handler, Loop, Device

\* A step of the rest of the kernel keeps it.
LEMMA StutterStep ==
  ASSUME IInv, UNCHANGED vars
  PROVE  IInv'
<1>0. TypeOK /\ panicked = 0 /\ Locked /\ Chains /\ Apart /\ Rings /\ Stages /\ Wanting /\ Pending /\ Noticed
  BY ZenonT(60) DEF IInv
<1>1. UNCHANGED <<free, next, addr, infob, bdisk, used_idx, status, avail, availidx, used, usedidx,
                  fetched, working, finished, done, lock, asleep, pc, idx0, intr, handler, panicked>>
  BY ZenonT(60) DEF vars, driver, device
<1>2. Chains' /\ Apart' /\ Rings' /\ Stages'
  BY <1>0, <1>1, Quiet, ZenonT(60)
<1>3. TypeOK'
  BY <1>0, <1>1, ZenonT(60) DEF TypeOK
<1>4. Wanting'
  BY <1>0, <1>1, WantingKept, ZenonT(60)
<1>5. Pending'
  BY <1>0, <1>1, PendingKept, ZenonT(60)
<1>6. Locked' /\ Noticed' /\ panicked' = 0
  BY <1>0, <1>1, ZenonT(60) DEF Locked, Noticed
<1> QED
  BY <1>2, <1>3, <1>4, <1>5, <1>6, ZenonT(60) DEF IInv

\* virtio_disk_init() establishes it.
LEMMA InitInv == Init => IInv
<1> SUFFICES ASSUME Init PROVE IInv
  BY ZenonT(60)
<1>1. 0 \in Descs /\ NUM \in 0..NUM /\ 0 \in Index /\ 0 \in Nat /\ (0 - 0) % Wrap = 0 /\ 0 <= NUM
  BY VirtioAssumption DEF Descs, Index
<1>2. TypeOK
  BY <1>1, ZenonT(60) DEF Init, TypeOK, Index
<1>3. \A p \in Procs : pc[p] = "idle"
  BY ZenonT(60) DEF Init
<1>4. Active = {} /\ asleep = {}
  BY <1>3 DEF Active, Init
<1>5. Window(0, 0) = {}
  <2>1. \A k \in Index : (k - 0) % Wrap \in Nat
    BY <1>1, Turn, ZenonT(60)
  <2> QED
    BY <1>1, <2>1 DEF Window, Index
<1>6. Offered = {} /\ Finished = {} /\ InFlight = {}
  BY <1>5, ZenonT(60) DEF Init, Offered, Finished, InFlight, Entries
<1>7. Rings
  <2>1. Proper(avail, 0, 0) /\ Proper(used, 0, 0)
    BY <1>1, <1>5, ZenonT(60) DEF Proper
  <2>2. fetched = 0 /\ availidx = 0 /\ used_idx = 0 /\ usedidx = 0
    BY ZenonT(60) DEF Init
  <2>3. \A p \in Procs : pc[p] # "notify"
    BY <1>3
  <2> QED
    BY <1>6, <2>1, <2>2, <2>3, ZenonT(60) DEF Rings
<1>8. Stages
  <2>1. \A p \in Procs : pc[p] = "idle" /\ done[p] = 0
    BY <1>3, ZenonT(60) DEF Init
  <2> QED
    BY <1>6, <2>1, ZenonT(60) DEF Stages
<1>9. Locked
  BY <1>3, ZenonT(60) DEF Init, Locked
<1>10. Chains /\ Apart
  BY <1>4, ZenonT(60) DEF Chains, Apart
<1>11. Wanting /\ Pending /\ Noticed /\ panicked = 0
  BY <1>4, ZenonT(60) DEF Init, Wanting, Pending, Waiting, Noticed
<1> QED
  BY <1>2, <1>7, <1>8, <1>9, <1>10, <1>11, ZenonT(60) DEF IInv

\* Every step of the driver, its handler and the device keeps the invariant.
THEOREM Invariance == Spec => []IInv
<1>1. IInv /\ [Next]_vars => IInv'
  <2> SUFFICES ASSUME IInv, [Next]_vars PROVE IInv'
    BY ZenonT(60)
  <2>1. CASE UNCHANGED vars
    BY <2>1, StutterStep, ZenonT(60)
  <2>2. CASE Next
    BY <2>2, ProcStep, OtherStep, ZenonT(60) DEF Next
  <2> QED
    BY <2>1, <2>2, ZenonT(60)
<1> QED
  BY InitInv, <1>1, PTL DEF Spec

\* A chain has three descriptors.
LEMMA Three ==
  ASSUME NEW a, NEW b, NEW c, a # b, a # c, b # c
  PROVE  Cardinality({a, b, c}) = 3
<1>1. IsFiniteSet({a}) /\ Cardinality({a}) = 1
  BY FS_Singleton, ZenonT(60)
<1>2. b \notin {a} /\ c \notin {a} \union {b}
  BY ZenonT(60)
<1>3. IsFiniteSet({a} \union {b}) /\ Cardinality({a} \union {b}) = 1 + 1
  BY <1>1, <1>2, FS_AddElement, ZenonT(60)
<1>4. Cardinality(({a} \union {b}) \union {c}) = 1 + 1 + 1
  BY <1>2, <1>3, FS_AddElement, ZenonT(60)
<1>5. ({a} \union {b}) \union {c} = {a, b, c}
  BY ZenonT(60)
<1>6. 1 + 1 + 1 = 3
  OBVIOUS
<1> QED
  BY <1>4, <1>5, <1>6, ZenonT(60)

(***************************************************************************)
(* For any number of processes and descriptors: the chains that the device *)
(* was offered or works on are disjoint, not free, and each is of a        *)
(* process that still waits in virtio_disk_rw(); neither free_desc() nor   *)
(* virtio_disk_intr() panics.                                              *)
(***************************************************************************)
THEOREM ChainsAreTheDevices == Spec => []DeviceOwnsChains
<1>1. IInv => DeviceOwnsChains
  <2> SUFFICES ASSUME IInv PROVE DeviceOwnsChains
    BY ZenonT(60)
  <2>0. TypeOK /\ panicked = 0 /\ Chains /\ Apart /\ Stages
    BY ZenonT(60) DEF IInv
  <2>1. ASSUME NEW d \in InFlight
        PROVE  \E p \in Active : /\ d = idx0[p] /\ infob[d] = p /\ Buffer(d) = p /\ bdisk[p] = 1
                                 /\ pc[p] \in {"wait", "test"} /\ Cardinality(Chain(d)) = 3
                                 /\ Chain(d) \intersect free = {}
    <3>1. PICK p \in Procs : Waits(p, d, 0)
      BY <2>0, ZenonT(60) DEF Stages
    <3>2. p \in Active /\ d = idx0[p] /\ bdisk[p] = 1 /\ pc[p] \in {"wait", "test"}
      BY <3>1, ZenonT(60) DEF Waits, Active
    <3>3. Chain(d) = {d, next[d], next[next[d]]} /\ Buffer(d) = p
      BY <2>0, <3>2, ChainIs, ZenonT(60)
    <3>4. /\ next[d] # d /\ next[next[d]] # d /\ next[next[d]] # next[d] /\ infob[d] = p
          /\ d \notin free /\ next[d] \notin free /\ next[next[d]] \notin free
      BY <2>0, <3>2, ZenonT(60) DEF Chains, Built
    <3>5. Cardinality(Chain(d)) = 3
      <4>1. Cardinality({d, next[d], next[next[d]]}) = 3
        BY <3>4, Three
      <4> QED
        BY <3>3, <4>1, ZenonT(60)
    <3> QED
      BY <3>2, <3>3, <3>4, <3>5, ZenonT(60)
  <2>2. ASSUME NEW d \in InFlight, NEW e \in InFlight \ {d} PROVE Chain(e) \intersect Chain(d) = {}
    <3>1. PICK p \in Active : d = idx0[p]
      BY <2>1, ZenonT(60)
    <3>2. PICK q \in Active : e = idx0[q]
      BY <2>1, ZenonT(60)
    <3>3. q # p
      BY <3>1, <3>2, ZenonT(60)
    <3> QED
      BY <2>0, <3>1, <3>2, <3>3, ZenonT(60) DEF Apart
  <2>3. \A p \in Active : p \in Procs
    BY ZenonT(60) DEF Active
  <2> QED
    BY <2>0, <2>1, <2>2, <2>3, ZenonT(60) DEF DeviceOwnsChains
<1> QED
  BY Invariance, <1>1, PTL

(***************************************************************************)
(* For any number of processes and descriptors: virtio_disk_rw() returns   *)
(* only after the device has carried out its request, once.                *)
(***************************************************************************)
THEOREM RequestsReturnWhenDone == Spec => []ReturnsWhenDone
<1>1. IInv => ReturnsWhenDone
  BY ZenonT(60) DEF IInv, Stages, ReturnsWhenDone, Complete
<1> QED
  BY Invariance, <1>1, PTL

(***************************************************************************)
(* For any number of processes and descriptors: an entry of the used ring  *)
(* that virtio_disk_intr() has not seen has an interrupt to come or a      *)
(* handler that will look again, nobody sleeps on a buffer whose request   *)
(* it has seen, and nobody sleeps on disk.free[0] while three descriptors  *)
(* are free.                                                               *)
(***************************************************************************)
THEOREM CompletionsAreNoticed == Spec => []NoLostWakeup
<1>1. IInv => NoLostWakeup
  BY ZenonT(60) DEF IInv, Noticed, Wanting, Pending, NoLostWakeup
<1> QED
  BY Invariance, <1>1, PTL
=============================================================================
