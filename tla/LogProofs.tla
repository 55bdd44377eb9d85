------------------------------ MODULE LogProofs -----------------------------
(***************************************************************************)
(* Proofs about module Log, for every set of processes and blocks and      *)
(* every LOGBLOCKS and MAXOPBLOCKS.  First the inductive invariant, and    *)
(* that a step preserves its parts about types, buffers and the loops, and *)
(* keeps the header on disk, the header in memory, the pins of the buffer  *)
(* cache and the contents of blocks in agreement.  Then that a step keeps  *)
(* the counters of log.c equal to what they count and the reservations     *)
(* within the log, and that every step is a step of AtomicDisk or changes  *)
(* nothing that AtomicDisk sees.  Last the theorems: the inductive         *)
(* invariant, the safety properties it gives and the implementation of     *)
(* AtomicDisk.                                                             *)
(***************************************************************************)
EXTENDS Log, FiniteSetTheorems, TLAPS

CommitPC == {"write_log", "write_head", "install", "clear", "end_commit"}
BootPC == {"off", "recover", "recovered"}

\* Who may be doing what at the same time.
Phases ==
  /\ outstanding = Cardinality(Open)
  /\ \A p \in Procs : pc[p] \in CommitPC => committing = 1
  /\ committing = 1 => Open = {}
  /\ \A p, q \in Procs : pc[p] \in CommitPC /\ pc[q] \in CommitPC => p = q
  /\ \A p, q \in Procs : p # q /\ pc[p] \in {"recover", "recovered"} => pc[q] = "off"
  /\ \A p, q \in Procs : pc[p] = "off" => pc[q] \in BootPC
  /\ \A p \in Procs : pc[p] \in BootPC => committing = 0

\* A process holds a modified buffer only inside an operation, and alone.
Buffers ==
  /\ \A p \in Procs : buf[p] # NoBlock => pc[p] = "op"
  /\ \A p, q \in Procs : buf[p] = buf[q] /\ buf[p] # NoBlock => p = q

\* The part of its reservation that each open operation has not used yet.
Reserved ==
  {r \in Open \X (1..MAXOPBLOCKS) : r[2] > Cardinality(wrote[r[1]])}

\* Those reservations fit into what is left of the log.
Capacity ==
  /\ Len(lh) + Cardinality(Reserved) <= LOGBLOCKS
  /\ Len(head) <= LOGBLOCKS

\* What the open operations have written is in the log.
OpWrites ==
  /\ \A p \in Open : wrote[p] \subseteq LogBlocks(lh)
  /\ \A p \in Procs : pc[p] # "op" => wrote[p] = {}

\* An operation writes at most OpBlocks distinct blocks.
OpSize ==
  \A p \in Procs : /\ Cardinality(wrote[p]) <= OpBlocks
                   /\ buf[p] # NoBlock => Cardinality(wrote[p] \union {buf[p]}) <= OpBlocks

\* The loop variables of the copying loops.
Tails ==
  \A p \in Procs : /\ tail[p] <= Len(lh)
                   /\ pc[p] \notin {"write_log", "install", "recover"} => tail[p] = 0

Space == Capacity /\ OpWrites /\ OpSize /\ Tails

\* What the cardinalities come to for the steps that do not count.
Counts == Len(lh) <= LOGBLOCKS /\ (outstanding = 0 <=> Open = {})

SpaceInv == TypeOK /\ Phases /\ Buffers /\ Space /\ Counts

InstallPC == {"install", "clear"}

\* No block is logged twice.
Distinct ==
  /\ \A i, j \in 1..Len(lh) : lh[i] = lh[j] => i = j
  /\ \A i, j \in 1..Len(head) : head[i] = head[j] => i = j

\* A logged block is pinned until it is installed.
Pins ==
  /\ \A b \in Blocks : b \notin LogBlocks(lh) => pins[b] = 0
  /\ (\A p \in Procs : pc[p] \notin InstallPC \union BootPC)
       => \A i \in 1..Len(lh) : pins[lh[i]] = 1
  /\ \A p \in Procs : pc[p] = "install" =>
       \A i \in 1..Len(lh) : pins[lh[i]] = IF i <= tail[p] THEN 0 ELSE 1
  /\ \A p \in Procs : pc[p] \in BootPC \union {"clear"} => \A b \in Blocks : pins[b] = 0

\* The header on disk is in use only from write_head() to its clearing.
Heads ==
  /\ \A p \in Procs : pc[p] \in InstallPC \union {"recover", "recovered"} => head = lh
  /\ (\A p \in Procs : pc[p] \notin InstallPC \union BootPC) => head = <<>>
  /\ (\A p \in Procs : pc[p] = "off") => lh = <<>>
  /\ \A p \in Procs : pc[p] = "end_commit" => lh = <<>>
  /\ outstanding = 0 /\ committing = 0 /\ Up => lh = <<>>

\* A buffer in use is cached; one not in use agrees with the disk.
Cached ==
  /\ \A b \in Blocks : pins[b] # 0 => cache[b] # NotCached
  /\ \A p \in Procs : buf[p] # NoBlock => cache[buf[p]] # NotCached
  /\ RecycleLosesNothing

\* How far the loops of write_log() and install_trans() have come.
Copied ==
  \A p \in Procs : \A i \in 1..Len(lh) :
    /\ pc[p] = "write_log" /\ i <= tail[p] => logdata[i] = cache[lh[i]]
    /\ pc[p] = "write_head" => logdata[i] = cache[lh[i]]
    /\ pc[p] = "install" /\ i > tail[p] => logdata[i] = cache[lh[i]]
    /\ pc[p] \in {"install", "recover"} /\ i <= tail[p] => home[lh[i]] = logdata[i]
    /\ pc[p] \in {"clear", "recovered"} => home[lh[i]] = logdata[i]

IInv == SpaceInv /\ Distinct /\ Pins /\ Heads /\ Cached /\ Copied
-----------------------------------------------------------------------------
LEMMA TypeStep == IInv /\ Next => TypeOK'
<1> SUFFICES ASSUME IInv, Next PROVE TypeOK'
  BY ZenonT(60)
<1> USE LogAssumption DEF IInv, SpaceInv, TypeOK
<1>0. Len(lh) \in Nat /\ Len(lh) <= LOGBLOCKS
  BY DEF Counts
<1>1. ASSUME NEW p \in Procs, begin_op(p) PROVE TypeOK'
  <2>1. pc' \in [Procs -> PCs]
    BY <1>1, ZenonT(60) DEF begin_op, PCs
  <2> QED
    BY <2>1, <1>1 DEF begin_op, disk, ops
<1>2. ASSUME NEW p \in Procs, NEW b \in Blocks, NEW v \in Values, update(p, b, v)
      PROVE  TypeOK'
  BY <1>2, ZenonT(60) DEF update, disk
<1>3. ASSUME NEW p \in Procs, log_write(p) PROVE TypeOK'
  <2>1. pc' = pc /\ buf[p] \in Blocks
    BY <1>3, ZenonT(60) DEF log_write
  <2>2. panicked' \in {0, 1}
    BY <1>3, ZenonT(60) DEF log_write
  <2>4. lh' \in Seq(Blocks) /\ pins' \in [Blocks -> Nat]
    <3>1. CASE buf[p] \in LogBlocks(lh)
      BY <1>3, <3>1, ZenonT(60) DEF log_write
    <3>2. CASE buf[p] \notin LogBlocks(lh)
      <4>1. lh' = Append(lh, buf[p]) /\ pins' = [pins EXCEPT ![buf[p]] = @ + 1]
        BY <1>3, <3>2, ZenonT(60) DEF log_write
      <4> QED
        BY <2>1, <4>1
    <3> QED
      BY <3>1, <3>2, ZenonT(60)
  <2>3. buf' \in [Procs -> Blocks \union {NoBlock}] /\ wrote' \in [Procs -> SUBSET Blocks]
    BY <1>3, <2>1, ZenonT(60) DEF log_write
  <2> QED
    BY <1>3, <2>1, <2>2, <2>3, <2>4, ZenonT(60) DEF log_write, disk
<1>4. ASSUME NEW p \in Procs, end_op(p) PROVE TypeOK'
  <2>1. p \in Open
    BY <1>4, ZenonT(60) DEF end_op, Open
  <2>2. outstanding # 0
    BY <2>1, ZenonT(60) DEF Counts
  <2> QED
    <3>1. pc' \in [Procs -> PCs]
      BY <1>4, ZenonT(60) DEF end_op, PCs, Wakeup, CommitFrom
    <3>2. outstanding' \in Nat /\ committing' \in {0, 1} /\ panicked' \in {0, 1}
      BY <1>4, <2>2 DEF end_op
    <3> QED
      BY <1>4, <3>1, <3>2, ZenonT(60) DEF end_op, disk
<1>5. ASSUME NEW p \in Procs, write_log(p) PROVE TypeOK'
  <2>0. pc' \in [Procs -> PCs]
    BY <1>5, ZenonT(60) DEF write_log, PCs
  <2>1. tail' \in [Procs -> Nat]
    <3>1. CASE tail' = [tail EXCEPT ![p] = @ + 1]
      BY <3>1
    <3>2. CASE tail' = [tail EXCEPT ![p] = 0]
      BY <3>2, ZenonT(60)
    <3> QED
      BY <1>5, <3>1, <3>2, ZenonT(60) DEF write_log
  <2>2. CASE tail[p] < Len(lh)
    <3> DEFINE b == lh[tail[p] + 1]
    <3>1. b \in Blocks /\ Data(b) \in Values
      BY <1>0, <2>2, SMTT(60) DEF Data
    <3>2. logdata' = [logdata EXCEPT ![tail[p] + 1] = Data(b)]
          /\ cache' = [cache EXCEPT ![b] = Data(b)]
      BY <1>5, <2>2, SMTT(60) DEF write_log
    <3>3. logdata' \in [1..LOGBLOCKS -> Values] /\ cache' \in [Blocks -> Values \union {NotCached}]
      BY <3>1, <3>2, ZenonT(60)
    <3> QED
      BY <1>5, <2>0, <2>1, <3>3, ZenonT(60) DEF write_log, ops
  <2>3. CASE tail[p] = Len(lh)
    BY <1>0, <1>5, <2>0, <2>1, <2>3 DEF write_log, ops
  <2> QED
    BY <1>5, <2>2, <2>3, ZenonT(60) DEF write_log
<1>6. ASSUME NEW p \in Procs, write_head(p) PROVE TypeOK'
  BY <1>6, ZenonT(60) DEF write_head, ops, PCs
<1>7. ASSUME NEW p \in Procs, install_trans(p) PROVE TypeOK'
  <2>1. CASE tail[p] < Len(lh)
    <3> DEFINE i == tail[p] + 1
               b == lh[i]
    <3>1. i \in 1..Len(lh) /\ i \in 1..LOGBLOCKS /\ b \in Blocks
      BY <1>0, <2>1, SMTT(60)
    <3>2. pc[p] = "install" => pins[b] = 1
      BY <3>1, SMTT(60) DEF Pins
    <3>3. Unpinned(p, b) \in [Blocks -> Nat]
      BY <1>7, <3>1, <3>2, SMTT(60) DEF install_trans, Unpinned
    <3>4. home' = [home EXCEPT ![b] = logdata[i]] /\ pins' = Unpinned(p, b)
          /\ cache' = [cache EXCEPT ![b] = logdata[i]]
          /\ tail' = [tail EXCEPT ![p] = @ + 1] /\ pc' = pc
      BY <1>7, <2>1, SMTT(60) DEF install_trans
    <3> QED
      <4>1. home' \in [Blocks -> Values] /\ cache' \in [Blocks -> Values \union {NotCached}]
        BY <3>1, <3>4, ZenonT(60)
      <4>2. pins' \in [Blocks -> Nat] /\ tail' \in [Procs -> Nat] /\ pc' = pc
        BY <3>3, <3>4, SMTT(60)
      <4> QED
        BY <1>7, <4>1, <4>2, ZenonT(60) DEF install_trans, ops
  <2>2. CASE tail[p] = Len(lh)
    <3>1. pc' \in [Procs -> PCs]
      BY <1>0, <1>7, <2>2, ZenonT(60) DEF install_trans, PCs
    <3>2. tail' = [tail EXCEPT ![p] = 0] /\ UNCHANGED <<home, cache, pins>>
      BY <1>0, <1>7, <2>2 DEF install_trans
    <3> QED
      BY <1>7, <3>1, <3>2, ZenonT(60) DEF install_trans, ops
  <2> QED
    BY <1>7, <2>1, <2>2, ZenonT(60) DEF install_trans
<1>8. ASSUME NEW p \in Procs, clear_head(p) PROVE TypeOK'
  BY <1>8 DEF clear_head, ops, PCs
<1>9. ASSUME NEW p \in Procs, end_commit(p) PROVE TypeOK'
  BY <1>9, ZenonT(60) DEF end_commit, disk, ops, Wakeup, PCs
<1>10. ASSUME NEW p \in Procs, initlog(p) PROVE TypeOK'
  BY <1>10, ZenonT(60) DEF initlog, disk, ops, PCs
<1>11. ASSUME NEW p \in Procs, recovered(p) PROVE TypeOK'
  BY <1>11, SMTT(60) DEF recovered, ops, PCs
<1>12. ASSUME NEW b \in Blocks, bread(b) \/ recycle(b) PROVE TypeOK'
  BY <1>12, ZenonT(60) DEF bread, recycle, disk, ops
<1>13. ASSUME Crash PROVE TypeOK'
  BY <1>13 DEF Crash, disk, PCs
<1> QED
  BY <1>1, <1>2, <1>3, <1>4, <1>5, <1>6, <1>7, <1>8, <1>9, <1>10, <1>11, <1>12, <1>13, ZenonT(60)
     DEF Next, commit

LEMMA BuffersStep == IInv /\ Next => Buffers'
<1> SUFFICES ASSUME IInv, Next PROVE Buffers'
  BY ZenonT(60)
<1> USE DEF IInv, SpaceInv, TypeOK, Buffers
<1>1. ASSUME NEW p \in Procs, begin_op(p) PROVE Buffers'
  BY <1>1, ZenonT(60) DEF begin_op, ops
<1>2. ASSUME NEW p \in Procs, NEW b \in Blocks, NEW v \in Values, update(p, b, v)
      PROVE  Buffers'
  BY <1>2, ZenonT(60) DEF update
<1>3. ASSUME NEW p \in Procs, log_write(p) PROVE Buffers'
  BY <1>3, ZenonT(60) DEF log_write
<1>4. ASSUME NEW p \in Procs, end_op(p) PROVE Buffers'
  <2>1. buf' = buf /\ buf[p] = NoBlock
    BY <1>4, ZenonT(60) DEF end_op
  <2>2. \A q \in Procs : q # p /\ pc[q] = "op" => pc'[q] = "op"
    BY <1>4, ZenonT(60) DEF end_op, Wakeup
  <2> QED
    BY <2>1, <2>2, ZenonT(60)
<1>5. ASSUME NEW p \in Procs, commit(p) \/ initlog(p) \/ recovered(p) PROVE Buffers'
  <2>1. buf' = buf
    BY <1>5 DEF commit, write_log, write_head, install_trans, clear_head, end_commit,
                initlog, recovered, ops
  <2>2. \A q \in Procs : pc[q] = "op" => pc'[q] = "op"
    <3>1. CASE write_log(p)
      BY <3>1, ZenonT(60) DEF write_log
    <3>2. CASE install_trans(p)
      BY <3>2, ZenonT(60) DEF install_trans
    <3>3. CASE write_head(p) \/ clear_head(p)
      BY <3>3, ZenonT(60) DEF write_head, clear_head
    <3>4. CASE end_commit(p)
      BY <3>4, ZenonT(60) DEF end_commit, Wakeup
    <3>5. CASE initlog(p)
      BY <3>5, ZenonT(60) DEF initlog
    <3>6. CASE recovered(p)
      BY <3>6, ZenonT(60) DEF recovered, Phases
    <3> QED
      BY <1>5, <3>1, <3>2, <3>3, <3>4, <3>5, <3>6, ZenonT(60) DEF commit
  <2> QED
    BY <2>1, <2>2, ZenonT(60)
<1>6. ASSUME NEW b \in Blocks, bread(b) \/ recycle(b) PROVE Buffers'
  BY <1>6, ZenonT(60) DEF bread, recycle, ops
<1>7. ASSUME Crash PROVE Buffers'
  BY <1>7, ZenonT(60) DEF Crash
<1> QED
  BY <1>1, <1>2, <1>3, <1>4, <1>5, <1>6, <1>7, ZenonT(60) DEF Next

LEMMA LogBlocksAppend ==
  ASSUME NEW s \in Seq(Blocks), NEW b \in Blocks
  PROVE  LogBlocks(Append(s, b)) = LogBlocks(s) \union {b}
  BY SMTT(60) DEF LogBlocks

LEMMA TailsStep == IInv /\ Next => Tails'
<1> DEFINE LoopPC == {"write_log", "install", "recover"}
           TailOK(q) == tail[q] <= Len(lh) /\ (pc[q] \notin LoopPC => tail[q] = 0)
<1> SUFFICES ASSUME IInv, Next, NEW q \in Procs PROVE TailOK(q)'
  BY ZenonT(60) DEF Tails
<1>0. /\ pc \in [Procs -> PCs] /\ tail \in [Procs -> Nat]
      /\ lh \in Seq(Blocks) /\ head \in Seq(Blocks)
      /\ Len(lh) \in Nat /\ Phases /\ TailOK(q)
  BY DEF IInv, SpaceInv, TypeOK, Space, Tails
<1>1. ASSUME NEW p \in Procs, begin_op(p) PROVE TailOK(q)'
  BY <1>0, <1>1, ZenonT(60) DEF begin_op
<1>2. ASSUME NEW p \in Procs, NEW b \in Blocks, NEW v \in Values, update(p, b, v)
      PROVE  TailOK(q)'
  BY <1>0, <1>2, ZenonT(60) DEF update
<1>3. ASSUME NEW p \in Procs, log_write(p) PROVE TailOK(q)'
  <2>1. UNCHANGED <<pc, tail>> /\ (lh' = lh \/ lh' = Append(lh, buf[p])) /\ buf[p] \in Blocks
    BY <1>3, ZenonT(60) DEF log_write, IInv, SpaceInv, TypeOK
  <2>2. Len(lh') \in Nat /\ Len(lh') >= Len(lh)
    BY <1>0, <2>1, SMTT(60)
  <2> QED
    BY <1>0, <2>1, <2>2, SMTT(60)
<1>4. ASSUME NEW p \in Procs, end_op(p) PROVE TailOK(q)'
  <2>1. lh' = lh /\ tail' = [tail EXCEPT ![p] = 0]
    BY <1>4, ZenonT(60) DEF end_op
  <2>2. q # p /\ pc'[q] \notin LoopPC => pc[q] \notin LoopPC
    BY <1>0, <1>4, ZenonT(60) DEF end_op, Wakeup
  <2> QED
    BY <1>0, <2>1, <2>2, SMTT(60)
<1>5. ASSUME NEW p \in Procs, write_log(p) PROVE TailOK(q)'
  <2>1. CASE tail[p] < Len(lh)
    <3>1. tail' = [tail EXCEPT ![p] = @ + 1] /\ pc' = pc /\ lh' = lh /\ pc[p] \in LoopPC
      BY <1>5, <2>1, SMTT(60) DEF write_log
    <3> QED
      BY <1>0, <2>1, <3>1, SMTT(60)
  <2>2. CASE tail[p] = Len(lh)
    BY <1>0, <1>5, <2>2, SMTT(60) DEF write_log
  <2> QED
    BY <1>5, <2>1, <2>2, ZenonT(60) DEF write_log
<1>6. ASSUME NEW p \in Procs, install_trans(p) PROVE TailOK(q)'
  <2>1. CASE tail[p] < Len(lh)
    <3>1. tail' = [tail EXCEPT ![p] = @ + 1] /\ pc' = pc /\ lh' = lh /\ pc[p] \in LoopPC
      BY <1>6, <2>1, SMTT(60) DEF install_trans
    <3> QED
      BY <1>0, <2>1, <3>1
  <2>2. CASE tail[p] = Len(lh)
    <3>1. /\ tail' = [tail EXCEPT ![p] = 0] /\ lh' = lh
          /\ q # p => pc'[q] = pc[q]
      BY <1>0, <1>6, <2>2, SMTT(60) DEF install_trans
    <3> QED
      BY <1>0, <3>1, SMTT(60)
  <2> QED
    BY <1>6, <2>1, <2>2, ZenonT(60) DEF install_trans
<1>7. ASSUME NEW p \in Procs, write_head(p) PROVE TailOK(q)'
  BY <1>0, <1>7, ZenonT(60) DEF write_head
<1>8. ASSUME NEW p \in Procs, clear_head(p) PROVE TailOK(q)'
  <2>1. pc[q] \notin LoopPC /\ lh' = <<>> /\ tail' = tail
    BY <1>0, <1>8, ZenonT(60) DEF clear_head, Phases, CommitPC, BootPC
  <2> QED
    BY <1>0, <2>1, SMTT(60)
<1>9. ASSUME NEW p \in Procs, end_commit(p) PROVE TailOK(q)'
  BY <1>0, <1>9, ZenonT(60) DEF end_commit, Wakeup
<1>10. ASSUME NEW p \in Procs, initlog(p) PROVE TailOK(q)'
  BY <1>0, <1>10, SMTT(60) DEF initlog
<1>11. ASSUME NEW p \in Procs, recovered(p) PROVE TailOK(q)'
  <2>1. pc[q] \notin LoopPC /\ lh' = <<>> /\ tail' = tail
    BY <1>0, <1>11, ZenonT(60) DEF recovered, Phases
  <2> QED
    BY <1>0, <2>1
<1>12. ASSUME NEW b \in Blocks, bread(b) \/ recycle(b) PROVE TailOK(q)'
  BY <1>0, <1>12, ZenonT(60) DEF bread, recycle
<1>13. ASSUME Crash PROVE TailOK(q)'
  BY <1>13, SMTT(60) DEF Crash
<1> QED
  BY <1>1, <1>2, <1>3, <1>4, <1>5, <1>6, <1>7, <1>8, <1>9, <1>10, <1>11, <1>12, <1>13, ZenonT(60)
     DEF Next, commit

\* The steps of a commit and of recovery open and close no operation.
LEMMA CommitOpens ==
  ASSUME IInv, NEW p \in Procs, commit(p) \/ initlog(p) \/ recovered(p)
  PROVE  /\ \A q \in Procs : pc'[q] = "op" <=> pc[q] = "op"
         /\ Open' = Open
         /\ UNCHANGED <<buf, wrote>>
         /\ lh' = lh \/ Open = {}
<1>0. pc \in [Procs -> PCs] /\ Phases
  BY ZenonT(60) DEF IInv, SpaceInv, TypeOK
<1>1. \A q \in Procs : pc'[q] = "op" <=> pc[q] = "op"
  <2>1. CASE write_log(p)
    BY <1>0, <2>1, ZenonT(60) DEF write_log
  <2>2. CASE install_trans(p)
    BY <1>0, <2>2, ZenonT(60) DEF install_trans
  <2>3. CASE write_head(p) \/ clear_head(p)
    BY <1>0, <2>3, ZenonT(60) DEF write_head, clear_head
  <2>4. CASE end_commit(p)
    BY <1>0, <2>4, ZenonT(60) DEF end_commit, Wakeup
  <2>5. CASE initlog(p)
    BY <1>0, <2>5, ZenonT(60) DEF initlog
  <2>6. CASE recovered(p)
    BY <1>0, <2>6, ZenonT(60) DEF recovered, Phases
  <2> QED
    BY <2>1, <2>2, <2>3, <2>4, <2>5, <2>6, ZenonT(60) DEF commit
<1>2. Open' = Open
  BY <1>1, ZenonT(60) DEF Open
<1>3. UNCHANGED <<buf, wrote>>
  <2>1. CASE write_log(p) \/ install_trans(p) \/ initlog(p) \/ recovered(p)
    BY <2>1, ZenonT(60) DEF write_log, install_trans, initlog, recovered, ops
  <2>2. CASE write_head(p) \/ clear_head(p) \/ end_commit(p)
    BY <2>2, ZenonT(60) DEF write_head, clear_head, end_commit, ops
  <2> QED
    BY <2>1, <2>2, ZenonT(60) DEF commit
<1>4. lh' = lh \/ Open = {}
  <2>1. CASE clear_head(p)
    BY <1>0, <2>1, ZenonT(60) DEF clear_head, Phases, CommitPC
  <2>2. CASE initlog(p) \/ recovered(p)
    BY <1>0, <2>2, ZenonT(60) DEF initlog, recovered, Phases, Open
  <2> QED
    BY <2>1, <2>2, ZenonT(60) DEF commit, write_log, write_head, install_trans, end_commit
<1> QED
  BY <1>1, <1>2, <1>3, <1>4, ZenonT(60)

LEMMA EndOpCloses ==
  ASSUME IInv, NEW p \in Procs, end_op(p)
  PROVE  /\ \A q \in Procs : pc'[q] = "op" <=> (pc[q] = "op" /\ q # p)
         /\ Open' = Open \ {p}
<1>0. pc \in [Procs -> PCs]
  BY ZenonT(60) DEF IInv, SpaceInv, TypeOK
<1>1. \A q \in Procs : pc'[q] = "op" <=> (pc[q] = "op" /\ q # p)
  BY <1>0, ZenonT(60) DEF end_op, Wakeup, CommitFrom
<1> QED
  BY <1>1, ZenonT(60) DEF Open

LEMMA BeginOpOpens ==
  ASSUME IInv, NEW p \in Procs, begin_op(p)
  PROVE  /\ p \notin Open
         /\ \/ Open' = Open /\ outstanding' = outstanding
            \/ /\ Open' = Open \union {p}
               /\ outstanding' = outstanding + 1
               /\ ~NoSpace
<1>0. pc \in [Procs -> PCs]
  BY ZenonT(60) DEF IInv, SpaceInv, TypeOK
<1>1. CASE committing # 0 \/ NoSpace
  BY <1>0, <1>1, ZenonT(60) DEF begin_op, Open
<1>2. CASE committing = 0 /\ ~NoSpace
  BY <1>0, <1>2, ZenonT(60) DEF begin_op, Open
<1> QED
  BY <1>1, <1>2, ZenonT(60)

LEMMA OpWritesStep == IInv /\ Next => OpWrites'
<1> SUFFICES ASSUME IInv, Next PROVE OpWrites'
  BY ZenonT(60)
<1>0. /\ wrote \in [Procs -> SUBSET Blocks] /\ lh \in Seq(Blocks) /\ pc \in [Procs -> PCs]
      /\ buf \in [Procs -> Blocks \union {NoBlock}] /\ OpWrites
  BY ZenonT(60) DEF IInv, SpaceInv, TypeOK, Space
<1>1. ASSUME NEW p \in Procs, begin_op(p) PROVE OpWrites'
  <2>1. wrote[p] = {} /\ wrote' = wrote /\ lh' = lh
    BY <1>0, <1>1, ZenonT(60) DEF begin_op, OpWrites, ops
  <2>2. \A q \in Procs : q # p => pc'[q] = pc[q]
    BY <1>0, <1>1, ZenonT(60) DEF begin_op
  <2> QED
    BY <1>0, <2>1, <2>2, ZenonT(60) DEF OpWrites, Open
<1>2. ASSUME NEW p \in Procs, NEW b \in Blocks, NEW v \in Values, update(p, b, v)
      PROVE  OpWrites'
  BY <1>0, <1>2, ZenonT(60) DEF update, OpWrites, Open
<1>3. ASSUME NEW p \in Procs, log_write(p) PROVE OpWrites'
  <2>1. /\ pc' = pc /\ pc[p] = "op" /\ buf[p] \in Blocks
        /\ wrote' = [wrote EXCEPT ![p] = @ \union {buf[p]}]
    BY <1>0, <1>3, ZenonT(60) DEF log_write
  <2>2. LogBlocks(lh) \subseteq LogBlocks(lh') /\ buf[p] \in LogBlocks(lh')
    <3>1. CASE buf[p] \in LogBlocks(lh)
      BY <1>3, <3>1, ZenonT(60) DEF log_write
    <3>2. CASE buf[p] \notin LogBlocks(lh)
      <4>1. lh' = Append(lh, buf[p])
        BY <1>3, <3>2, ZenonT(60) DEF log_write
      <4> QED
        BY <1>0, <2>1, <4>1, LogBlocksAppend, SMTT(60)
    <3> QED
      BY <3>1, <3>2, ZenonT(60)
  <2> QED
    BY <1>0, <2>1, <2>2, ZenonT(60) DEF OpWrites, Open
<1>4. ASSUME NEW p \in Procs, end_op(p) PROVE OpWrites'
  BY <1>0, <1>4, EndOpCloses, ZenonT(60) DEF OpWrites, end_op, Open
<1>5. ASSUME NEW p \in Procs, commit(p) \/ initlog(p) \/ recovered(p) PROVE OpWrites'
  BY <1>0, <1>5, CommitOpens, ZenonT(60) DEF OpWrites
<1>6. ASSUME NEW b \in Blocks, bread(b) \/ recycle(b) PROVE OpWrites'
  BY <1>0, <1>6, ZenonT(60) DEF bread, recycle, ops, OpWrites, Open
<1>7. ASSUME Crash PROVE OpWrites'
  BY <1>7, ZenonT(60) DEF Crash, OpWrites, Open
<1> QED
  BY <1>1, <1>2, <1>3, <1>4, <1>5, <1>6, <1>7, ZenonT(60) DEF Next
-----------------------------------------------------------------------------
LEMMA OpPhase ==
  ASSUME IInv, NEW p \in Procs, pc[p] = "op"
  PROVE  \A q \in Procs : pc[q] \notin CommitPC \union BootPC
  BY ZenonT(60) DEF IInv, SpaceInv, TypeOK, Phases, Open, CommitPC, BootPC

LEMMA CommitPhase ==
  ASSUME IInv, NEW p \in Procs, pc[p] \in CommitPC
  PROVE  \A q \in Procs : pc[q] # "op" /\ pc[q] \notin BootPC /\ (q # p => pc[q] \notin CommitPC)
  BY ZenonT(60) DEF IInv, SpaceInv, TypeOK, Phases, Open, CommitPC, BootPC

LEMMA BootPhase ==
  ASSUME IInv, NEW p \in Procs, pc[p] \in {"recover", "recovered"}
  PROVE  \A q \in Procs : q # p => pc[q] = "off"
  BY ZenonT(60) DEF IInv, SpaceInv, Phases

LEMMA UpPhase ==
  ASSUME IInv, NEW p \in Procs, pc[p] \notin BootPC
  PROVE  \A q \in Procs : pc[q] \notin BootPC
  BY ZenonT(60) DEF IInv, SpaceInv, Phases, BootPC

LEMMA DistinctStep == IInv /\ Next => Distinct'
<1> SUFFICES ASSUME IInv, Next PROVE Distinct'
  BY ZenonT(60)
<1>0. Distinct /\ lh \in Seq(Blocks) /\ buf \in [Procs -> Blocks \union {NoBlock}]
  BY ZenonT(60) DEF IInv, SpaceInv, TypeOK
<1>1. ASSUME lh' \in {lh, head, <<>>}, head' \in {lh, head, <<>>} PROVE Distinct'
  BY <1>0, <1>1, SMTT(60) DEF Distinct
<1>2. ASSUME NEW p \in Procs, log_write(p) PROVE Distinct'
  <2>1. CASE buf[p] \in LogBlocks(lh)
    BY <1>1, <1>2, <2>1, ZenonT(60) DEF log_write, disk
  <2>2. CASE buf[p] \notin LogBlocks(lh)
    <3>1. lh' = Append(lh, buf[p]) /\ head' = head /\ buf[p] \in Blocks
      BY <1>0, <1>2, <2>2, ZenonT(60) DEF log_write, disk
    <3>2. \A i \in 1..Len(lh) : lh[i] # buf[p]
      BY <2>2, ZenonT(60) DEF LogBlocks
    <3> QED
      BY <1>0, <3>1, <3>2 DEF Distinct
  <2> QED
    BY <2>1, <2>2, ZenonT(60)
<1>3. ASSUME NEW p \in Procs, begin_op(p) \/ end_op(p) PROVE Distinct'
  BY <1>1, <1>3, ZenonT(60) DEF begin_op, end_op, disk
<1>4. ASSUME NEW p \in Procs, commit(p) \/ initlog(p) \/ recovered(p) PROVE Distinct'
  BY <1>1, <1>4, ZenonT(60) DEF commit, write_log, write_head, install_trans, clear_head, end_commit,
                    initlog, recovered, disk
<1>5. ASSUME NEW p \in Procs, NEW b \in Blocks, NEW v \in Values, update(p, b, v)
      PROVE  Distinct'
  BY <1>1, <1>5, ZenonT(60) DEF update, disk
<1>6. ASSUME NEW b \in Blocks, bread(b) \/ recycle(b) PROVE Distinct'
  BY <1>1, <1>6, ZenonT(60) DEF bread, recycle, disk
<1>7. ASSUME Crash PROVE Distinct'
  BY <1>1, <1>7, ZenonT(60) DEF Crash, disk
<1> QED
  BY <1>2, <1>3, <1>4, <1>5, <1>6, <1>7, ZenonT(60) DEF Next

LEMMA HeadsStep == IInv /\ Next => Heads'
<1> SUFFICES ASSUME IInv, Next PROVE Heads'
  BY ZenonT(60)
<1>0. Heads /\ pc \in [Procs -> PCs] /\ outstanding \in Nat /\ committing \in {0, 1}
  BY ZenonT(60) DEF IInv, SpaceInv, TypeOK
<1> USE DEF InstallPC, BootPC
<1>1. ASSUME NEW p \in Procs, begin_op(p) PROVE Heads'
  <2>1. UNCHANGED <<lh, head, committing>> /\ \A q \in Procs : pc[q] \notin BootPC
    BY <1>1, UpPhase, ZenonT(60) DEF begin_op, disk
  <2>2. \/ pc' = [pc EXCEPT ![p] = "asleep"] /\ outstanding' = outstanding
        \/ pc' = [pc EXCEPT ![p] = "op"] /\ outstanding' # 0
    BY <1>0, <1>1 DEF begin_op
  <2>3. pc[p] \in {"idle", "begin"}
    BY <1>1, ZenonT(60) DEF begin_op
  <2> QED
    BY <1>0, <2>1, <2>2, <2>3, ZenonT(60) DEF Heads, Up
<1>2. ASSUME NEW p \in Procs, log_write(p) PROVE Heads'
  <2>1. UNCHANGED <<pc, head, outstanding>> /\ \A q \in Procs : pc[q] \notin CommitPC \union BootPC
    BY <1>2, OpPhase, ZenonT(60) DEF log_write, disk
  <2>2. outstanding # 0
    BY <1>2, ZenonT(60) DEF log_write, Open, Counts, IInv, SpaceInv
  <2> QED
    BY <1>0, <1>2, <2>1, <2>2, ZenonT(60) DEF Heads, log_write, CommitPC
<1>3. ASSUME NEW p \in Procs, end_op(p) PROVE Heads'
  <2>1. UNCHANGED <<lh, head>> /\ \A q \in Procs : pc[q] \notin CommitPC \union BootPC
    BY <1>3, OpPhase, ZenonT(60) DEF end_op, disk
  <2>2. \A q \in Procs : pc'[q] \notin InstallPC \union BootPC
    BY <1>0, <1>3, <2>1, ZenonT(60) DEF end_op, Wakeup, CommitFrom, CommitPC
  <2>3. \A q \in Procs : pc'[q] = "end_commit" => lh = <<>>
    BY <1>0, <1>3, <2>1, ZenonT(60) DEF end_op, Wakeup, CommitFrom, CommitPC
  <2>4. outstanding' = 0 => committing' = 1
    BY ONLY <1>3, ZenonT(60) DEF end_op
  <2>5. head = <<>>
    BY <1>0, <2>1, ZenonT(60) DEF Heads, CommitPC
  <2> QED
    BY <1>3, <2>1, <2>2, <2>3, <2>4, <2>5, SMTT(60) DEF Heads
<1>4. ASSUME NEW p \in Procs, write_log(p) PROVE Heads'
  <2>1. UNCHANGED <<lh, head, outstanding, committing>> /\ pc[p] = "write_log"
        /\ pc'[p] \in {"write_log", "write_head"} /\ \A q \in Procs : q # p => pc'[q] = pc[q]
    BY <1>0, <1>4, ZenonT(60) DEF write_log
  <2> QED
    BY <1>0, <2>1, ZenonT(60) DEF Heads, Up
<1>5. ASSUME NEW p \in Procs, install_trans(p) PROVE Heads'
  <2>1. UNCHANGED <<lh, head, outstanding, committing>> /\ pc[p] \in {"install", "recover"}
    BY <1>5, ZenonT(60) DEF install_trans
  <2>2. \A q \in Procs : q # p => pc'[q] = pc[q]
    BY <1>0, <1>5, ZenonT(60) DEF install_trans
  <2>3. CASE pc[p] = "install"
    <3>1. pc'[p] \in {"install", "clear"}
      BY <1>0, <1>5, <2>3, ZenonT(60) DEF install_trans
    <3>2. head = lh
      BY <1>0, <2>3, ZenonT(60) DEF Heads
    <3>3. \A q \in Procs : q # p => pc[q] \notin CommitPC
      BY <2>3, CommitPhase, ZenonT(60) DEF CommitPC
    <3> QED
      BY <1>0, <2>1, <2>2, <2>3, <3>1, <3>2, <3>3, ZenonT(60) DEF Heads, Up, CommitPC
  <2>4. CASE pc[p] = "recover"
    <3>1. pc'[p] \in {"recover", "recovered"}
      BY <1>0, <1>5, <2>4, ZenonT(60) DEF install_trans
    <3>2. head = lh /\ \A q \in Procs : q # p => pc[q] = "off"
      BY <1>0, <2>4, BootPhase, ZenonT(60) DEF Heads
    <3> QED
      BY <1>0, <2>1, <2>2, <2>4, <3>1, <3>2, ZenonT(60) DEF Heads, Up
  <2> QED
    BY <2>1, <2>3, <2>4, ZenonT(60)
<1>6. ASSUME NEW p \in Procs, write_head(p) PROVE Heads'
  <2>1. pc' = [pc EXCEPT ![p] = "install"] /\ head' = lh /\ lh' = lh /\ committing' = committing
        /\ pc[p] = "write_head"
    BY <1>6, ZenonT(60) DEF write_head
  <2>2. \A q \in Procs : pc[q] \notin BootPC /\ (q # p => pc[q] \notin CommitPC)
    BY <2>1, CommitPhase, ZenonT(60) DEF CommitPC
  <2>3. committing # 0
    BY <2>1 DEF IInv, SpaceInv, Phases, CommitPC
  <2> QED
    BY <1>0, <2>1, <2>2, <2>3, ZenonT(60) DEF Heads, CommitPC
<1>7. ASSUME NEW p \in Procs, clear_head(p) PROVE Heads'
  <2>1. pc' = [pc EXCEPT ![p] = "end_commit"] /\ head' = <<>> /\ lh' = <<>>
    BY <1>7, ZenonT(60) DEF clear_head
  <2> QED
    BY <1>0, <2>1, ZenonT(60) DEF Heads
<1>8. ASSUME NEW p \in Procs, end_commit(p) PROVE Heads'
  <2>1. pc' = Wakeup([pc EXCEPT ![p] = "idle"]) /\ UNCHANGED <<lh, head>> /\ pc[p] = "end_commit"
    BY <1>8, ZenonT(60) DEF end_commit, disk
  <2>2. \A q \in Procs : pc[q] \notin BootPC /\ (q # p => pc[q] \notin CommitPC)
    BY <2>1, CommitPhase, ZenonT(60) DEF CommitPC
  <2>3. lh = <<>> /\ head = <<>>
    BY <1>0, <2>1, <2>2, ZenonT(60) DEF Heads, CommitPC
  <2> QED
    BY <2>1, <2>3, ZenonT(60) DEF Heads
<1>9. ASSUME NEW p \in Procs, initlog(p) PROVE Heads'
  <2>1. pc' = [pc EXCEPT ![p] = "recover"] /\ head' = head /\ lh' = head
        /\ \A q \in Procs : pc[q] = "off"
    BY <1>9, ZenonT(60) DEF initlog, disk
  <2> QED
    BY <1>0, <2>1, ZenonT(60) DEF Heads, Up
<1>10. ASSUME NEW p \in Procs, recovered(p) PROVE Heads'
  BY <1>10, ZenonT(60) DEF recovered, Heads
<1>11. ASSUME NEW p \in Procs, NEW b \in Blocks, NEW v \in Values, update(p, b, v)
       PROVE  Heads'
  BY <1>0, <1>11, ZenonT(60) DEF update, disk, Heads, Up
<1>12. ASSUME NEW b \in Blocks, bread(b) \/ recycle(b) PROVE Heads'
  BY <1>0, <1>12, ZenonT(60) DEF bread, recycle, disk, Heads, Up
<1>13. ASSUME Crash PROVE Heads'
  <2>1. pc' = [q \in Procs |-> "off"] /\ lh' = <<>> /\ Procs # {}
    BY <1>13, ZenonT(60) DEF Crash
  <2> QED
    BY <2>1, ZenonT(60) DEF Heads
<1> QED
  BY <1>1, <1>2, <1>3, <1>4, <1>5, <1>6, <1>7, <1>8, <1>9, <1>10, <1>11, <1>12, <1>13, ZenonT(60)
     DEF Next, commit

LEMMA NotInstalling ==
  ASSUME IInv, \A q \in Procs : pc[q] \notin InstallPC \union BootPC
  PROVE  \A i \in 1..Len(lh) : lh[i] \in Blocks /\ pins[lh[i]] = 1 /\ cache[lh[i]] # NotCached
  BY DEF IInv, SpaceInv, TypeOK, Pins, Cached

\* An iteration of install_trans() in full.
LEMMA InstallOne ==
  ASSUME IInv, NEW p \in Procs, install_trans(p), tail[p] < Len(lh)
  PROVE  LET t == tail[p] + 1
         IN  /\ t \in 1..Len(lh) /\ t \in 1..LOGBLOCKS /\ lh[t] \in Blocks
             /\ logdata[t] \in Values
             /\ home' = [home EXCEPT ![lh[t]] = logdata[t]]
             /\ cache' = [cache EXCEPT ![lh[t]] = logdata[t]]
             /\ tail' = [tail EXCEPT ![p] = t]
             /\ pins' = IF pc[p] = "recover" THEN pins ELSE [pins EXCEPT ![lh[t]] = 0]
             /\ UNCHANGED <<pc, lh, head, logdata, buf>>
             /\ \A i \in 1..Len(lh) : i # t => lh[i] # lh[t]
<1> DEFINE t == tail[p] + 1
<1>0. /\ tail[p] \in Nat /\ lh \in Seq(Blocks) /\ Len(lh) \in Nat /\ Len(lh) <= LOGBLOCKS
      /\ logdata \in [1..LOGBLOCKS -> Values] /\ pins \in [Blocks -> Nat]
  BY DEF IInv, SpaceInv, TypeOK, Counts
<1>1. t \in 1..Len(lh) /\ t \in 1..LOGBLOCKS
  BY <1>0, LogAssumption
<1>2. lh[t] \in Blocks /\ logdata[t] \in Values
  BY <1>0, <1>1
<1>3. pc[p] \in {"install", "recover"} /\ UNCHANGED <<pc, lh, head, logdata, buf>>
  BY DEF install_trans, ops
<1>4. /\ home' = [home EXCEPT ![lh[t]] = logdata[t]]
      /\ cache' = [cache EXCEPT ![lh[t]] = logdata[t]]
      /\ tail' = [tail EXCEPT ![p] = t]
      /\ pins' = Unpinned(p, lh[t])
  BY DEF install_trans
<1>5. \A i \in 1..Len(lh) : i # t => lh[i] # lh[t]
  BY <1>1, ZenonT(60) DEF IInv, Distinct
<1>6. pc[p] = "install" => pins[lh[t]] = 1
  BY <1>0, <1>1 DEF IInv, Pins
<1>7. pins' = IF pc[p] = "recover" THEN pins ELSE [pins EXCEPT ![lh[t]] = 0]
  <2>1. CASE pc[p] = "recover"
    BY <1>4, <2>1, ZenonT(60) DEF Unpinned
  <2>2. CASE pc[p] = "install"
    <3>1. pins' = [pins EXCEPT ![lh[t]] = pins[lh[t]] - 1]
      BY <1>4, <2>2, ZenonT(60) DEF Unpinned
    <3>2. pins[lh[t]] - 1 = 0
      BY <1>6, <2>2
    <3> QED
      BY <2>2, <3>1, <3>2, ZenonT(60)
  <2> QED
    BY <1>3, <2>1, <2>2, ZenonT(60)
<1> QED
  BY <1>1, <1>2, <1>3, <1>4, <1>5, <1>7, ZenonT(60)

\* write_log() finds every block it copies in the cache.
LEMMA WriteLogOne ==
  ASSUME IInv, NEW p \in Procs, write_log(p), tail[p] < Len(lh)
  PROVE  LET t == tail[p] + 1
         IN  /\ t \in 1..Len(lh) /\ t \in 1..LOGBLOCKS
             /\ logdata' = [logdata EXCEPT ![t] = cache[lh[t]]]
             /\ tail' = [tail EXCEPT ![p] = t]
             /\ UNCHANGED <<pc, lh, head, home, cache, pins, buf>>
<1> DEFINE t == tail[p] + 1
<1>0. /\ tail[p] \in Nat /\ lh \in Seq(Blocks) /\ Len(lh) \in Nat /\ Len(lh) <= LOGBLOCKS
      /\ cache \in [Blocks -> Values \union {NotCached}]
  BY DEF IInv, SpaceInv, TypeOK, Counts
<1>1. t \in 1..Len(lh) /\ t \in 1..LOGBLOCKS
  BY <1>0, LogAssumption
<1>2. \A q \in Procs : pc[q] \notin InstallPC \union BootPC
  BY CommitPhase, ZenonT(60) DEF write_log, CommitPC, InstallPC
<1>3. lh[t] \in Blocks /\ cache[lh[t]] # NotCached
  BY <1>1, <1>2, NotInstalling, ZenonT(60)
<1>4. Data(lh[t]) = cache[lh[t]]
  BY <1>3, ZenonT(60) DEF Data
<1>5. /\ logdata' = [logdata EXCEPT ![t] = Data(lh[t])]
      /\ cache' = [cache EXCEPT ![lh[t]] = Data(lh[t])]
      /\ tail' = [tail EXCEPT ![p] = t]
      /\ UNCHANGED <<pc, lh, head, home, pins, buf>>
  BY DEF write_log, ops
<1>6. cache' = cache
  BY <1>0, <1>3, <1>4, <1>5, ZenonT(60)
<1> QED
  BY <1>1, <1>4, <1>5, <1>6, ZenonT(60)

LEMMA PinsStep == IInv /\ Next => Pins'
<1> SUFFICES ASSUME IInv, Next PROVE Pins'
  BY ZenonT(60)
<1>0. /\ Pins /\ Heads /\ pc \in [Procs -> PCs] /\ lh \in Seq(Blocks)
      /\ pins \in [Blocks -> Nat] /\ tail \in [Procs -> Nat]
      /\ buf \in [Procs -> Blocks \union {NoBlock}]
  BY ZenonT(60) DEF IInv, SpaceInv, TypeOK
<1> USE DEF InstallPC, BootPC
<1>1. ASSUME NEW p \in Procs, begin_op(p) PROVE Pins'
  <2>1. UNCHANGED <<lh, pins, tail>> /\ pc[p] \in {"idle", "begin"}
        /\ pc'[p] \in {"asleep", "op"} /\ \A q \in Procs : q # p => pc'[q] = pc[q]
    BY <1>0, <1>1, ZenonT(60) DEF begin_op
  <2> QED
    BY <1>0, <2>1, ZenonT(60) DEF Pins
<1>2. ASSUME NEW p \in Procs, log_write(p) PROVE Pins'
  <2>1. \A q \in Procs : pc[q] \notin InstallPC \union BootPC
    BY <1>2, OpPhase, ZenonT(60) DEF log_write, CommitPC
  <2>2. CASE buf[p] \in LogBlocks(lh)
    BY <1>0, <1>2, <2>1, <2>2, ZenonT(60) DEF Pins, log_write
  <2>3. CASE buf[p] \notin LogBlocks(lh)
    <3>1. /\ lh' = Append(lh, buf[p]) /\ pins' = [pins EXCEPT ![buf[p]] = @ + 1]
          /\ pc' = pc /\ buf[p] \in Blocks
      BY <1>0, <1>2, <2>3, ZenonT(60) DEF log_write
    <3>2. pins[buf[p]] = 0
      BY <1>0, <2>3, <3>1, ZenonT(60) DEF Pins
    <3>3. LogBlocks(lh') = LogBlocks(lh) \union {buf[p]}
      BY <1>0, <3>1, LogBlocksAppend, ZenonT(60)
    <3>4. \A i \in 1..Len(lh) : pins[lh[i]] = 1 /\ lh[i] \in Blocks
      BY <1>0, <2>1, SMTT(60) DEF Pins
    <3>5. \A i \in 1..Len(lh') : pins'[lh'[i]] = 1
      BY <1>0, <3>1, <3>2, <3>4, SMTT(60)
    <3> QED
      BY <1>0, <2>1, <3>1, <3>3, <3>5, ZenonT(60) DEF Pins
  <2> QED
    BY <2>2, <2>3, ZenonT(60)
<1>3. ASSUME NEW p \in Procs, end_op(p) PROVE Pins'
  <2>1. UNCHANGED <<lh, pins>> /\ \A q \in Procs : pc[q] \notin CommitPC \union BootPC
    BY <1>3, OpPhase, ZenonT(60) DEF end_op
  <2>2. \A q \in Procs : pc'[q] \notin InstallPC \union BootPC
    BY <1>0, <1>3, <2>1, ZenonT(60) DEF end_op, Wakeup, CommitFrom, CommitPC
  <2> QED
    BY <1>0, <2>1, <2>2, ZenonT(60) DEF Pins, CommitPC
<1>4. ASSUME NEW p \in Procs, write_log(p) PROVE Pins'
  <2>1. UNCHANGED <<lh, pins>> /\ pc[p] = "write_log"
    BY <1>4, ZenonT(60) DEF write_log
  <2>2. pc'[p] \in {"write_log", "write_head"} /\ \A q \in Procs : q # p => pc'[q] = pc[q]
    BY <1>0, <1>4, ZenonT(60) DEF write_log
  <2>3. \A q \in Procs : pc[q] \notin InstallPC \union BootPC
    BY <2>1, CommitPhase, ZenonT(60) DEF CommitPC
  <2> QED
    BY <1>0, <2>1, <2>2, <2>3, ZenonT(60) DEF Pins
<1>5. ASSUME NEW p \in Procs, write_head(p) PROVE Pins'
  <2>1. /\ pc' = [pc EXCEPT ![p] = "install"] /\ UNCHANGED <<lh, pins, tail>>
        /\ pc[p] = "write_head"
    BY <1>5, ZenonT(60) DEF write_head
  <2>2. \A q \in Procs : pc[q] \notin InstallPC \union BootPC
    BY <2>1, CommitPhase, ZenonT(60) DEF CommitPC
  <2>3. tail[p] = 0
    BY <2>1, ZenonT(60) DEF IInv, SpaceInv, Space, Tails
  <2> QED
    BY <1>0, <2>1, <2>2, <2>3, SMTT(60) DEF Pins
<1>6. ASSUME NEW p \in Procs, install_trans(p), tail[p] < Len(lh) PROVE Pins'
  <2> DEFINE t == tail[p] + 1
  <2>1. CASE pc[p] = "install"
    <3>1. \A q \in Procs : pc[q] \notin BootPC /\ (q # p => pc[q] \notin InstallPC)
      BY <2>1, CommitPhase, ZenonT(60) DEF CommitPC
    <3>2. /\ t \in 1..Len(lh) /\ lh[t] \in Blocks /\ UNCHANGED <<pc, lh>>
          /\ tail' = [tail EXCEPT ![p] = t]
          /\ pins' = [pins EXCEPT ![lh[t]] = 0]
          /\ \A i \in 1..Len(lh) : i # t => lh[i] # lh[t]
      BY <1>6, <2>1, InstallOne, ZenonT(60)
    <3>3. \A i \in 1..Len(lh) : pins[lh[i]] = IF i <= tail[p] THEN 0 ELSE 1
      BY <1>0, <2>1, ZenonT(60) DEF Pins
    <3>4. \A i \in 1..Len(lh) : pins'[lh[i]] = IF i <= t THEN 0 ELSE 1
      BY <1>0, <3>2, <3>3, SMTT(60)
    <3>5. \A b \in Blocks : b \notin LogBlocks(lh) => pins'[b] = 0
      BY <1>0, <3>2, ZenonT(60) DEF Pins
    <3> QED
      BY <1>0, <2>1, <3>1, <3>2, <3>4, <3>5, ZenonT(60) DEF Pins
  <2>2. CASE pc[p] = "recover"
    <3>1. UNCHANGED <<pc, lh, pins>> /\ \A q \in Procs : q # p => pc[q] = "off"
      BY <1>6, <2>2, InstallOne, BootPhase, ZenonT(60)
    <3> QED
      BY <1>0, <2>2, <3>1, ZenonT(60) DEF Pins
  <2> QED
    BY <1>6, <2>1, <2>2, ZenonT(60) DEF install_trans
<1>7. ASSUME NEW p \in Procs, install_trans(p), tail[p] = Len(lh) PROVE Pins'
  <2>1. UNCHANGED <<lh, pins>> /\ \A q \in Procs : q # p => pc'[q] = pc[q]
    BY <1>0, <1>7, SMTT(60) DEF install_trans
  <2>2. CASE pc[p] = "install"
    <3>1. \A q \in Procs : pc[q] \notin BootPC /\ (q # p => pc[q] \notin InstallPC)
      BY <2>2, CommitPhase, ZenonT(60) DEF CommitPC
    <3>2. pc'[p] = "clear"
      BY <1>0, <1>7, <2>2, SMTT(60) DEF install_trans
    <3>3. \A b \in Blocks : pins[b] = 0
      BY <1>0, <1>7, <2>2, SMTT(60) DEF Pins, LogBlocks
    <3> QED
      BY <1>0, <2>1, <3>1, <3>2, <3>3, ZenonT(60) DEF Pins
  <2>3. CASE pc[p] = "recover"
    <3>1. pc'[p] = "recovered"
      BY <1>0, <1>7, <2>3 DEF install_trans
    <3>2. \A q \in Procs : q # p => pc[q] = "off"
      BY <2>3, BootPhase, ZenonT(60)
    <3> QED
      BY <1>0, <2>1, <2>3, <3>1, <3>2, ZenonT(60) DEF Pins
  <2> QED
    BY <1>7, <2>2, <2>3, ZenonT(60) DEF install_trans
<1>8. ASSUME NEW p \in Procs, clear_head(p) PROVE Pins'
  <2>1. pins' = pins /\ lh' = <<>> /\ \A b \in Blocks : pins[b] = 0
    BY <1>0, <1>8, ZenonT(60) DEF clear_head, Pins
  <2> QED
    BY <2>1 DEF Pins
<1>9. ASSUME NEW p \in Procs, end_commit(p) PROVE Pins'
  <2>1. UNCHANGED <<pins, lh, tail>> /\ lh = <<>>
    BY <1>0, <1>9, ZenonT(60) DEF end_commit, Heads
  <2>2. \A b \in Blocks : pins[b] = 0
    BY <1>0, <2>1, SMTT(60) DEF Pins, LogBlocks
  <2> QED
    BY <2>1, <2>2 DEF Pins
<1>10. ASSUME NEW p \in Procs, initlog(p) PROVE Pins'
  <2>1. pins' = pins /\ pc' = [pc EXCEPT ![p] = "recover"] /\ \A q \in Procs : pc[q] = "off"
    BY <1>10, ZenonT(60) DEF initlog
  <2>2. \A b \in Blocks : pins[b] = 0
    BY <1>0, <2>1, ZenonT(60) DEF Pins
  <2> QED
    BY <1>0, <2>1, <2>2, ZenonT(60) DEF Pins
<1>11. ASSUME NEW p \in Procs, recovered(p) PROVE Pins'
  <2>1. pins' = pins /\ lh' = <<>> /\ \A b \in Blocks : pins[b] = 0
    BY <1>0, <1>11, ZenonT(60) DEF recovered, Pins
  <2> QED
    BY <2>1 DEF Pins
<1>12. ASSUME NEW p \in Procs, NEW b \in Blocks, NEW v \in Values, update(p, b, v)
       PROVE  Pins'
  BY <1>0, <1>12, ZenonT(60) DEF update, Pins
<1>13. ASSUME NEW b \in Blocks, bread(b) \/ recycle(b) PROVE Pins'
  BY <1>0, <1>13, ZenonT(60) DEF bread, recycle, Pins
<1>14. ASSUME Crash PROVE Pins'
  <2>1. pins' = [b \in Blocks |-> 0] /\ lh' = <<>>
    BY <1>14, ZenonT(60) DEF Crash
  <2> QED
    BY <2>1 DEF Pins
<1> QED
  BY ZenonT(60), <1>1, <1>2, <1>3, <1>4, <1>5, <1>6, <1>7, <1>8, <1>9, <1>10, <1>11, <1>12, <1>13,
     <1>14, ZenonT(60) DEF Next, commit, install_trans
-----------------------------------------------------------------------------

LEMMA CachedStep == IInv /\ Next => Cached'
<1> SUFFICES ASSUME IInv, Next PROVE Cached'
  BY ZenonT(60)
<1>0. /\ Cached /\ home \in [Blocks -> Values]
      /\ cache \in [Blocks -> Values \union {NotCached}] /\ pins \in [Blocks -> Nat]
      /\ buf \in [Procs -> Blocks \union {NoBlock}] /\ lh \in Seq(Blocks)
  BY ZenonT(60) DEF IInv, SpaceInv, TypeOK
<1>1. ASSUME UNCHANGED <<home, cache, pins, buf>> PROVE Cached'
  BY <1>0, <1>1, ZenonT(60) DEF Cached, RecycleLosesNothing, Unreferenced
<1>2. ASSUME NEW p \in Procs, NEW b \in Blocks, NEW v \in Values, update(p, b, v)
      PROVE  Cached'
  <2>1. /\ UNCHANGED <<home, pins>> /\ buf[p] = NoBlock
        /\ cache' = [cache EXCEPT ![b] = v] /\ buf' = [buf EXCEPT ![p] = b]
    BY <1>2, ZenonT(60) DEF update, disk
  <2>2. /\ cache'[b] = v /\ \A c \in Blocks : c # b => cache'[c] = cache[c]
        /\ buf'[p] = b /\ \A q \in Procs : q # p => buf'[q] = buf[q]
    BY <1>0, <2>1, ZenonT(60)
  <2> QED
    BY <1>0, <2>1, <2>2, LogAssumption, SMTT(60)
       DEF Cached, RecycleLosesNothing, Unreferenced
<1>3. ASSUME NEW p \in Procs, log_write(p) PROVE Cached'
  <2>1. /\ buf' = [buf EXCEPT ![p] = NoBlock] /\ UNCHANGED <<home, cache>>
        /\ buf[p] \in Blocks /\ cache[buf[p]] # NotCached
    BY <1>0, <1>3, ZenonT(60) DEF Cached, log_write, disk
  <2>2. CASE buf[p] \in LogBlocks(lh)
    <3>1. \A q \in Procs : pc[q] \notin InstallPC \union BootPC
      BY <1>3, OpPhase, ZenonT(60) DEF log_write, CommitPC, InstallPC
    <3>2. pins[buf[p]] = 1 /\ pins' = pins
      BY <1>3, <2>2, <3>1, NotInstalling, ZenonT(60) DEF LogBlocks, log_write
    <3> QED
      BY <1>0, <2>1, <3>2, SMTT(60) DEF Cached, RecycleLosesNothing, Unreferenced
  <2>3. CASE buf[p] \notin LogBlocks(lh)
    <3>1. pins' = [pins EXCEPT ![buf[p]] = @ + 1]
      BY <1>3, <2>3, ZenonT(60) DEF log_write
    <3>2. pins'[buf[p]] # 0 /\ \A b \in Blocks : b # buf[p] => pins'[b] = pins[b]
      BY <1>0, <2>1, <3>1
    <3> QED
      BY <1>0, <2>1, <3>2, ZenonT(60) DEF Cached, RecycleLosesNothing, Unreferenced
  <2> QED
    BY <2>2, <2>3, ZenonT(60)
<1>4. ASSUME NEW p \in Procs, begin_op(p) \/ end_op(p) PROVE Cached'
  BY <1>1, <1>4, ZenonT(60) DEF begin_op, end_op, disk, ops
<1>5. ASSUME NEW p \in Procs, write_log(p) PROVE Cached'
  <2>1. CASE tail[p] < Len(lh)
    BY <1>1, <1>5, <2>1, WriteLogOne, ZenonT(60)
  <2>2. CASE tail[p] = Len(lh)
    <3>1. UNCHANGED <<home, cache, pins, buf>>
      BY <1>5, <2>2, SMTT(60) DEF write_log, ops
    <3> QED
      BY <1>1, <3>1, ZenonT(60)
  <2> QED
    BY <1>5, <2>1, <2>2, ZenonT(60) DEF write_log
<1>6. ASSUME NEW p \in Procs, install_trans(p), tail[p] < Len(lh) PROVE Cached'
  <2> DEFINE t == tail[p] + 1
             d == lh[t]
  <2>1. /\ d \in Blocks /\ logdata[t] \in Values /\ buf' = buf
        /\ home' = [home EXCEPT ![d] = logdata[t]]
        /\ cache' = [cache EXCEPT ![d] = logdata[t]]
        /\ pins' = pins \/ pins' = [pins EXCEPT ![d] = 0]
    BY <1>6, InstallOne, ZenonT(60)
  <2>2. cache'[d] = home'[d] /\ cache'[d] # NotCached
    BY <1>0, <2>1, LogAssumption, ZenonT(60)
  <2>3. \A b \in Blocks : b # d => cache'[b] = cache[b] /\ home'[b] = home[b] /\ pins'[b] = pins[b]
    BY <1>0, <2>1, ZenonT(60)
  <2> HIDE DEF d, t
  <2>4. \A b \in Blocks : pins'[b] # 0 => pins[b] # 0
    BY <1>0, <2>1, ZenonT(60)
  <2> QED
    BY <1>0, <2>1, <2>2, <2>3, <2>4, SMTT(60)
       DEF Cached, RecycleLosesNothing, Unreferenced
<1>7. ASSUME NEW p \in Procs, install_trans(p), tail[p] = Len(lh) PROVE Cached'
  <2>1. UNCHANGED <<home, cache, pins, buf>>
    BY <1>7, SMTT(60) DEF install_trans, ops
  <2> QED
    BY <1>1, <2>1, ZenonT(60)
<1>8. ASSUME NEW p \in Procs, write_head(p) \/ clear_head(p) \/ end_commit(p)
      PROVE  Cached'
  BY <1>1, <1>8, ZenonT(60) DEF write_head, clear_head, end_commit, disk, ops
<1>9. ASSUME NEW p \in Procs, initlog(p) \/ recovered(p) PROVE Cached'
  BY <1>1, <1>9, ZenonT(60) DEF initlog, recovered, disk, ops
<1>10. ASSUME NEW b \in Blocks, bread(b) \/ recycle(b) PROVE Cached'
  <2>1. CASE bread(b)
    BY <1>0, <2>1, LogAssumption, ZenonT(60)
       DEF bread, disk, ops, Cached, RecycleLosesNothing, Unreferenced
  <2>2. CASE recycle(b)
    BY <1>0, <2>2, LogAssumption, ZenonT(60)
       DEF recycle, disk, ops, Cached, RecycleLosesNothing, Unreferenced
  <2> QED
    BY <1>10, <2>1, <2>2, ZenonT(60)
<1>11. ASSUME Crash PROVE Cached'
  BY <1>11, ZenonT(60) DEF Crash, Cached, RecycleLosesNothing, Unreferenced
<1> QED
  BY <1>2, <1>3, <1>4, <1>5, <1>6, <1>7, <1>8, <1>9, <1>10, <1>11, ZenonT(60)
     DEF Next, commit, install_trans

LEMMA CopiedStep == IInv /\ Next => Copied'
<1> DEFINE Done(q, i) ==
      /\ pc[q] = "write_log" /\ i <= tail[q] => logdata[i] = cache[lh[i]]
      /\ pc[q] = "write_head" => logdata[i] = cache[lh[i]]
      /\ pc[q] = "install" /\ i > tail[q] => logdata[i] = cache[lh[i]]
      /\ pc[q] \in {"install", "recover"} /\ i <= tail[q] => home[lh[i]] = logdata[i]
      /\ pc[q] \in {"clear", "recovered"} => home[lh[i]] = logdata[i]
<1> SUFFICES ASSUME IInv, Next, NEW q \in Procs, NEW i \in 1..Len(lh') PROVE Done(q, i)'
  BY ZenonT(60) DEF Copied
<1>0. /\ home \in [Blocks -> Values] /\ logdata \in [1..LOGBLOCKS -> Values]
      /\ cache \in [Blocks -> Values \union {NotCached}] /\ tail \in [Procs -> Nat]
      /\ lh \in Seq(Blocks) /\ pc \in [Procs -> PCs] /\ Len(lh) \in Nat
  BY SMTT(60) DEF IInv, SpaceInv, TypeOK
<1>d. \A j \in 1..Len(lh) : Done(q, j)
  BY ZenonT(60) DEF IInv, Copied
<1>1. ASSUME pc'[q] \notin CommitPC \union {"recover", "recovered"} PROVE Done(q, i)'
  BY <1>1, ZenonT(60) DEF CommitPC
<1>2. ASSUME pc'[q] = pc[q], UNCHANGED <<tail, lh, logdata, home, cache>> PROVE Done(q, i)'
  BY <1>2, <1>d, ZenonT(60)
<1>3. ASSUME NEW p \in Procs, begin_op(p) PROVE Done(q, i)'
  <2>1. pc'[q] = pc[q] \/ pc'[q] \in {"asleep", "op"}
    BY <1>0, <1>3, ZenonT(60) DEF begin_op
  <2> QED
    BY <1>1, <1>2, <1>3, <2>1, ZenonT(60) DEF begin_op, disk, CommitPC
<1>4. ASSUME NEW p \in Procs, pc[p] = "op", pc' = pc PROVE Done(q, i)'
  BY <1>1, <1>4, OpPhase, ZenonT(60) DEF BootPC
<1>5. ASSUME NEW p \in Procs, end_op(p) PROVE Done(q, i)'
  <2>1. \A r \in Procs : pc[r] \notin CommitPC \union BootPC
    BY <1>5, OpPhase, ZenonT(60) DEF end_op
  <2>2. pc'[q] \in {"write_log", "end_commit"} \/ pc'[q] \notin CommitPC \union BootPC
    BY <1>0, <1>5, <2>1, ZenonT(60) DEF end_op, CommitFrom, Wakeup, CommitPC, BootPC
  <2>3. pc'[q] = "write_log" => q = p /\ tail'[q] = 0
    BY <1>0, <1>5, <2>1, ZenonT(60) DEF end_op, CommitFrom, Wakeup, CommitPC
  <2> QED
    BY <1>1, <2>2, <2>3, SMTT(60) DEF BootPC
<1>6. ASSUME NEW p \in Procs, write_log(p) PROVE Done(q, i)'
  <2>1. pc[p] = "write_log" /\ lh' = lh
    BY <1>6, ZenonT(60) DEF write_log
  <2>2. CASE q # p
    <3>1. pc'[q] = pc[q]
      BY <1>0, <1>6, <2>2, ZenonT(60) DEF write_log
    <3> QED
      BY <1>1, <2>1, <2>2, <3>1, CommitPhase, ZenonT(60) DEF CommitPC, BootPC
  <2>3. CASE q = p /\ tail[p] < Len(lh)
    <3>1. /\ tail[p] + 1 \in 1..Len(lh) /\ tail[p] + 1 \in 1..LOGBLOCKS
          /\ logdata' = [logdata EXCEPT ![tail[p] + 1] = cache[lh[tail[p] + 1]]]
          /\ tail' = [tail EXCEPT ![p] = tail[p] + 1]
          /\ UNCHANGED <<pc, lh, cache>>
      BY <1>6, <2>3, WriteLogOne, ZenonT(60)
    <3>2. i <= tail'[q] => logdata'[i] = cache[lh[i]]
      <4>1. CASE i = tail[p] + 1
        BY <1>0, <3>1, <4>1, ZenonT(60)
      <4>2. CASE i # tail[p] + 1
        <5>1. logdata'[i] = logdata[i] /\ tail'[q] = tail[p] + 1 /\ i \in 1..Len(lh)
          BY <1>0, <2>3, <3>1, <4>2
        <5>2. i <= tail'[q] => i <= tail[q]
          BY <1>0, <2>3, <4>2, <5>1, SMTT(60)
        <5> QED
          BY <1>d, <2>1, <2>3, <5>1, <5>2, ZenonT(60)
      <4> QED
        BY <4>1, <4>2, ZenonT(60)
    <3> QED
      BY <2>1, <2>3, <3>1, <3>2, ZenonT(60)
  <2>4. CASE q = p /\ tail[p] = Len(lh)
    <3>1. pc'[p] = "write_head" /\ UNCHANGED <<logdata, cache, lh>>
      BY <1>0, <1>6, <2>4, SMTT(60) DEF write_log
    <3>2. i \in 1..Len(lh) /\ i <= tail[q]
      BY <1>0, <2>1, <2>4, SMTT(60)
    <3> QED
      BY <1>d, <2>1, <2>4, <3>1, <3>2, ZenonT(60)
  <2> QED
    BY <1>6, <2>2, <2>3, <2>4, ZenonT(60) DEF write_log
<1>7. ASSUME NEW p \in Procs, write_head(p) PROVE Done(q, i)'
  <2>1. /\ pc[p] = "write_head" /\ pc' = [pc EXCEPT ![p] = "install"] /\ tail[p] = 0
        /\ UNCHANGED <<tail, lh, logdata, home, cache>>
    BY <1>7, ZenonT(60) DEF write_head, IInv, SpaceInv, Space, Tails
  <2>2. CASE q = p
    <3>1. /\ pc'[q] = "install" /\ i \in 1..Len(lh) /\ i \in Nat /\ ~(i <= tail'[q])
          /\ UNCHANGED <<lh, logdata, home, cache>>
      BY <1>0, <2>1, <2>2, SMTT(60)
    <3>2. logdata[i] = cache[lh[i]]
      BY <1>d, <2>1, <2>2, <3>1, ZenonT(60)
    <3> QED
      BY <3>1, <3>2, ZenonT(60)
  <2>3. CASE q # p
    BY <1>0, <1>2, <2>1, <2>3, ZenonT(60)
  <2> QED
    BY <2>2, <2>3, ZenonT(60)
<1>8. ASSUME NEW p \in Procs, install_trans(p) PROVE Done(q, i)'
  <2>1. CASE q # p
    <3>1. pc'[q] = pc[q]
      BY <1>0, <1>8, <2>1, ZenonT(60) DEF install_trans
    <3>2. pc[q] \notin CommitPC \union {"recover", "recovered"}
      BY <1>8, <2>1, CommitPhase, BootPhase, ZenonT(60) DEF install_trans, CommitPC, BootPC
    <3> QED
      BY <1>1, <3>1, <3>2, ZenonT(60)
  <2>2. CASE q = p /\ tail[p] < Len(lh)
    <3> DEFINE t == tail[p] + 1
    <3>1. /\ t \in 1..Len(lh) /\ lh[t] \in Blocks
          /\ home' = [home EXCEPT ![lh[t]] = logdata[t]]
          /\ cache' = [cache EXCEPT ![lh[t]] = logdata[t]]
          /\ tail' = [tail EXCEPT ![p] = t]
          /\ UNCHANGED <<pc, lh, logdata>>
          /\ i # t => lh[i] # lh[t]
      BY <1>8, <2>2, InstallOne, ZenonT(60)
    <3>2. pc[p] \in {"install", "recover"} /\ tail'[p] = t /\ lh[i] \in Blocks
      BY <1>0, <1>8, <3>1, SMTT(60) DEF install_trans
    <3>3. CASE i = t
      BY <1>0, <2>2, <3>1, <3>2, <3>3, ZenonT(60)
    <3>4. CASE i # t
      <4>1. home'[lh[i]] = home[lh[i]] /\ cache'[lh[i]] = cache[lh[i]]
        BY <1>0, <3>1, <3>2, <3>4, ZenonT(60)
      <4>2. /\ i <= t => i <= tail[p]
            /\ i > t => i > tail[p]
        BY <1>0, <3>1, <3>4, SMTT(60)
      <4> QED
        BY <1>d, <2>2, <3>1, <3>2, <4>1, <4>2, ZenonT(60)
    <3> QED
      BY <3>3, <3>4, ZenonT(60)
  <2>3. CASE q = p /\ tail[p] = Len(lh)
    <3>1. /\ pc[p] \in {"install", "recover"} /\ pc'[p] \in {"clear", "recovered"}
          /\ UNCHANGED <<lh, logdata, home>>
      BY <1>0, <1>8, <2>3, SMTT(60) DEF install_trans
    <3> QED
      BY <1>0, <1>d, <2>3, <3>1, SMTT(60)
  <2> QED
    BY <1>8, <2>1, <2>2, <2>3, ZenonT(60) DEF install_trans
<1>9. ASSUME NEW p \in Procs, clear_head(p) \/ recovered(p) PROVE Done(q, i)'
  <2>1. Len(lh') = 0
    BY <1>9 DEF clear_head, recovered
  <2>2. FALSE
    BY <2>1, SMTT(60)
  <2> QED
    BY <2>2, ZenonT(60)
<1>10. ASSUME NEW p \in Procs, end_commit(p) PROVE Done(q, i)'
  BY <1>0, <1>1, <1>2, <1>10, ZenonT(60) DEF end_commit, disk, Wakeup, CommitPC
<1>11. ASSUME NEW p \in Procs, initlog(p) PROVE Done(q, i)'
  <2>1. /\ \A r \in Procs : pc[r] = "off" /\ tail[r] = 0
        /\ pc' = [pc EXCEPT ![p] = "recover"] /\ tail' = tail
    BY <1>11, ZenonT(60) DEF initlog, IInv, SpaceInv, Space, Tails
  <2>2. pc'[q] \in {"off", "recover"} /\ tail'[q] = 0
    BY <1>0, <2>1, ZenonT(60)
  <2>3. ~(i <= tail'[q])
    BY <2>2, SMTT(60)
  <2> QED
    BY <2>2, <2>3, ZenonT(60)
<1>12. ASSUME NEW b \in Blocks, bread(b) \/ recycle(b) PROVE Done(q, i)'
  <2>1. /\ UNCHANGED <<pc, tail, lh, logdata, home>>
        /\ \A c \in Blocks : c # b => cache'[c] = cache[c]
        /\ cache[b] = NotCached \/ pins[b] = 0
    BY <1>0, <1>12, ZenonT(60) DEF bread, recycle, disk, Unreferenced
  <2>2. pc[q] \in {"write_log", "write_head"} => lh[i] # b
    <3>1. pc[q] \in {"write_log", "write_head"} =>
            \A r \in Procs : pc[r] \notin InstallPC \union BootPC
      BY CommitPhase, ZenonT(60) DEF CommitPC, InstallPC
    <3>2. pc[q] \in {"write_log", "write_head"} =>
            pins[lh[i]] = 1 /\ cache[lh[i]] # NotCached
      BY <2>1, <3>1, NotInstalling, ZenonT(60)
    <3> QED
      BY <2>1, <3>2, SMTT(60)
  <2>3. pc[q] = "install" /\ i > tail[q] => lh[i] # b
    <3> SUFFICES ASSUME pc[q] = "install", i > tail[q] PROVE lh[i] # b
      BY ZenonT(60)
    <3>1. pins[lh[i]] = 1 /\ lh[i] \in Blocks
      BY <1>0, <2>1, SMTT(60) DEF IInv, Pins
    <3>2. cache[lh[i]] # NotCached
      BY <3>1, SMTT(60) DEF IInv, Cached
    <3> QED
      BY <2>1, <3>1, <3>2, SMTT(60)
  <2>4. lh[i] \in Blocks
    BY <1>0, <2>1, SMTT(60)
  <2> QED
    BY <1>d, <2>1, <2>2, <2>3, <2>4, ZenonT(60)
<1>13. ASSUME Crash PROVE Done(q, i)'
  BY <1>13, ZenonT(60) DEF Crash
<1>14. ASSUME NEW p \in Procs, log_write(p) PROVE Done(q, i)'
  BY <1>4, <1>14, ZenonT(60) DEF log_write
<1>15. ASSUME NEW p \in Procs, NEW b \in Blocks, NEW v \in Values, update(p, b, v)
       PROVE  Done(q, i)'
  BY <1>4, <1>15, ZenonT(60) DEF update
<1> QED
  BY <1>3, <1>5, <1>6, <1>7, <1>8, <1>9, <1>10, <1>11, <1>12, <1>13, <1>14, <1>15, ZenonT(60)
     DEF Next, commit

LEMMA StutterInv == IInv /\ UNCHANGED vars => IInv'
<1> SUFFICES ASSUME IInv, UNCHANGED vars PROVE IInv'
  BY ZenonT(60)
<1> USE DEF vars, IInv, SpaceInv
<1>1. TypeOK' /\ Phases' /\ Buffers'
  BY ZenonT(60) DEF TypeOK, Phases, Buffers, Open
<1>2. Space'
  BY ZenonT(60) DEF Space, Capacity, OpWrites, OpSize, Tails, Reserved, Open
<1>c. Counts'
  BY ZenonT(60) DEF Counts, Open
<1>3. Distinct' /\ Heads'
  BY SMTT(60) DEF Distinct, Heads, Up
<1>4. Pins'
  BY ZenonT(60) DEF Pins
<1>5. Cached'
  BY ZenonT(60) DEF Cached, RecycleLosesNothing, Unreferenced
<1>6. Copied'
  BY ZenonT(60) DEF Copied
<1> QED
  BY <1>1, <1>2, <1>3, <1>4, <1>5, <1>6, <1>c, ZenonT(60)

LEMMA ReplayAt ==
  ASSUME NEW hd, NEW data, NEW hm, NEW b \in Blocks
  PROVE  /\ b \notin LogBlocks(hd) => Replay(hd, data, hm)[b] = hm[b]
         /\ b \in LogBlocks(hd) =>
              \E i \in 1..Len(hd) : hd[i] = b /\ Replay(hd, data, hm)[b] = data[i]
<1>1. b \notin LogBlocks(hd) => Replay(hd, data, hm)[b] = hm[b]
  BY ZenonT(60) DEF Replay
<1>2. ASSUME b \in LogBlocks(hd)
      PROVE  \E i \in 1..Len(hd) : hd[i] = b /\ Replay(hd, data, hm)[b] = data[i]
  <2> DEFINE i == CHOOSE j \in 1..Len(hd) : hd[j] = b
  <2>1. \E j \in 1..Len(hd) : hd[j] = b
    BY <1>2, ZenonT(60) DEF LogBlocks
  <2>2. i \in 1..Len(hd) /\ hd[i] = b
    BY <2>1, ZenonT(60)
  <2>3. Replay(hd, data, hm)[b] = data[i]
    BY <1>2, ZenonT(60) DEF Replay
  <2> QED
    BY <2>2, <2>3, ZenonT(60)
<1> QED
  BY <1>1, <1>2, ZenonT(60)

\* Two replays agree if they agree on every block.
LEMMA ReplayEqual ==
  ASSUME NEW hd, NEW data, NEW hm, NEW f, f = [b \in Blocks |-> f[b]],
         \A b \in Blocks : b \notin LogBlocks(hd) => hm[b] = f[b],
         \A i \in 1..Len(hd) : data[i] = f[hd[i]]
  PROVE  Replay(hd, data, hm) = f
<1>1. \A b \in Blocks : Replay(hd, data, hm)[b] = f[b]
  BY ReplayAt
<1>2. Replay(hd, data, hm) = [b \in Blocks |-> Replay(hd, data, hm)[b]]
  BY DEF Replay
<1> QED
  BY <1>1, <1>2, ZenonT(60)

LEMMA ReplayIsFun ==
  ASSUME NEW hd, NEW data, NEW hm
  PROVE  Replay(hd, data, hm) = [b \in Blocks |-> Replay(hd, data, hm)[b]]
  BY DEF Replay

\* With an empty header, recovery changes nothing.
LEMMA ReplayNothing ==
  ASSUME NEW data, NEW hm \in [Blocks -> Values]
  PROVE  Replay(<<>>, data, hm) = hm
  BY DEF Replay, LogBlocks

\* A fully installed log may be cleared.
LEMMA ReplayInstalled ==
  ASSUME NEW hd, NEW data, NEW hm \in [Blocks -> Values],
         \A i \in 1..Len(hd) : hm[hd[i]] = data[i]
  PROVE  Replay(hd, data, hm) = hm
  BY ReplayEqual

\* Installing a logged block does not change what recovery gives.
LEMMA ReplayInstallOne ==
  ASSUME NEW hd, NEW data, NEW hm, NEW hm2,
         \A b \in Blocks : b \notin LogBlocks(hd) => hm2[b] = hm[b]
  PROVE  Replay(hd, data, hm2) = Replay(hd, data, hm)
  BY DEF Replay

\* A buffer that the log does not pin and nobody has modified agrees with the disk.
LEMMA DataIsHome ==
  ASSUME IInv, NEW b \in Blocks, pins[b] = 0, \A p \in Procs : buf[p] # b
  PROVE  Data(b) = home[b]
  BY ZenonT(60) DEF IInv, Cached, RecycleLosesNothing, Unreferenced, Data

\* The steps that leave the disk alone.
LEMMA DiskUnchanged == UNCHANGED disk => Durable' = Durable
  BY ZenonT(60) DEF disk, Durable

LEMMA WriteHeadCommits ==
  ASSUME IInv, NEW p \in Procs, write_head(p)
  PROVE  Up /\ Up' /\ Open = {} /\ Open' = {} /\ Durable' = Current /\ Current' = Current
<1>1. /\ pc[p] = "write_head" /\ head' = lh /\ UNCHANGED <<home, logdata, cache>>
      /\ pc' = [pc EXCEPT ![p] = "install"] /\ pc \in [Procs -> PCs] /\ lh \in Seq(Blocks)
  BY ZenonT(60) DEF write_head, IInv, SpaceInv, TypeOK
<1>2. \A q \in Procs : pc[q] # "op" /\ pc[q] \notin BootPC /\ (q # p => pc[q] \notin CommitPC)
  BY <1>1, CommitPhase, ZenonT(60) DEF CommitPC
<1>3. Up /\ Up' /\ Open = {} /\ Open' = {}
  BY <1>1, <1>2, ZenonT(60) DEF Up, Open, BootPC
<1>4. \A q \in Procs : buf[q] = NoBlock /\ pc[q] \notin InstallPC \union BootPC
  BY <1>1, <1>2, ZenonT(60) DEF IInv, SpaceInv, Buffers, InstallPC, CommitPC
<1>5. \A b \in Blocks : b \notin LogBlocks(lh) => home[b] = Data(b)
  <2> SUFFICES ASSUME NEW b \in Blocks, b \notin LogBlocks(lh) PROVE home[b] = Data(b)
    BY ZenonT(60)
  <2>1. pins[b] = 0
    BY ZenonT(60) DEF IInv, Pins
  <2>2. \A q \in Procs : buf[q] # b
    BY <1>4, LogAssumption, ZenonT(60)
  <2> QED
    BY <2>1, <2>2, DataIsHome, ZenonT(60)
<1>6. \A i \in 1..Len(lh) : lh[i] \in Blocks /\ logdata[i] = Data(lh[i])
  BY <1>1, <1>4, NotInstalling, ZenonT(60) DEF IInv, Copied, Data
<1>7. Current = [b \in Blocks |-> Data(b)]
  BY <1>3, ZenonT(60) DEF Current
<1>8. Replay(lh, logdata, home) = Current
  BY <1>5, <1>6, <1>7, ReplayEqual
<1>9. Durable' = Current
  BY <1>1, <1>8, ZenonT(60) DEF Durable
<1>10. Current' = Current
  BY <1>1, <1>3, ZenonT(60) DEF Current, Data
<1> QED
  BY <1>3, <1>9, <1>10, ZenonT(60)

LEMMA InstallKeeps ==
  ASSUME IInv, NEW p \in Procs, install_trans(p)
  PROVE  Durable' = Durable /\ Current' = Current
<1>0. /\ pc[p] \in {"install", "recover"} /\ head = lh /\ UNCHANGED <<head, logdata>>
      /\ home \in [Blocks -> Values] /\ cache \in [Blocks -> Values \union {NotCached}]
      /\ pc \in [Procs -> PCs] /\ lh \in Seq(Blocks)
  BY ZenonT(60) DEF install_trans, IInv, Heads, InstallPC, SpaceInv, TypeOK
<1>1. CASE tail[p] < Len(lh)
  <2> DEFINE t == tail[p] + 1
             d == lh[t]
  <2>1. /\ t \in 1..Len(lh) /\ d \in Blocks /\ logdata[t] \in Values
        /\ home' = [home EXCEPT ![d] = logdata[t]]
        /\ cache' = [cache EXCEPT ![d] = logdata[t]]
        /\ pc' = pc
    BY <1>1, InstallOne, ZenonT(60)
  <2>2. d \in LogBlocks(head)
    BY <1>0, <2>1, ZenonT(60) DEF LogBlocks
  <2> HIDE DEF d, t
  <2>3. \A b \in Blocks : b \notin LogBlocks(head) => home'[b] = home[b]
    BY <1>0, <2>1, <2>2, ZenonT(60)
  <2>4. Durable' = Durable
    BY <1>0, <2>3, ReplayInstallOne, ZenonT(60) DEF Durable
  <2>5. CASE pc[p] = "install"
    <3>1. Up /\ Up'
      BY <2>1, <2>5, CommitPhase, ZenonT(60) DEF Up, CommitPC, BootPC
    <3>2. tail[p] \in Nat
      BY ZenonT(60) DEF IInv, SpaceInv, TypeOK
    <3>3. cache[d] = logdata[t]
      BY <2>1, <2>5, <3>2, SMTT(60) DEF IInv, Copied, d, t
    <3>4. cache' = cache
      BY <1>0, <2>1, <3>3, ZenonT(60)
    <3>5. cache[d] # NotCached
      BY <2>1, <3>3, LogAssumption, ZenonT(60)
    <3>6. \A b \in Blocks : Data(b)' = Data(b)
      BY <1>0, <2>1, <3>4, <3>5, ZenonT(60) DEF Data
    <3> QED
      BY <2>4, <3>1, <3>6, ZenonT(60) DEF Current
  <2>6. CASE pc[p] = "recover"
    BY <2>1, <2>4, <2>6, ZenonT(60) DEF Current, Up
  <2> QED
    BY <1>0, <2>5, <2>6, ZenonT(60)
<1>2. CASE tail[p] = Len(lh)
  <2>1. /\ UNCHANGED <<home, cache>> /\ \A q \in Procs : q # p => pc'[q] = pc[q]
        /\ pc'[p] = IF pc[p] = "recover" THEN "recovered" ELSE "clear"
    BY <1>0, <1>2 DEF install_trans
  <2>2. Durable' = Durable
    BY <1>0, <2>1, ZenonT(60) DEF Durable
  <2>3. Up' = Up
    BY <1>0, <2>1, ZenonT(60) DEF Up
  <2> QED
    BY <2>1, <2>2, <2>3, ZenonT(60) DEF Current, Data
<1> QED
  BY <1>1, <1>2, ZenonT(60) DEF install_trans

\* clear_head() and the end of recover_from_log() forget an installed log.
LEMMA ClearKeeps ==
  ASSUME IInv, NEW p \in Procs, clear_head(p) \/ recovered(p)
  PROVE  Durable' = Durable /\ Current' = Current
<1>0. /\ pc[p] \in {"clear", "recovered"} /\ head = lh /\ head' = <<>>
      /\ UNCHANGED <<home, logdata, cache>> /\ home \in [Blocks -> Values]
      /\ pc \in [Procs -> PCs]
  BY ZenonT(60) DEF clear_head, recovered, IInv, Heads, InstallPC, SpaceInv, TypeOK
<1>1. \A i \in 1..Len(head) : home[head[i]] = logdata[i]
  BY <1>0, ZenonT(60) DEF IInv, Copied
<1>2. Durable = home /\ Durable' = home
  BY <1>0, <1>1, ReplayInstalled, ReplayNothing, SMTT(60) DEF Durable
<1>3. CASE clear_head(p)
  <2>1. Up /\ Up'
    BY <1>0, <1>3, CommitPhase, ZenonT(60) DEF clear_head, Up, CommitPC, BootPC
  <2> QED
    BY <1>0, <1>2, <2>1, ZenonT(60) DEF Current, Data
<1>4. CASE recovered(p)
  <2>1. ~Up /\ Up'
    BY <1>4, ZenonT(60) DEF recovered, Up
  <2>2. \A q \in Procs : pc[q] # "op"
    BY <1>4, BootPhase, ZenonT(60) DEF recovered
  <2>3. \A b \in Blocks : pins[b] = 0 /\ \A q \in Procs : buf[q] # b
    BY <1>4, <2>2, LogAssumption, ZenonT(60) DEF recovered, IInv, SpaceInv, Pins, Buffers, BootPC
  <2>4. \A b \in Blocks : Data(b)' = home[b]
    BY <1>0, <2>3, DataIsHome, ZenonT(60) DEF Data
  <2> QED
    BY <1>0, <1>2, <2>1, <2>4, ZenonT(60) DEF Current
<1> QED
  BY <1>3, <1>4, ZenonT(60)

\* Everybody else leaves Up, home and logged data as they are.
LEMMA WriteLogKeeps ==
  ASSUME IInv, NEW p \in Procs, write_log(p)
  PROVE  Durable' = Durable /\ Current' = Current
<1>0. /\ pc[p] = "write_log" /\ UNCHANGED <<home, head>>
      /\ home \in [Blocks -> Values] /\ pc \in [Procs -> PCs]
  BY ZenonT(60) DEF write_log, IInv, SpaceInv, TypeOK
<1>1. \A q \in Procs : pc[q] \notin InstallPC \union BootPC
  BY <1>0, CommitPhase, ZenonT(60) DEF CommitPC, InstallPC
<1>2. head = <<>>
  BY <1>1, ZenonT(60) DEF IInv, Heads
<1>3. Durable = home /\ Durable' = home
  BY <1>0, <1>2, ReplayNothing, ZenonT(60) DEF Durable
<1>4. Up /\ Up'
  BY <1>0, <1>1, ZenonT(60) DEF Up, BootPC, write_log
<1>5. cache' = cache
  <2>1. CASE tail[p] < Len(lh)
    BY <2>1, WriteLogOne, ZenonT(60)
  <2>2. CASE tail[p] = Len(lh)
    BY <2>2 DEF write_log
  <2> QED
    BY <2>1, <2>2, ZenonT(60) DEF write_log
<1> QED
  BY <1>0, <1>3, <1>4, <1>5, ZenonT(60) DEF Current, Data

-----------------------------------------------------------------------------
LEMMA InitInv == Init => IInv
<1> SUFFICES ASSUME Init PROVE IInv
  BY ZenonT(60)
<1> USE LogAssumption DEF Init
<1>1. TypeOK
  BY DEF TypeOK, PCs
<1>2. Open = {} /\ Reserved = {}
  BY ZenonT(60) DEF Open, Reserved
<1>3. Phases
  BY <1>2, FS_EmptySet, ZenonT(60) DEF Phases, CommitPC, BootPC
<1>4. Buffers
  BY ZenonT(60) DEF Buffers
<1>5. Space
  BY <1>2, FS_EmptySet DEF Space, Capacity, OpWrites, OpSize, Tails
<1>c. Counts
  BY <1>2 DEF Counts
<1>6. Distinct /\ Pins /\ Heads /\ Cached /\ Copied
  BY DEF Distinct, Pins, Heads, Cached, Copied, BootPC, InstallPC, LogBlocks, RecycleLosesNothing
<1> QED
  BY <1>1, <1>3, <1>4, <1>5, <1>6, <1>c, ZenonT(60) DEF IInv, SpaceInv

LEMMA OpenFinite == IsFiniteSet(Open) /\ Cardinality(Open) \in Nat
  BY LogAssumption, FS_Subset, FS_CardinalityType, ZenonT(60) DEF Open

LEMMA ReservedFiniteFor ==
  ASSUME NEW O, IsFiniteSet(O), NEW w
  PROVE  LET R == {r \in O \X (1..MAXOPBLOCKS) : r[2] > Cardinality(w[r[1]])}
         IN  IsFiniteSet(R) /\ Cardinality(R) \in Nat
<1>1. IsFiniteSet(1..MAXOPBLOCKS)
  BY LogAssumption, FS_Interval
<1>2. IsFiniteSet(O \X (1..MAXOPBLOCKS))
  BY <1>1, FS_Product, ZenonT(60)
<1> QED
  BY <1>2, FS_Subset, FS_CardinalityType, ZenonT(60)

LEMMA ReservedFinite == IsFiniteSet(Reserved) /\ Cardinality(Reserved) \in Nat
  BY OpenFinite, ReservedFiniteFor, ZenonT(60) DEF Reserved

LEMMA FiniteSubset ==
  ASSUME NEW S \in SUBSET Blocks
  PROVE  IsFiniteSet(S) /\ Cardinality(S) \in Nat
  BY LogAssumption, FS_Subset, FS_CardinalityType, ZenonT(60)

LEMMA PhasesStep == IInv /\ Next => Phases'
<1> SUFFICES ASSUME IInv, Next PROVE Phases'
  BY ZenonT(60)
<1> USE DEF IInv, SpaceInv
<1>0. /\ pc \in [Procs -> PCs]
      /\ outstanding \in Nat
      /\ committing \in {0, 1}
      /\ Open \subseteq Procs
  BY ZenonT(60) DEF TypeOK, Open
<1>a. ASSUME UNCHANGED <<pc, outstanding, committing>> PROVE Phases'
  BY <1>a, ZenonT(60) DEF Phases, Open
<1>1. ASSUME NEW p \in Procs, begin_op(p) PROVE Phases'
  <2>1. CASE committing # 0 \/ NoSpace
    <3>1. /\ pc' = [pc EXCEPT ![p] = "asleep"]
          /\ UNCHANGED <<outstanding, committing>>
      BY <1>1, <2>1, ZenonT(60) DEF begin_op
    <3>2. Open' = Open
      BY <1>0, <1>1, <3>1, ZenonT(60) DEF begin_op, Open
    <3> QED
      BY <1>0, <1>1, <3>1, <3>2, SMTT(60) DEF begin_op, Phases, CommitPC, BootPC
  <2>2. CASE committing = 0 /\ ~NoSpace
    <3>1. /\ pc' = [pc EXCEPT ![p] = "op"]
          /\ outstanding' = outstanding + 1
          /\ committing' = committing
      BY <1>1, <2>2, ZenonT(60) DEF begin_op
    <3>2. p \notin Open /\ Open' = Open \union {p}
      BY <1>0, <1>1, <3>1, ZenonT(60) DEF begin_op, Open
    <3>3. outstanding' = Cardinality(Open)'
      BY <3>1, <3>2, OpenFinite, FS_AddElement, ZenonT(60) DEF Phases
    <3> QED
      BY <1>0, <1>1, <2>2, <3>1, <3>3, SMTT(60) DEF begin_op, Phases, CommitPC, BootPC
  <2> QED
    BY <1>0, <2>1, <2>2, ZenonT(60)
<1>2. ASSUME NEW p \in Procs, end_op(p) PROVE Phases'
  <2>1. /\ p \in Open
        /\ outstanding' = outstanding - 1
        /\ committing = 0
    BY <1>0, <1>2, ZenonT(60) DEF end_op, Open, Phases
  <2>2. \A q \in Procs : pc[q] \notin CommitPC /\ pc[q] # "off"
    BY <1>0, <2>1, ZenonT(60) DEF Phases, Open, CommitPC, BootPC
  <2>3. \A q \in Procs : pc[q] \notin BootPC
    BY <1>0, <2>1, <2>2, ZenonT(60) DEF Phases, Open, BootPC
  <2>4. CASE outstanding' = 0
    <3>1. pc' = [pc EXCEPT ![p] = CommitFrom(lh)] /\ committing' = 1
      BY <1>2, <2>4, ZenonT(60) DEF end_op
    <3>2. Open' = Open \ {p}
      BY <1>0, <3>1, ZenonT(60) DEF Open, CommitFrom
    <3>3. outstanding' = Cardinality(Open)'
      BY <2>1, <3>2, OpenFinite, FS_RemoveElement, ZenonT(60) DEF Phases
    <3>4. Open' = {}
      BY <2>4, <3>2, <3>3, OpenFinite, FS_EmptySet, FS_RemoveElement, ZenonT(60)
    <3> QED
      BY <1>0, <2>2, <2>3, <3>1, <3>3, <3>4, ZenonT(60) DEF Phases, CommitPC, BootPC, CommitFrom
  <2>5. CASE outstanding' # 0
    <3>1. pc' = Wakeup([pc EXCEPT ![p] = "idle"]) /\ committing' = committing
      BY <1>2, <2>5, ZenonT(60) DEF end_op
    <3>2. Open' = Open \ {p}
      BY <1>0, <3>1, ZenonT(60) DEF Open, Wakeup
    <3>3. outstanding' = Cardinality(Open)'
      BY <2>1, <3>2, OpenFinite, FS_RemoveElement, ZenonT(60) DEF Phases
    <3>4. \A q \in Procs : pc'[q] \notin CommitPC \union BootPC
      BY <1>0, <2>2, <2>3, <3>1, ZenonT(60) DEF CommitPC, BootPC, Wakeup
    <3> QED
      BY <2>1, <3>1, <3>3, <3>4, ZenonT(60) DEF Phases, BootPC
  <2> QED
    BY <2>4, <2>5, ZenonT(60)
<1>3. ASSUME NEW p \in Procs, commit(p) PROVE Phases'
  <2>1. CASE pc[p] = "end_commit"
    <3>1. /\ pc' = Wakeup([pc EXCEPT ![p] = "idle"])
          /\ committing' = 0
          /\ outstanding' = outstanding
      BY <1>3, <2>1, ZenonT(60) DEF commit, write_log, write_head, install_trans, clear_head, end_commit
    <3>2. committing = 1 /\ \A q \in Procs : q # p => pc[q] \notin CommitPC
      BY <2>1, ZenonT(60) DEF Phases, CommitPC
    <3>3. \A q \in Procs : pc'[q] \notin CommitPC \union BootPC
      BY <1>0, <3>1, <3>2 DEF Phases, CommitPC, BootPC, Wakeup
    <3>4. Open' = Open
      BY <1>0, <2>1, <3>1, ZenonT(60) DEF Open, Wakeup
    <3> QED
      BY <1>0, <3>1, <3>3, <3>4, ZenonT(60) DEF Phases, BootPC, CommitPC
  <2>2. CASE pc[p] \in CommitPC \ {"end_commit"}
    <3>1. /\ pc'[p] \in CommitPC /\ \A q \in Procs \ {p} : pc'[q] = pc[q]
          /\ UNCHANGED <<committing, outstanding>>
      <4>1. CASE write_log(p)
        BY <1>0, <4>1, ZenonT(60) DEF write_log, CommitPC
      <4>2. CASE install_trans(p)
        BY <1>0, <2>2, <4>2, ZenonT(60) DEF install_trans, CommitPC
      <4>3. CASE write_head(p) \/ clear_head(p)
        BY <1>0, <4>3, ZenonT(60) DEF write_head, clear_head, CommitPC
      <4> QED
        BY <1>3, <2>2, <4>1, <4>2, <4>3, ZenonT(60) DEF commit, end_commit
    <3>2. Open' = Open
      BY <1>0, <2>2, <3>1, ZenonT(60) DEF Open, CommitPC
    <3> QED
      BY <1>0, <2>2, <3>1, <3>2, SMTT(60) DEF Phases, CommitPC, BootPC
  <2>3. CASE pc[p] = "recover"
    <3>1. /\ pc' = pc \/ pc' = [pc EXCEPT ![p] = "recovered"]
          /\ UNCHANGED <<committing, outstanding>>
      BY <1>3, <2>3, ZenonT(60) DEF commit, write_log, write_head, install_trans, clear_head, end_commit
    <3>2. Open' = Open
      BY <1>0, <2>3, <3>1, ZenonT(60) DEF Open
    <3> QED
      BY <1>0, <2>3, <3>1, <3>2, SMTT(60) DEF Phases, CommitPC, BootPC
  <2> QED
    BY <1>3, <2>1, <2>2, <2>3, ZenonT(60)
       DEF commit, write_log, write_head, install_trans, clear_head, end_commit, CommitPC
<1>4. ASSUME NEW p \in Procs, initlog(p) PROVE Phases'
  <2>1. Open = {} /\ Open' = {}
    BY <1>0, <1>4, ZenonT(60) DEF initlog, Open
  <2> QED
    BY <1>0, <1>4, <2>1 DEF initlog, Phases, CommitPC, BootPC
<1>5. ASSUME NEW p \in Procs, recovered(p) PROVE Phases'
  <2>1. \A q \in Procs : pc[q] \in BootPC
    BY <1>5, ZenonT(60) DEF recovered, Phases, BootPC
  <2>2. Open = {} /\ Open' = {}
    BY <1>5, <2>1, ZenonT(60) DEF recovered, Open, BootPC
  <2> QED
    BY <1>0, <1>5, <2>1, <2>2, ZenonT(60) DEF recovered, Phases, CommitPC, BootPC
<1>6. ASSUME Crash PROVE Phases'
  <2>1. Open' = {}
    BY <1>6, ZenonT(60) DEF Crash, Open
  <2> QED
    BY <1>6, <2>1, FS_EmptySet, ZenonT(60) DEF Crash, Phases, CommitPC, BootPC
<1>7. ASSUME NEW p \in Procs, log_write(p) PROVE Phases'
  BY <1>7, <1>a, ZenonT(60) DEF log_write
<1>8. ASSUME NEW p \in Procs, NEW b \in Blocks, NEW v \in Values, update(p, b, v)
      PROVE  Phases'
  BY <1>8, <1>a, ZenonT(60) DEF update
<1>9. ASSUME NEW b \in Blocks, bread(b) \/ recycle(b) PROVE Phases'
  BY <1>9, <1>a, ZenonT(60) DEF bread, recycle
<1> QED
  BY <1>1, <1>2, <1>3, <1>4, <1>5, <1>6, <1>7, <1>8, <1>9, ZenonT(60) DEF Next

LEMMA OpSizeStep == IInv /\ Next => OpSize'
<1> DEFINE SizeOK(q) == /\ Cardinality(wrote[q]) <= OpBlocks
                        /\ buf[q] # NoBlock => Cardinality(wrote[q] \union {buf[q]}) <= OpBlocks
<1> SUFFICES ASSUME IInv, Next, NEW q \in Procs PROVE SizeOK(q)'
  BY ZenonT(60) DEF OpSize
<1>0. /\ wrote \in [Procs -> SUBSET Blocks] /\ SizeOK(q)
      /\ buf \in [Procs -> Blocks \union {NoBlock}]
  BY ZenonT(60) DEF IInv, SpaceInv, TypeOK, Space, OpSize
<1>e. Cardinality({}) = 0 /\ OpBlocks \in Nat
  BY FS_EmptySet, LogAssumption, ZenonT(60)
<1>1. ASSUME UNCHANGED <<buf, wrote>> PROVE SizeOK(q)'
  BY <1>0, <1>1, ZenonT(60)
<1>2. ASSUME NEW p \in Procs, NEW b \in Blocks, NEW v \in Values, update(p, b, v)
      PROVE  SizeOK(q)'
  BY <1>0, <1>2, ZenonT(60) DEF update
<1>3. ASSUME NEW p \in Procs, log_write(p) PROVE SizeOK(q)'
  BY <1>0, <1>3, ZenonT(60) DEF log_write
<1>4. ASSUME NEW p \in Procs, end_op(p) PROVE SizeOK(q)'
  <2>1. buf' = buf /\ buf[p] = NoBlock /\ wrote' = [wrote EXCEPT ![p] = {}]
    BY <1>4, ZenonT(60) DEF end_op
  <2>2. CASE q = p
    BY <1>0, <1>e, <2>1, <2>2
  <2>3. CASE q # p
    BY <1>0, <2>1, <2>3, ZenonT(60)
  <2> QED
    BY <2>2, <2>3, ZenonT(60)
<1>5. ASSUME Crash PROVE SizeOK(q)'
  BY <1>e, <1>5, SMTT(60) DEF Crash
<1>6. ASSUME NEW p \in Procs, begin_op(p) PROVE SizeOK(q)'
  BY <1>1, <1>6, ZenonT(60) DEF begin_op, ops
<1>7. ASSUME NEW p \in Procs, commit(p) \/ initlog(p) \/ recovered(p) PROVE SizeOK(q)'
  BY <1>1, <1>7, CommitOpens, ZenonT(60)
<1>8. ASSUME NEW b \in Blocks, bread(b) \/ recycle(b) PROVE SizeOK(q)'
  BY <1>1, <1>8, ZenonT(60) DEF bread, recycle, ops
<1> QED
  BY <1>2, <1>3, <1>4, <1>5, <1>6, <1>7, <1>8, ZenonT(60) DEF Next

LEMMA CapacityStep == IInv /\ Next => Capacity'
<1> SUFFICES ASSUME IInv, Next PROVE Capacity'
  BY ZenonT(60)
<1>0. /\ wrote \in [Procs -> SUBSET Blocks] /\ lh \in Seq(Blocks) /\ head \in Seq(Blocks)
      /\ buf \in [Procs -> Blocks \union {NoBlock}] /\ outstanding \in Nat
      /\ Len(lh) \in Nat /\ Len(head) \in Nat /\ Open \subseteq Procs
  BY DEF IInv, SpaceInv, TypeOK, Open
<1>l. LOGBLOCKS \in Nat /\ MAXOPBLOCKS \in Nat
  BY LogAssumption, ZenonT(60)
<1>i. Capacity /\ OpWrites /\ OpSize /\ Phases
  BY ZenonT(60) DEF IInv, SpaceInv, Space
<1>r. /\ IsFiniteSet(Reserved) /\ Cardinality(Reserved) \in Nat
  BY ReservedFinite, ZenonT(60)
<1>1. ASSUME UNCHANGED <<lh, head>>, Reserved' \subseteq Reserved PROVE Capacity'
  <2>1. Cardinality(Reserved') \in Nat /\ Cardinality(Reserved') <= Cardinality(Reserved)
    BY <1>1, <1>r, FS_Subset, FS_CardinalityType, ZenonT(60)
  <2> QED
    BY <1>0, <1>l, <1>i, <1>r, <1>1, <2>1, SMTT(60) DEF Capacity
<1>2. ASSUME NEW p \in Procs, begin_op(p) PROVE Capacity'
  <2>1. UNCHANGED <<lh, head, wrote>>
    BY <1>2, ZenonT(60) DEF begin_op, disk, ops
  <2>2. CASE Open' = Open
    BY <1>1, <2>1, <2>2, ZenonT(60) DEF Reserved
  <2>3. CASE Open' = Open \union {p} /\ ~NoSpace
    <3>1. Cardinality(Open') = outstanding + 1 /\ IsFiniteSet(Open')
      BY <1>2, <1>i, <2>3, BeginOpOpens, OpenFinite, FS_AddElement, ZenonT(60) DEF Phases
    <3>2. IsFiniteSet(1..MAXOPBLOCKS) /\ Cardinality(1..MAXOPBLOCKS) = MAXOPBLOCKS
      BY <1>l, FS_Interval
    <3>3. /\ IsFiniteSet(Open' \X (1..MAXOPBLOCKS))
          /\ Cardinality(Open' \X (1..MAXOPBLOCKS)) = (outstanding + 1) * MAXOPBLOCKS
      <4>1. /\ IsFiniteSet(Open' \X (1..MAXOPBLOCKS))
            /\ Cardinality(Open' \X (1..MAXOPBLOCKS))
                 = Cardinality(Open') * Cardinality(1..MAXOPBLOCKS)
        BY <3>1, <3>2, FS_Product, Zenon
      <4> QED
        BY <3>1, <3>2, <4>1, Zenon
    <3>4. Reserved' \subseteq Open' \X (1..MAXOPBLOCKS)
      BY ZenonT(60) DEF Reserved
    <3>5. /\ Cardinality(Reserved') \in Nat
          /\ Cardinality(Reserved') <= (outstanding + 1) * MAXOPBLOCKS
      BY <3>3, <3>4, FS_Subset, FS_CardinalityType, SMTT(60)
    <3>6. Len(lh) + (outstanding + 1) * MAXOPBLOCKS <= LOGBLOCKS
      BY <1>0, <1>l, <2>3 DEF NoSpace
    <3> QED
      BY <1>0, <1>l, <1>i, <2>1, <3>5, <3>6, SMTT(60) DEF Capacity
  <2> QED
    BY <1>2, <2>2, <2>3, BeginOpOpens, ZenonT(60)
<1>3. ASSUME NEW p \in Procs, log_write(p) PROVE Capacity'
  <2>1. /\ Open' = Open /\ p \in Open /\ buf[p] \in Blocks /\ head' = head
        /\ wrote' = [wrote EXCEPT ![p] = @ \union {buf[p]}]
    BY <1>0, <1>3, ZenonT(60) DEF log_write, Open, disk
  <2>2. \A q \in Procs : /\ wrote[q] \in SUBSET Blocks /\ wrote'[q] \in SUBSET Blocks
                          /\ wrote[q] \subseteq wrote'[q]
    BY <1>0, <2>1, ZenonT(60)
  <2>3. \A q \in Procs : /\ Cardinality(wrote[q]) \in Nat /\ Cardinality(wrote'[q]) \in Nat
                          /\ Cardinality(wrote[q]) <= Cardinality(wrote'[q])
    BY <2>2, FiniteSubset, FS_Subset, ZenonT(60)
  <2>4. Reserved' \subseteq Reserved
    <3> SUFFICES ASSUME NEW r \in Open \X (1..MAXOPBLOCKS), r[2] > Cardinality(wrote'[r[1]])
                 PROVE  r[2] > Cardinality(wrote[r[1]])
      BY <2>1, ZenonT(60) DEF Reserved
    <3>1. r[1] \in Procs /\ r[2] \in Nat
      BY <1>0, <1>l
    <3> QED
      BY <2>3, <3>1, SMTT(60)
  <2>5. CASE buf[p] \in LogBlocks(lh)
    BY <1>1, <1>3, <2>1, <2>4, <2>5, ZenonT(60) DEF log_write
  <2>6. CASE buf[p] \notin LogBlocks(lh)
    <3> DEFINE n == Cardinality(wrote[p])
               r == <<p, n + 1>>
    <3>1. Len(lh') = Len(lh) + 1
      BY <1>0, <1>3, <2>1, <2>6, SMTT(60) DEF log_write
    <3>2. wrote'[p] = wrote[p] \union {buf[p]} /\ buf[p] \notin wrote[p]
      BY <1>0, <1>i, <2>1, <2>6, ZenonT(60) DEF OpWrites
    <3>3. Cardinality(wrote'[p]) = n + 1 /\ n \in Nat
      BY <1>0, <2>2, <2>3, <3>2, FiniteSubset, FS_AddElement, ZenonT(60)
    <3>4. n + 1 <= MAXOPBLOCKS
      <4>1. pc[p] = "op" /\ buf[p] # NoBlock
        BY <1>3, ZenonT(60) DEF log_write
      <4>2. Cardinality(wrote'[p]) <= OpBlocks
        BY <1>i, <3>2, <4>1, ZenonT(60) DEF OpSize
      <4> QED
        BY <3>3, <4>2, LogAssumption, SMTT(60)
    <3>5. n + 1 \in 1..MAXOPBLOCKS
      BY <1>l, <3>3, <3>4, SMTT(60)
    <3>6. r \in Reserved
      BY <2>1, <3>3, <3>5, SMTT(60) DEF Reserved
    <3>7. r \notin Reserved'
      BY <3>3, SMTT(60) DEF Reserved
    <3>8. Cardinality(Reserved \ {r}) = Cardinality(Reserved) - 1 /\ IsFiniteSet(Reserved \ {r})
      BY <1>r, <3>6, FS_RemoveElement, SMTT(60)
    <3>9. Reserved' \subseteq Reserved \ {r}
      BY <2>4, <3>7, ZenonT(60)
    <3>10. /\ Cardinality(Reserved') \in Nat
           /\ Cardinality(Reserved') <= Cardinality(Reserved) - 1
      <4> HIDE DEF r
      <4>1. IsFiniteSet(Reserved') /\ Cardinality(Reserved') <= Cardinality(Reserved \ {r})
        BY <3>8, <3>9, FS_Subset, ZenonT(60)
      <4>2. Cardinality(Reserved') \in Nat
        BY <4>1, FS_CardinalityType, ZenonT(60)
      <4> QED
        BY <3>8, <4>1, <4>2, ZenonT(60)
    <3> QED
      BY <1>0, <1>l, <1>i, <1>r, <2>1, <3>1, <3>10, SMTT(60) DEF Capacity
  <2> QED
    BY <2>5, <2>6, ZenonT(60)
<1>4. ASSUME NEW p \in Procs, end_op(p) PROVE Capacity'
  <2>1. Reserved' \subseteq Reserved
    <3>1. Open' = Open \ {p} /\ wrote' = [wrote EXCEPT ![p] = {}]
      BY <1>4, EndOpCloses, ZenonT(60) DEF end_op
    <3>2. \A q \in Open' : q \in Open /\ wrote'[q] = wrote[q]
      BY <1>0, <3>1, ZenonT(60)
    <3> QED
      BY <3>2, ZenonT(60) DEF Reserved
  <2> QED
    BY <1>1, <1>4, <2>1, ZenonT(60) DEF end_op, disk
<1>5. ASSUME NEW p \in Procs, commit(p) \/ initlog(p) \/ recovered(p) PROVE Capacity'
  <2>1. Reserved' = Reserved
    BY <1>5, CommitOpens, ZenonT(60) DEF Reserved
  <2>2. Len(lh) <= LOGBLOCKS /\ Len(head) <= LOGBLOCKS
    BY <1>i, ZenonT(60) DEF IInv, SpaceInv, Counts, Capacity
  <2>3. lh' \in {lh, head, <<>>} /\ head' \in {lh, head, <<>>}
    BY <1>5, ZenonT(60) DEF commit, write_log, write_head, install_trans, clear_head, end_commit,
                initlog, recovered, disk
  <2>4. Open = {} => Cardinality(Reserved) = 0
    BY FS_EmptySet, ZenonT(60) DEF Reserved
  <2>5. Len(lh') \in Nat /\ Len(lh') <= LOGBLOCKS /\ Len(head') <= LOGBLOCKS
    BY <1>0, <1>l, <2>2, <2>3, SMTT(60)
  <2>6. Len(lh') + Cardinality(Reserved) <= LOGBLOCKS
    <3>1. lh' = lh \/ Open = {}
      BY <1>5, CommitOpens, ZenonT(60)
    <3>2. CASE lh' = lh
      BY <1>i, <3>2, ZenonT(60) DEF Capacity
    <3>3. CASE Open = {}
      BY <2>4, <2>5, <3>3, SMTT(60)
    <3> QED
      BY <3>1, <3>2, <3>3, ZenonT(60)
  <2> QED
    BY <2>1, <2>5, <2>6, ZenonT(60) DEF Capacity
<1>6. ASSUME NEW p \in Procs, NEW b \in Blocks, NEW v \in Values, update(p, b, v)
      PROVE  Capacity'
  BY <1>1, <1>6, ZenonT(60) DEF update, disk, Reserved, Open
<1>7. ASSUME NEW b \in Blocks, bread(b) \/ recycle(b) PROVE Capacity'
  BY <1>1, <1>7, ZenonT(60) DEF bread, recycle, disk, ops, Reserved, Open
<1>8. ASSUME Crash PROVE Capacity'
  <2>1. Reserved' = {}
    BY <1>8, ZenonT(60) DEF Crash, Open, Reserved
  <2> QED
    BY <1>0, <1>l, <1>i, <1>8, <2>1, FS_EmptySet, SMTT(60) DEF Crash, Capacity, disk
<1> QED
  BY <1>2, <1>3, <1>4, <1>5, <1>6, <1>7, <1>8, ZenonT(60) DEF Next

LEMMA SpaceStep == IInv /\ Next => Space'
  BY CapacityStep, OpWritesStep, OpSizeStep, TailsStep, ZenonT(60) DEF Space

LEMMA CountsStep == IInv /\ Next => Counts'
<1> SUFFICES ASSUME IInv, Next PROVE Counts'
  BY ZenonT(60)
<1>1. TypeOK' /\ Phases' /\ Capacity'
  BY TypeStep, PhasesStep, CapacityStep, ZenonT(60)
<1>2. IsFiniteSet(Open') /\ Open' \subseteq Procs
  BY LogAssumption, FS_Subset, ZenonT(60) DEF Open
<1>3. IsFiniteSet(Reserved') /\ Cardinality(Reserved') \in Nat
  BY <1>2, ReservedFiniteFor, ZenonT(60) DEF Reserved
<1>4. Len(lh') <= LOGBLOCKS
  BY <1>1, <1>3, LogAssumption DEF TypeOK, Capacity
<1>5. outstanding' = 0 <=> Open' = {}
  BY <1>1, <1>2, FS_EmptySet, ZenonT(60) DEF Phases
<1> QED
  BY <1>4, <1>5, ZenonT(60) DEF Counts
-----------------------------------------------------------------------------
\* The steps of an operation, of a reader and of a crash, one lemma for each
\* action of AtomicDisk they implement.
LEMMA BeginOpBegins ==
  ASSUME IInv, NEW p \in Procs, begin_op(p)
  PROVE  AD!Begin(p) \/ UNCHANGED <<Current, Durable, Open>>
<1>0. /\ pc[p] \in {"idle", "begin"} /\ pc \in [Procs -> PCs]
      /\ UNCHANGED <<disk, home, cache>>
  BY ZenonT(60) DEF begin_op, disk, IInv, SpaceInv, TypeOK
<1>1. pc' = [pc EXCEPT ![p] = "asleep"] \/ pc' = [pc EXCEPT ![p] = "op"]
  BY ZenonT(60) DEF begin_op
<1>2. Up' = Up
  BY <1>0, <1>1, ZenonT(60) DEF Up
<1>3. UNCHANGED <<Current, Durable>>
  BY <1>0, <1>2, DiskUnchanged, ZenonT(60) DEF Current, Data
<1>4. CASE pc' = [pc EXCEPT ![p] = "asleep"]
  <2>1. Open' = Open
    BY <1>0, <1>4, ZenonT(60) DEF Open
  <2> QED
    BY <1>3, <2>1, ZenonT(60)
<1>5. CASE pc' = [pc EXCEPT ![p] = "op"]
  <2>1. p \notin Open /\ Open' = Open \union {p}
    BY <1>0, <1>5 DEF Open
  <2> QED
    BY <1>3, <2>1, ZenonT(60) DEF AD!Begin
<1> QED
  BY <1>1, <1>4, <1>5, ZenonT(60)

LEMMA UpdateUpdates ==
  ASSUME IInv, NEW p \in Procs, NEW b \in Blocks, NEW v \in Values, update(p, b, v)
  PROVE  AD!Update(p, b, v)
<1>0. /\ pc[p] = "op" /\ UNCHANGED <<disk, home, pc>> /\ cache' = [cache EXCEPT ![b] = v]
      /\ cache \in [Blocks -> Values \union {NotCached}]
  BY ZenonT(60) DEF update, disk, IInv, SpaceInv, TypeOK
<1>1. Up /\ Up'
  BY <1>0, OpPhase, ZenonT(60) DEF Up, BootPC
<1>2. p \in Open /\ Open' = Open
  BY <1>0, ZenonT(60) DEF Open
<1>3. \A c \in Blocks : Data(c)' = IF c = b THEN v ELSE Data(c)
  BY <1>0, LogAssumption, ZenonT(60) DEF Data
<1>4. Current' = [Current EXCEPT ![b] = v]
  BY <1>1, <1>3, ZenonT(60) DEF Current
<1> QED
  BY <1>0, <1>2, <1>4, DiskUnchanged, ZenonT(60) DEF AD!Update

LEMMA EndOpEnds ==
  ASSUME IInv, NEW p \in Procs, end_op(p)
  PROVE  AD!End(p)
<1>0. pc[p] = "op" /\ UNCHANGED <<disk, home, cache>> /\ pc \in [Procs -> PCs]
  BY ZenonT(60) DEF end_op, disk, IInv, SpaceInv, TypeOK
<1>1. /\ pc'[p] \in {"write_log", "end_commit", "idle"}
      /\ \A q \in Procs : q # p => \/ pc'[q] = pc[q]
                                   \/ pc[q] = "asleep" /\ pc'[q] = "begin"
  <2>1. CASE pc' = [pc EXCEPT ![p] = CommitFrom(lh)]
    BY <1>0, <2>1, ZenonT(60) DEF CommitFrom
  <2>2. CASE pc' = Wakeup([pc EXCEPT ![p] = "idle"])
    BY <1>0, <2>2, ZenonT(60) DEF Wakeup
  <2> QED
    BY <2>1, <2>2, ZenonT(60) DEF end_op
<1>2. Up /\ Up'
  BY <1>0, <1>1, OpPhase, ZenonT(60) DEF Up, BootPC
<1>3. p \in Open /\ Open' = Open \ {p}
  BY <1>0, <1>1, ZenonT(60) DEF Open
<1> QED
  BY <1>0, <1>2, <1>3, DiskUnchanged, ZenonT(60) DEF AD!End, Current, Data

\* Steps that only the log itself or a reader sees.
LEMMA QuietSteps ==
  ASSUME IInv,
         NEW p \in Procs,
         log_write(p) \/ end_commit(p) \/ initlog(p)
  PROVE  UNCHANGED <<Current, Durable, Open>>
<1>0. UNCHANGED <<disk, home, cache>> /\ pc \in [Procs -> PCs]
  BY ZenonT(60) DEF log_write, end_commit, initlog, disk, IInv, SpaceInv, TypeOK
<1>1. Up' = Up /\ Open' = Open
  <2>1. CASE log_write(p)
    BY <2>1, ZenonT(60) DEF log_write, Up, Open
  <2>2. CASE end_commit(p)
    BY <1>0, <2>2, ZenonT(60) DEF end_commit, Wakeup, Up, Open
  <2>3. CASE initlog(p)
    BY <1>0, <2>3, ZenonT(60) DEF initlog, Up, Open
  <2> QED
    BY <2>1, <2>2, <2>3, ZenonT(60)
<1> QED
  BY <1>0, <1>1, DiskUnchanged, ZenonT(60) DEF Current, Data

LEMMA CacheSteps ==
  ASSUME IInv, NEW b \in Blocks, bread(b) \/ recycle(b)
  PROVE  UNCHANGED <<Current, Durable, Open>>
<1>0. /\ Up /\ UNCHANGED <<disk, home, pc>>
      /\ home \in [Blocks -> Values] /\ cache \in [Blocks -> Values \union {NotCached}]
  BY ZenonT(60) DEF bread, recycle, disk, IInv, SpaceInv, TypeOK
<1>1. Up' /\ Open' = Open
  BY <1>0, ZenonT(60) DEF Up, Open
<1>2. \A c \in Blocks : Data(c)' = Data(c)
  <2>1. CASE bread(b)
    BY <1>0, <2>1, ZenonT(60) DEF bread, Data
  <2>2. CASE recycle(b)
    BY <1>0, <2>2, ZenonT(60) DEF recycle, Data, IInv, Cached, RecycleLosesNothing
  <2> QED
    BY <2>1, <2>2, ZenonT(60)
<1> QED
  BY <1>0, <1>1, <1>2, DiskUnchanged, ZenonT(60) DEF Current

LEMMA CrashCrashes ==
  ASSUME IInv, Crash
  PROVE  AD!Crash
<1>1. UNCHANGED disk /\ ~Up' /\ Open' = {}
  BY ZenonT(60) DEF Crash, Up, Open
<1> QED
  BY <1>1, DiskUnchanged, ZenonT(60) DEF AD!Crash, Current

\* The commit, installation and recovery steps never open or close an operation.
LEMMA OpenUnchanged ==
  ASSUME IInv, NEW p \in Procs,
         write_log(p) \/ install_trans(p) \/ clear_head(p) \/ recovered(p)
  PROVE  Open' = Open
<1>0. pc \in [Procs -> PCs]
  BY ZenonT(60) DEF IInv, SpaceInv, TypeOK
<1>1. CASE recovered(p)
  BY <1>1, BootPhase, ZenonT(60) DEF recovered, Open
<1>2. CASE write_log(p)
  BY <1>0, <1>2, ZenonT(60) DEF write_log, Open
<1>3. CASE install_trans(p)
  BY <1>0, <1>3, ZenonT(60) DEF install_trans, Open
<1>4. CASE clear_head(p)
  BY <1>0, <1>4, ZenonT(60) DEF clear_head, Open
<1> QED
  BY <1>1, <1>2, <1>3, <1>4, ZenonT(60)

LEMMA RefinesInit == Init => AD!Init
<1> SUFFICES ASSUME Init PROVE AD!Init
  BY ZenonT(60)
<1>1. Durable = home
  BY ReplayNothing, ZenonT(60) DEF Init, Durable
<1>2. Current = Durable
  <2>1. CASE Procs = {}
    BY <1>1, <2>1, ZenonT(60) DEF Init, Current, Data
  <2>2. CASE Procs # {}
    BY <2>2, ZenonT(60) DEF Init, Current, Up
  <2> QED
    BY <2>1, <2>2, ZenonT(60)
<1>3. Open = {}
  BY ZenonT(60) DEF Init, Open
<1> QED
  BY <1>1, <1>2, <1>3, ZenonT(60) DEF Init, AD!Init

LEMMA RefinesNext == IInv /\ [Next]_vars => [AD!Next]_(AD!vars)
<1> SUFFICES ASSUME IInv, [Next]_vars PROVE AD!Next \/ UNCHANGED AD!vars
  BY ZenonT(60)
<1>1. ASSUME NEW p \in Procs, begin_op(p) PROVE AD!Next \/ UNCHANGED AD!vars
  BY <1>1, BeginOpBegins, ZenonT(60) DEF AD!Next, AD!vars
<1>2. ASSUME NEW p \in Procs, NEW b \in Blocks, NEW v \in Values, update(p, b, v)
      PROVE  AD!Next
  BY <1>2, UpdateUpdates, ZenonT(60) DEF AD!Next
<1>3. ASSUME NEW p \in Procs, end_op(p) PROVE AD!Next
  BY <1>3, EndOpEnds, ZenonT(60) DEF AD!Next
<1>4. ASSUME NEW p \in Procs, write_head(p) PROVE AD!Next
  BY <1>4, WriteHeadCommits, ZenonT(60) DEF AD!Next, AD!Commit
<1>5. ASSUME NEW p \in Procs,
             write_log(p) \/ install_trans(p) \/ clear_head(p) \/ recovered(p)
      PROVE  UNCHANGED AD!vars
  BY <1>5, OpenUnchanged, WriteLogKeeps, InstallKeeps, ClearKeeps, ZenonT(60) DEF AD!vars
<1>6. ASSUME NEW p \in Procs, log_write(p) \/ end_commit(p) \/ initlog(p)
      PROVE  UNCHANGED AD!vars
  BY <1>6, QuietSteps, ZenonT(60) DEF AD!vars
<1>7. ASSUME NEW b \in Blocks, bread(b) \/ recycle(b) PROVE UNCHANGED AD!vars
  BY <1>7, CacheSteps, ZenonT(60) DEF AD!vars
<1>8. ASSUME Crash PROVE AD!Next
  BY <1>8, CrashCrashes, ZenonT(60) DEF AD!Next
<1>9. ASSUME UNCHANGED vars PROVE UNCHANGED AD!vars
  BY <1>9, ZenonT(60) DEF vars, AD!vars, Current, Durable, Open, Up, Data
<1> QED
  BY <1>1, <1>2, <1>3, <1>4, <1>5, <1>6, <1>7, <1>8, <1>9, ZenonT(60) DEF Next, commit

-----------------------------------------------------------------------------
LEMMA InductiveInv == Spec => []IInv
<1>1. Init => IInv
  BY InitInv, ZenonT(60)
<1>2. IInv /\ [Next]_vars => IInv'
  BY TypeStep, PhasesStep, BuffersStep, SpaceStep, CountsStep, DistinctStep, PinsStep, HeadsStep,
     CachedStep, CopiedStep, StutterInv, ZenonT(60) DEF IInv, SpaceInv
<1> QED
  BY <1>1, <1>2, PTL DEF Spec

(***************************************************************************)
(* The variables of the log, the disk and the buffer cache keep their      *)
(* types; in particular bunpin() never takes a reference count below zero. *)
(***************************************************************************)
THEOREM TypeCorrect == Spec => []TypeOK
<1>1. IInv => TypeOK
  BY ZenonT(60) DEF IInv, SpaceInv
<1> QED
  BY <1>1, InductiveInv, PTL

(***************************************************************************)
(* log.lh.block[] is never indexed past its end, whatever operations run   *)
(* together, as long as each writes at most MAXOPBLOCKS distinct blocks:   *)
(* the reservation rule of begin_op() is sufficient.                       *)
(***************************************************************************)
THEOREM ReservationSuffices == Spec => [](Len(lh) <= LOGBLOCKS)
<1>1. IInv => Len(lh) <= LOGBLOCKS
  BY ZenonT(60) DEF IInv, SpaceInv, Counts
<1> QED
  BY <1>1, InductiveInv, PTL

(***************************************************************************)
(* If every operation writes fewer than MAXOPBLOCKS distinct blocks, no    *)
(* panic of log.c is reached: neither "too big a transaction" nor          *)
(* "log_write outside of trans" nor "log.committing".                      *)
(***************************************************************************)
THEOREM NeverPanics == OpBlocks < MAXOPBLOCKS => (Spec => []NoPanic)
<1> SUFFICES ASSUME OpBlocks < MAXOPBLOCKS PROVE Spec => []NoPanic
  BY ZenonT(60)
<1>1. Init => NoPanic
  BY ZenonT(60) DEF Init, NoPanic
<1>2. IInv /\ NoPanic /\ [Next]_vars => NoPanic'
  <2> SUFFICES ASSUME IInv, NoPanic, [Next]_vars PROVE panicked' = 0
    BY ZenonT(60) DEF NoPanic
  <2>1. ASSUME NEW p \in Procs, log_write(p) PROVE panicked' = 0
    <3> DEFINE r == <<p, MAXOPBLOCKS>>
    <3>1. p \in Open /\ wrote[p] \in SUBSET Blocks /\ Len(lh) \in Nat /\ outstanding \in Nat
      BY <2>1 DEF log_write, Open, IInv, SpaceInv, TypeOK
    <3>2. Cardinality(wrote[p]) \in Nat /\ Cardinality(wrote[p]) < MAXOPBLOCKS
      <4>1. Cardinality(wrote[p]) \in Nat
        BY <3>1, FiniteSubset, ZenonT(60)
      <4>2. Cardinality(wrote[p]) <= OpBlocks
        BY ZenonT(60) DEF IInv, SpaceInv, Space, OpSize
      <4> QED
        BY <4>1, <4>2, LogAssumption
    <3>3. r \in Reserved
      BY <3>1, <3>2, LogAssumption DEF Reserved
    <3>4. Cardinality(Reserved) # 0 /\ Cardinality(Reserved) \in Nat
      BY <3>3, ReservedFinite, FS_EmptySet, ZenonT(60)
    <3>5. Len(lh) < LOGBLOCKS
      BY <3>1, <3>4, LogAssumption DEF IInv, SpaceInv, Space, Capacity
    <3>6. outstanding >= 1
      <4>1. outstanding = Cardinality(Open) /\ outstanding \in Nat
        BY ZenonT(60) DEF IInv, SpaceInv, Phases, TypeOK
      <4>2. Open # {}
        BY <3>1, ZenonT(60)
      <4>3. Cardinality(Open) # 0
        BY <4>2, OpenFinite, FS_EmptySet, ZenonT(60)
      <4> QED
        BY <4>1, <4>3, SMTT(60)
    <3> QED
      <4>1. panicked' = IF Len(lh) >= LOGBLOCKS \/ outstanding < 1 THEN 1 ELSE 0
        BY <2>1, ZenonT(60) DEF log_write
      <4> QED
        BY <3>1, <3>5, <3>6, <4>1, LogAssumption, SMTT(60)
  <2>2. ASSUME NEW p \in Procs, end_op(p) PROVE panicked' = 0
    <3>1. committing = 0
      BY <2>2, ZenonT(60) DEF end_op, Open, IInv, SpaceInv, TypeOK, Phases
    <3> QED
      BY <2>2, <3>1, SMTT(60) DEF end_op
  <2>3. ASSUME NEW p \in Procs, begin_op(p) \/ commit(p) \/ initlog(p) \/ recovered(p)
        PROVE  panicked' = panicked
    BY <2>3, ZenonT(60) DEF begin_op, commit, write_log, write_head, install_trans, clear_head,
                end_commit, initlog, recovered
  <2>4. ASSUME NEW p \in Procs, NEW b \in Blocks, NEW v \in Values, update(p, b, v)
        PROVE  panicked' = panicked
    BY <2>4, ZenonT(60) DEF update
  <2>5. ASSUME NEW b \in Blocks, bread(b) \/ recycle(b) PROVE panicked' = panicked
    BY <2>5, ZenonT(60) DEF bread, recycle
  <2>6. ASSUME Crash \/ UNCHANGED vars PROVE panicked' = panicked
    BY <2>6, ZenonT(60) DEF Crash, vars
  <2> QED
    BY <2>1, <2>2, <2>3, <2>4, <2>5, <2>6, ZenonT(60) DEF Next, NoPanic
<1> QED
  BY <1>1, <1>2, InductiveInv, PTL DEF Spec

(***************************************************************************)
(* Recycling a buffer never loses an update: every buffer that nobody      *)
(* refers to agrees with the disk.                                         *)
(***************************************************************************)
THEOREM RecyclingIsSafe == Spec => []RecycleLosesNothing
<1>1. IInv => RecycleLosesNothing
  BY ZenonT(60) DEF IInv, Cached
<1> QED
  BY <1>1, InductiveInv, PTL

(***************************************************************************)
(* When the last end_op() has returned and nothing is open, what reads     *)
(* return is what a crash would preserve.                                  *)
(***************************************************************************)
THEOREM QuiescenceIsDurable == Spec => []QuiescentIsDurable
<1>1. IInv => QuiescentIsDurable
  <2> SUFFICES ASSUME IInv, Up, outstanding = 0, committing = 0 PROVE Current = Durable
    BY ZenonT(60) DEF QuiescentIsDurable
  <2>1. lh = <<>>
    BY ZenonT(60) DEF IInv, Heads
  <2>2. \A p \in Procs : pc[p] \notin InstallPC \union BootPC
    BY DEF IInv, SpaceInv, Phases, CommitPC, InstallPC, BootPC, Up
  <2>3. head = <<>>
    BY <2>2, ZenonT(60) DEF IInv, Heads
  <2>4. Open = {}
    BY ZenonT(60) DEF IInv, SpaceInv, Counts
  <2>5. \A p \in Procs : buf[p] = NoBlock
    BY <2>4, ZenonT(60) DEF IInv, SpaceInv, Buffers, Open
  <2>6. \A b \in Blocks : pins[b] = 0
    <3>1. LogBlocks(lh) = {}
      BY <2>1 DEF LogBlocks
    <3> QED
      BY <3>1, ZenonT(60) DEF IInv, Pins
  <2>7. \A b \in Blocks : Data(b) = home[b]
    BY <2>5, <2>6, LogAssumption, ZenonT(60)
       DEF IInv, Cached, RecycleLosesNothing, Unreferenced, Data
  <2>8. Durable = [b \in Blocks |-> home[b]]
    BY <2>3 DEF Durable, Replay, LogBlocks
  <2> QED
    BY <2>7, <2>8, ZenonT(60) DEF Current
<1> QED
  BY <1>1, InductiveInv, PTL

(***************************************************************************)
(* The data blocks of the log are written only while the header on disk    *)
(* is empty, so a crash during write_log() recovers nothing half-written.  *)
(***************************************************************************)
THEOREM LogDataIsStable == Spec => LogDataStable
<1>1. IInv /\ [Next]_vars => [logdata' # logdata => head = <<>>]_vars
  <2> SUFFICES ASSUME IInv, Next, logdata' # logdata PROVE head = <<>>
    BY SMTT(60)
  <2>1. PICK p \in Procs : write_log(p)
    BY ZenonT(60) DEF Next, begin_op, log_write, end_op, commit, write_head, install_trans, clear_head,
           end_commit, initlog, recovered, update, bread, recycle, Crash, disk
  <2>2. \A q \in Procs : pc[q] \notin InstallPC \union BootPC
    BY <2>1, CommitPhase, ZenonT(60) DEF write_log, CommitPC, InstallPC
  <2> QED
    BY <2>2, ZenonT(60) DEF IInv, Heads
<1> QED
  BY <1>1, InductiveInv, PTL DEF Spec, LogDataStable

(***************************************************************************)
(* The log implements the atomic disk for every number of processes,       *)
(* blocks and log blocks: reads see the updates at once, and a crash at    *)
(* any step, of a commit or of a recovery too, goes back to an instant at  *)
(* which no file-system call was in progress.                              *)
(***************************************************************************)
THEOREM LogIsCrashAtomic == Spec => CrashAtomic
  BY InductiveInv, RefinesInit, RefinesNext, PTL DEF Spec, CrashAtomic, AD!Spec
=============================================================================
