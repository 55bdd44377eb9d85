------------------------------- MODULE Virtio -------------------------------
(***************************************************************************)
(* The virtio disk driver, kernel/virtio_disk.c, and the device it talks   *)
(* to.  Every process reads or writes the disk through a buffer of its     *)
(* own, whose sleep lock it holds (bio.c).  Processes and the interrupt    *)
(* handler exclude each other by vdisk_lock; the device does not take it:  *)
(* it fetches requests from the avail ring, carries them out in any order, *)
(* puts them into the used ring and raises its interrupt when it likes.    *)
(* sleep() is one step, see module Sched.  An entry of a ring that nobody  *)
(* will read again is set to 0, to have fewer states.                      *)
(***************************************************************************)
EXTENDS Integers, FiniteSets

CONSTANTS
  Procs,     \* processes; also the buffers, one each
  NoProc, Intr,
  NUM,       \* number of descriptors
  Wrap       \* 2^16 in the code: the indexes of the rings are uint16

ASSUME VirtioAssumption ==
  /\ NoProc \notin Procs /\ Intr \notin Procs \union {NoProc}
  /\ NUM \in Nat /\ NUM >= 3
  /\ Wrap \in Nat /\ Wrap > NUM /\ Wrap % NUM = 0

Descs == 0..NUM - 1

VARIABLES
  free,          \* disk.free: the free descriptors
  next,          \* disk.desc[i].next, or NUM when the flag NEXT is not set
  addr,          \* buffer that disk.desc[i].addr points to, in the second of a chain
  infob,         \* disk.info[i].b
  status,        \* disk.info[i].status
  bdisk,         \* b->disk
  avail, availidx, used, usedidx,    \* the rings, shared with the device
  used_idx,      \* disk.used_idx
  lock,          \* holder of vdisk_lock: a process, or Intr
  asleep,        \* processes asleep
  pc,            \* where a process is in virtio_disk_rw()
  idx0,          \* idx[0] of a process
  intr,          \* interrupt status of the device
  handler,       \* where virtio_disk_intr() is
  fetched,       \* device: next entry of avail to fetch
  working,       \* device: requests fetched and not finished
  finished,      \* device: requests finished since it last raised intr
  done,          \* history: how often the device has carried out a process's request
  panicked

driver == <<free, next, addr, infob, bdisk, used_idx>>
device == <<used, usedidx, fetched, working, finished, done>>
vars == <<driver, status, avail, availidx, device, lock, asleep, pc, idx0, intr, handler, panicked>>

\* virtio_disk_init()
Init ==
  /\ free = Descs
  /\ next = [d \in Descs |-> NUM]
  /\ addr = [d \in Descs |-> NoProc]
  /\ infob = [d \in Descs |-> NoProc]
  /\ status = [d \in Descs |-> 0]
  /\ bdisk = [p \in Procs |-> 0]
  /\ avail = [d \in Descs |-> 0] /\ availidx = 0
  /\ used = [d \in Descs |-> 0] /\ usedidx = 0
  /\ used_idx = 0
  /\ lock = NoProc
  /\ asleep = {}
  /\ pc = [p \in Procs |-> "idle"]
  /\ idx0 = [p \in Procs |-> 0]
  /\ intr = 0
  /\ handler = "idle"
  /\ fetched = 0 /\ working = {} /\ finished = 0
  /\ done = [p \in Procs |-> 0]
  /\ panicked = 0

Goto(p, l) == pc' = [pc EXCEPT ![p] = l]
Waiting(l) == {p \in asleep : pc[p] = l}

-----------------------------------------------------------------------------
\* virtio_disk_rw(): acquire(&disk.vdisk_lock), on entry and at the end of sleep().
virtio_disk_rw(p) ==
  /\ lock = NoProc /\ p \notin asleep
  /\ \/ pc[p] = "idle" /\ Goto(p, "alloc")
     \/ pc[p] = "nodesc" /\ Goto(p, "alloc")
     \/ pc[p] = "wait" /\ Goto(p, "test")
  /\ lock' = p
  /\ UNCHANGED <<driver, status, avail, availidx, device, asleep, idx0, intr, handler, panicked>>

\* alloc_desc() takes the first of the free descriptors.
alloc_desc(S) == CHOOSE d \in S : \A e \in S : d <= e

\* idx[0], idx[1], idx[2]
First == alloc_desc(free)
Second == alloc_desc(free \ {First})
Third == alloc_desc(free \ {First, Second})

Taken_Two == {First, Second}

\* disk.free[i] = 0
Taken == {First, Second, Third}

\* alloc3_desc() fails: the descriptors it has got are freed, which wakes the
\* others that wait, and the process sleeps.
alloc3_desc_fails(p) ==
  /\ pc[p] = "alloc" /\ Cardinality(free) < 3
  /\ asleep' = (IF free = {} THEN asleep ELSE asleep \ Waiting("nodesc")) \union {p}
  /\ lock' = NoProc
  /\ Goto(p, "nodesc")
  /\ UNCHANGED <<driver, status, avail, availidx, device, idx0, intr, handler, panicked>>

\* Three descriptors are filled in, and the chain is put into the avail ring.
alloc3_desc(p) ==
  /\ pc[p] = "alloc" /\ Cardinality(free) >= 3
  /\ free' = free \ Taken
  /\ next' = [next EXCEPT ![First] = Second, ![Second] = Third, ![Third] = NUM]
  /\ addr' = [addr EXCEPT ![Second] = p]
  /\ status' = [status EXCEPT ![First] = 255]
  /\ bdisk' = [bdisk EXCEPT ![p] = 1]
  /\ infob' = [infob EXCEPT ![First] = p]
  /\ idx0' = [idx0 EXCEPT ![p] = First]
  /\ avail' = [avail EXCEPT ![availidx % NUM] = First]
  /\ Goto(p, "notify")
  /\ UNCHANGED <<used_idx, availidx, device, lock, asleep, intr, handler, panicked>>

\* disk.avail->idx += 1, the device is notified, and sleep(b, &disk.vdisk_lock).
notify(p) ==
  /\ pc[p] = "notify"
  /\ availidx' = (availidx + 1) % Wrap
  /\ asleep' = asleep \union {p}
  /\ lock' = NoProc
  /\ Goto(p, "wait")
  /\ UNCHANGED <<driver, status, avail, device, idx0, intr, handler, panicked>>

Complete_Woken(p) == TRUE

\* b->disk == 1 is false
Complete(p) == bdisk[p] = 0

\* while(b->disk == 1) sleep(b, &disk.vdisk_lock)
sleep_again(p) ==
  /\ pc[p] = "test" /\ ~Complete(p)
  /\ asleep' = asleep \union {p}
  /\ lock' = NoProc
  /\ Goto(p, "wait")
  /\ UNCHANGED <<driver, status, avail, availidx, device, idx0, intr, handler, panicked>>

\* The descriptors that free_chain() visits.
Chain(d) ==
  {d} \union (IF next[d] = NUM THEN {}
              ELSE {next[d]} \union (IF next[next[d]] = NUM THEN {} ELSE {next[next[d]]}))

Freed_Silently == asleep

\* wakeup(&disk.free[0])
Freed == asleep \ Waiting("nodesc")

\* The request is complete: free_chain(idx[0]), and return.
free_chain(p) ==
  /\ pc[p] = "test" /\ Complete(p)
  /\ infob' = [infob EXCEPT ![idx0[p]] = NoProc]
  /\ panicked' = IF Chain(idx0[p]) \intersect free # {} THEN 1 ELSE 0
  /\ free' = free \union Chain(idx0[p])
  /\ next' = [d \in Descs |-> IF d \in Chain(idx0[p]) THEN NUM ELSE next[d]]
  /\ addr' = [d \in Descs |-> IF d \in Chain(idx0[p]) THEN NoProc ELSE addr[d]]
  /\ asleep' = Freed
  /\ lock' = NoProc
  /\ idx0' = [idx0 EXCEPT ![p] = 0]
  /\ done' = [done EXCEPT ![p] = 0]
  /\ Goto(p, "idle")
  /\ UNCHANGED <<bdisk, used_idx, status, avail, availidx, used, usedidx, fetched, working, finished,
                 intr, handler>>

-----------------------------------------------------------------------------
AckAt_Return == "return"

\* The interrupt is acknowledged before the used ring is looked at.
AckAt == "entry"

\* *R(VIRTIO_MMIO_INTERRUPT_ACK) = ...
Ack(place) == intr' = IF place = AckAt THEN 0 ELSE intr

\* virtio_disk_intr(), when the device interrupts.
virtio_disk_intr ==
  /\ handler = "idle" /\ intr = 1 /\ lock = NoProc
  /\ lock' = Intr
  /\ Ack("entry")
  /\ handler' = "loop"
  /\ UNCHANGED <<driver, status, avail, availidx, device, asleep, pc, idx0, panicked>>

\* disk.used->ring[disk.used_idx % NUM].id
Entry == used[used_idx % NUM]

\* disk.used_idx += 1
Seen == (used_idx + 1) % Wrap

Done_Silently(b) == asleep

\* wakeup(b)
Done(b) == asleep \ (Waiting("wait") \intersect {b})

\* An entry of the used ring: its process is told that its buffer is done.
virtio_disk_intr_used ==
  /\ handler = "loop" /\ used_idx # usedidx
  /\ LET b == infob[Entry]
     IN /\ panicked' = IF status[Entry] # 0 \/ b = NoProc THEN 1 ELSE 0
        /\ bdisk' = [p \in Procs |-> IF p = b THEN 0 ELSE bdisk[p]]
        /\ asleep' = Done(b)
  /\ used_idx' = Seen
  /\ used' = [used EXCEPT ![used_idx % NUM] = 0]
  /\ UNCHANGED <<free, next, addr, infob, status, avail, availidx, usedidx, fetched, working, finished,
                 done, lock, pc, idx0, intr, handler>>

\* The loop ends: every entry has been seen.
virtio_disk_intr_exit ==
  /\ handler = "loop" /\ used_idx = usedidx
  /\ handler' = "exit"
  /\ UNCHANGED <<driver, status, avail, availidx, device, lock, asleep, pc, idx0, intr, panicked>>

virtio_disk_intr_return ==
  /\ handler = "exit"
  /\ lock' = NoProc
  /\ handler' = "idle"
  /\ Ack("return")
  /\ UNCHANGED <<driver, status, avail, availidx, device, asleep, pc, idx0, panicked>>

-----------------------------------------------------------------------------
\* The device fetches the chain at the next entry of the avail ring.
device_fetch ==
  /\ fetched # availidx
  /\ working' = working \union {avail[fetched % NUM]}
  /\ fetched' = (fetched + 1) % Wrap
  /\ avail' = [avail EXCEPT ![fetched % NUM] = 0]
  /\ UNCHANGED <<driver, status, availidx, used, usedidx, finished, done, lock, asleep, pc,
                 idx0, intr, handler, panicked>>

\* The buffer that a chain names.
Buffer(d) == IF next[d] = NUM THEN NoProc ELSE addr[next[d]]

\* It moves the data of a request, sets its status and puts it into the used ring.
device_finish(d) ==
  /\ d \in working
  /\ working' = working \ {d}
  /\ done' = [p \in Procs |-> IF p = Buffer(d) THEN done[p] + 1 ELSE done[p]]
  /\ status' = [status EXCEPT ![d] = 0]
  /\ used' = [used EXCEPT ![usedidx % NUM] = d]
  /\ usedidx' = (usedidx + 1) % Wrap
  /\ finished' = 1
  /\ UNCHANGED <<driver, avail, availidx, fetched, lock, asleep, pc, idx0, intr, handler, panicked>>

device_interrupt ==
  /\ finished = 1
  /\ finished' = 0
  /\ intr' = 1
  /\ UNCHANGED <<driver, status, avail, availidx, used, usedidx, fetched, working, done, lock, asleep,
                 pc, idx0, handler, panicked>>

\* kkill() wakes a process that waits for the disk; it goes on waiting.
kkill(p) ==
  /\ p \in asleep
  /\ asleep' = asleep \ {p}
  /\ UNCHANGED <<driver, status, avail, availidx, device, lock, pc, idx0, intr, handler, panicked>>

-----------------------------------------------------------------------------
Inside(p) == alloc3_desc_fails(p) \/ alloc3_desc(p) \/ notify(p) \/ sleep_again(p) \/ free_chain(p)

Loop == virtio_disk_intr_used \/ virtio_disk_intr_exit \/ virtio_disk_intr_return

Handler == virtio_disk_intr \/ Loop

Device == device_fetch \/ (\E d \in Descs : device_finish(d)) \/ device_interrupt

Next ==
  /\ panicked = 0
  /\ (\E p \in Procs : virtio_disk_rw(p) \/ Inside(p) \/ kkill(p)) \/ Handler \/ Device

Spec == Init /\ [][Next]_vars

-----------------------------------------------------------------------------
TypeOK ==
  /\ free \subseteq Descs
  /\ next \in [Descs -> 0..NUM]
  /\ addr \in [Descs -> Procs \union {NoProc}] /\ infob \in [Descs -> Procs \union {NoProc}]
  /\ status \in [Descs -> {0, 255}]
  /\ bdisk \in [Procs -> {0, 1}]
  /\ avail \in [Descs -> Descs] /\ used \in [Descs -> Descs]
  /\ {availidx, usedidx, used_idx, fetched} \subseteq 0..Wrap - 1
  /\ lock \in Procs \union {NoProc, Intr}
  /\ asleep \subseteq Procs
  /\ pc \in [Procs -> {"idle", "alloc", "nodesc", "notify", "wait", "test"}]
  /\ idx0 \in [Procs -> Descs]
  /\ intr \in {0, 1} /\ handler \in {"idle", "loop", "exit"}
  /\ working \subseteq Descs /\ finished \in {0, 1}
  /\ done \in [Procs -> Nat]
  /\ panicked \in {0, 1}

(***************************************************************************)
(* The device works only on memory that is its own: a chain it has been    *)
(* offered or has fetched is not free, shares no descriptor with another   *)
(* one, and names the buffer of a process that still waits for it.  So no  *)
(* descriptor is freed twice, and no request comes back that nobody waits  *)
(* for (the panics of free_desc() and virtio_disk_intr()).                 *)
(***************************************************************************)
Window(from, to) == {k \in 0..Wrap - 1 : (k - from) % Wrap < (to - from) % Wrap}
Entries(ring, from, to) == {ring[k % NUM] : k \in Window(from, to)}

Offered == Entries(avail, fetched, availidx)
InFlight == working \union Offered

DeviceOwnsChains ==
  /\ TypeOK /\ panicked = 0
  /\ \A d \in InFlight :
       /\ Cardinality(Chain(d)) = 3 /\ Chain(d) \intersect free = {}
       /\ \A e \in InFlight \ {d} : Chain(e) \intersect Chain(d) = {}
       /\ \E p \in Procs : /\ infob[d] = p /\ Buffer(d) = p /\ idx0[p] = d
                           /\ bdisk[p] = 1 /\ pc[p] \in {"wait", "test"}

(***************************************************************************)
(* virtio_disk_rw() leaves its loop only when the device has carried out   *)
(* its request, once: it is not misled by completions that come in another *)
(* order than the requests, or by a wakeup from kkill().                   *)
(***************************************************************************)
ReturnsWhenDone == \A p \in Procs : pc[p] = "test" /\ Complete(p) => done[p] = 1

(***************************************************************************)
(* No wakeup is lost.  While the used ring holds entries that the driver   *)
(* has not seen, its handler runs or an interrupt is still to come; a      *)
(* process sleeps on its buffer only while b->disk is 1, and for want of   *)
(* descriptors only while there are too few.                               *)
(***************************************************************************)
NoLostWakeup ==
  /\ usedidx # used_idx => handler = "loop" \/ intr = 1 \/ finished = 1
  /\ \A p \in Waiting("wait") : bdisk[p] = 1
  /\ lock = NoProc /\ Waiting("nodesc") # {} => Cardinality(free) < 3
=============================================================================
