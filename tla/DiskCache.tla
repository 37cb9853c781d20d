----------------------------- MODULE DiskCache -----------------------------
(* The buffer cache with its sleep locks (bio.c, sleeplock.c) and the       *)
(* driver of the virtio disk (virtio_disk.c), over Harts.  The disk itself  *)
(* and its interrupt line are the device's side.                            *)
EXTENDS Harts, FiniteSets, FiniteSetsExt, Functions

CONSTANTS Blocks, NBUF, NUM

ASSUME DiskCacheAssumption ==
  /\ NBUF \in Nat \ {0} /\ NUM \in Nat \ {0, 1, 2} /\ IsFiniteSet(Procs)
  /\ None \notin Blocks \cup [i : 1..NBUF, write : BOOLEAN, status : {0, 255}]

VARIABLES
  buf,     \* the buffers
  lru,     \* their list, the most recently used first
  disk,    \* the driver: free descriptors, chains, requests in flight, the two rings
  dev,     \* the device: its blocks, the chains it has been told of, its interrupt status
  plic     \* the interrupt sources that are pending, and those being served

Bufs == 1..NBUF
Descs == 0..(NUM - 1)
IdxMod == 2 * NUM            \* the width of the ring indices; the code's 2^16 is a multiple of NUM as well

(* binit(): each buffer was linked in before the others. *)
Binit ==
  /\ buf = [i \in Bufs |-> [blk |-> None, valid |-> FALSE, disk |-> FALSE, refcnt |-> 0, data |-> 0, owner |-> None]]
  /\ lru = [k \in Bufs |-> NBUF - k + 1]

(* virtio_disk_init(): the device has accepted the queue, every descriptor  *)
(* is free and both rings are empty.                                        *)
VirtioDiskInit ==
  /\ disk = [free |-> Descs, chain |-> [d \in Descs |-> <<>>], info |-> [d \in Descs |-> None],
             avail |-> [d \in Descs |-> 0], availIdx |-> 0, usedIdx |-> 0]
  /\ dev = [blocks |-> [b \in Blocks |-> 0], told |-> {}, used |-> [d \in Descs |-> 0], usedIdx |-> 0, isr |-> FALSE]

(* plicinit() and plicinithart(): both devices may interrupt every hart. *)
PlicInit == plic = [pending |-> {}, serving |-> {}]

----------------------------------------------------------------------------
(* Sleep locks. *)
(* acquiresleep() of bget(), and the rest of bread(): a buffer without its  *)
(* content is read.                                                         *)
AcquireSleep(h) ==
  /\ At(h, "acquiresleep")
  /\ \E i \in {Frame(h).i} :
       \/ buf[i].owner # None /\ SleepInside(h, <<"lock", i>>, <<Frame(h)>>) /\ UNCHANGED buf
       \/ /\ buf[i].owner = None
          /\ buf' = [buf EXCEPT ![i].owner = hart[h].proc]
          /\ \/ buf[i].valid /\ Goto(h, <<>>) /\ UNCHANGED <<hart, lock, proc, ticks, panic>>
             \/ ~buf[i].valid /\ Acquire(h, "vdisk", <<[at |-> "rw", i |-> i, write |-> FALSE]>>)
  /\ UNCHANGED <<lru, disk, dev, plic>>

----------------------------------------------------------------------------
(* The buffer cache: sections under bcache.lock. *)
Cached(b) == {i \in Bufs : buf[i].blk = b}
UnlockedOnes == {k \in 1..NBUF : buf[lru[k]].owner = None}      \* mutant: a pinned buffer is recycled
Unused == {k \in 1..NBUF : buf[lru[k]].refcnt = 0}

(* bget(): the buffers that p may be given for block b, and how. *)
Bget(b) ==
  \/ \E i \in Cached(b) : buf' = [buf EXCEPT ![i].refcnt = @ + 1]
  \/ /\ Cached(b) = {} /\ Unused # {}
     /\ buf' = [buf EXCEPT ![lru[Max(Unused)]] = [@ EXCEPT !.blk = b, !.valid = FALSE, !.refcnt = 1]]

(* The list with i taken out and put in again at its front. *)
MovedToFront(i) ==
  [k \in 1..NBUF |-> IF k = 1 THEN i ELSE IF \E j \in k..NBUF : lru[j] = i THEN lru[k - 1] ELSE lru[k]]

Deref(h) ==
  /\ At(h, "deref")
  /\ \E i \in {Frame(h).i} :
       /\ buf' = [buf EXCEPT ![i].refcnt = @ - 1]
       /\ lru' = IF buf[i].refcnt = 1 THEN MovedToFront(i) ELSE lru
  /\ Goto(h, <<>>)
  /\ UNCHANGED <<hart, lock, proc, ticks, panic, disk, dev, plic>>

----------------------------------------------------------------------------
(* The driver. *)
(* alloc3_desc() hands out the lowest free descriptors. *)
Lowest3 == [k \in 1..3 |-> CHOOSE d \in disk.free : Cardinality({e \in disk.free : e < d}) = k - 1]

(* Mutant: only the head of the chain leaves the free list. *)
PublishHead(h, i, write, idx) ==
  /\ disk' = [disk EXCEPT !.free = @ \ {idx[1]}, !.chain[idx[1]] = idx,
                          !.info[idx[1]] = [i |-> i, write |-> write, status |-> 255],
                          !.avail[disk.availIdx % NUM] = idx[1],
                          !.availIdx = (@ + 1) % IdxMod]
  /\ buf' = [buf EXCEPT ![i].disk = TRUE]
  /\ dev' = [dev EXCEPT !.told = @ \cup {idx[1]}]
  /\ Sleep(h, <<"buf", i>>, "vdisk", proc, <<[at |-> "wait", i |-> i, head |-> idx[1], write |-> write]>>)

(* Three descriptors are filled in, put in the available ring and announced. *)
Publish(h, i, write, idx) ==
  /\ disk' = [disk EXCEPT !.free = @ \ Range(idx), !.chain[idx[1]] = idx,
                          !.info[idx[1]] = [i |-> i, write |-> write, status |-> 255],
                          !.avail[disk.availIdx % NUM] = idx[1],
                          !.availIdx = (@ + 1) % IdxMod]
  /\ buf' = [buf EXCEPT ![i].disk = TRUE]
  /\ dev' = [dev EXCEPT !.told = @ \cup {idx[1]}]
  /\ Sleep(h, <<"buf", i>>, "vdisk", proc, <<[at |-> "wait", i |-> i, head |-> idx[1], write |-> write]>>)

(* A caller that finds too few free descriptors gives back those it took,   *)
(* and with each it wakes up whoever waits for some.                        *)
DiskRw(h) ==
  /\ At(h, "rw")
  /\ \E f \in {Frame(h)} :
       \/ /\ Cardinality(disk.free) >= 3
          /\ \E idx \in {Lowest3} : Publish(h, f.i, f.write, idx)
       \/ /\ Cardinality(disk.free) < 3
          /\ Sleep(h, <<"free">>, "vdisk", IF disk.free = {} THEN proc ELSE Woken(proc, <<"free">>), <<f>>)
          /\ UNCHANGED <<buf, disk, dev>>
  /\ UNCHANGED <<lru, plic>>

(* The request is done: free_chain() wakes up those who wait for            *)
(* descriptors, and what bread() asked for is valid.                        *)
RwDone(h) ==
  /\ At(h, "wait")
  /\ \E f \in {Frame(h)} :
       \/ /\ buf[f.i].disk /\ Sleep(h, <<"buf", f.i>>, "vdisk", proc, <<f>>) /\ UNCHANGED <<buf, disk>>
       \/ /\ ~buf[f.i].disk
          /\ \/ Range(disk.chain[f.head]) \cap disk.free # {} /\ Panic("free_desc") /\ UNCHANGED <<buf, disk>>
             \/ /\ Range(disk.chain[f.head]) \cap disk.free = {}
                /\ disk' = [disk EXCEPT !.info[f.head] = None, !.chain[f.head] = <<>>,
                                        !.free = @ \cup Range(disk.chain[f.head])]
                /\ buf' = [buf EXCEPT ![f.i].valid = TRUE]
                /\ proc' = Woken(proc, <<"free">>)
                /\ Release(h, "vdisk", <<>>) /\ UNCHANGED <<ticks, panic>>
  /\ UNCHANGED <<lru, dev, plic>>

(* plic_complete(), after which the device may interrupt again. *)
Completed(s) == [plic EXCEPT !.serving = @ \ {s}]

(* virtio_disk_intr(): the acknowledgement, then a turn per used entry. *)
Ack(h) ==
  /\ At(h, "ack")
  /\ dev' = [dev EXCEPT !.isr = FALSE]
  /\ plic' = [plic EXCEPT !.pending = @ \ {"disk"}]
  /\ Goto(h, <<Plain("drain")>>)
  /\ UNCHANGED <<hart, lock, proc, ticks, panic, buf, lru, disk>>

FinishedSilently(r) ==                     \* mutant: nobody is woken up
  /\ buf' = [buf EXCEPT ![r.i].disk = FALSE]
  /\ disk' = [disk EXCEPT !.usedIdx = (@ + 1) % IdxMod]
  /\ UNCHANGED proc

Finished(r) ==
  /\ buf' = [buf EXCEPT ![r.i].disk = FALSE]
  /\ disk' = [disk EXCEPT !.usedIdx = (@ + 1) % IdxMod]
  /\ proc' = Woken(proc, <<"buf", r.i>>)

Drain(h) ==
  /\ At(h, "drain")
  /\ \/ /\ disk.usedIdx = dev.usedIdx
        /\ TrapReturn(h, "vdisk") /\ plic' = Completed("disk")
        /\ UNCHANGED <<proc, ticks, panic, buf, disk>>
     \/ /\ disk.usedIdx # dev.usedIdx /\ UNCHANGED plic
        /\ \E r \in {disk.info[dev.used[disk.usedIdx % NUM]]} :
             \/ /\ r = None \/ r.status # 0
                /\ Panic("virtio_disk_intr") /\ UNCHANGED <<buf, disk>>
             \/ /\ r # None /\ r.status = 0 /\ Finished(r)
                /\ UNCHANGED <<hart, lock, stack, ticks, panic>>
  /\ UNCHANGED <<lru, dev>>

----------------------------------------------------------------------------
(* The device carries out the requests it knows of in any order. *)
DeviceDone(d) ==
  /\ panic = "" /\ d \in dev.told
  /\ \E r \in {disk.info[d]} :
       /\ disk' = [disk EXCEPT !.info[d].status = 0]
       /\ buf' = IF r.write THEN buf ELSE [buf EXCEPT ![r.i].data = dev.blocks[buf[r.i].blk]]
       /\ dev' = [dev EXCEPT !.blocks[buf[r.i].blk] = IF r.write THEN buf[r.i].data ELSE @,
                             !.told = @ \ {d}, !.used[dev.usedIdx % NUM] = d,
                             !.usedIdx = (@ + 1) % IdxMod, !.isr = TRUE]
  /\ plic' = [plic EXCEPT !.pending = IF dev.isr THEN @ ELSE @ \cup {"disk"}]
  /\ UNCHANGED <<hart, lock, proc, stack, ticks, panic, lru>>

CacheStep(h) == AcquireSleep(h) \/ Deref(h) \/ DiskRw(h) \/ RwDone(h) \/ Ack(h) \/ Drain(h)
=============================================================================
