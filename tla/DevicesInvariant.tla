-------------------------- MODULE DevicesInvariant --------------------------
(* What holds of Devices in every state, for any number of harts,          *)
(* processes, buffers and descriptors and any workloads: the inductive     *)
(* invariant, part by part, each with the names that its proof has for what *)
(* a step does to that part.  Devices_proofs has the proofs.               *)
EXTENDS Devices

-----------------------------------------------------------------------------
(* HInv: harts, stacks and spinlocks (spinlock.c, sched(), kerneltrap()).  *)
(* Kernel stacks are lists of frames, the running one first. *)
IsList(s) == \E S : s \in Seq(S)

(* A function of the kernel that runs with the spinlock lk. *)
CallFrame(f, lk) ==
  /\ "at" \in DOMAIN f
  /\ \/ f.at \in {"rw", "wait"} /\ lk = "vdisk"
     \/ f.at = "consoleread" /\ lk = "cons"
     \/ f.at = "putc" /\ lk = "uart"
     \/ f.at = "sleep" /\ lk = "ticks"

InCall(s, lk) == s # <<>> /\ CallFrame(Head(s), lk) /\ Tail(s) = <<>>

(* Where interrupts are on. *)
Base(x, s) ==
  \/ s = <<>>
  \/ /\ x \in Procs /\ s # <<>> /\ Tail(s) = <<>>
     /\ Head(s).at \in {"acquiresleep", "deref"}
  \/ /\ x \in Procs /\ s # <<>>
     /\ Head(s).at = "reacquire" /\ InCall(Tail(s), Head(s).lk)

(* What an interrupt handler runs with the spinlock lk, on top of what it   *)
(* interrupted.                                                             *)
HandlerFrame(f, lk) ==
  \/ f.at = "clockintr" /\ lk = "ticks"
  \/ f.at \in {"ack", "drain"} /\ lk = "vdisk"
  \/ f.at = "start" /\ lk = "uart"

InTrap(x, s, lk) ==
  \/ s # <<>> /\ HandlerFrame(Head(s), lk) /\ Base(x, Tail(s))
  \/ /\ s # <<>> /\ Head(s).at = "consoleintr" /\ lk = "cons"
     /\ Tail(s) # <<>> /\ Head(Tail(s)).at = "uartintr" /\ Base(x, Tail(Tail(s)))

(* A hart with the record c that runs the stack s of x and holds the locks  *)
(* H: with interrupts on; in a call, or about to take its lock; in a         *)
(* handler, or about to take its lock; between two parts of a handler; or    *)
(* in the scheduler, before it turns interrupts on.                          *)
Mode(x, c, s, H) ==
  \/ Base(x, s) /\ c.noff = 0 /\ H = {} /\ (x \in Procs => c.intr)
  \/ /\ x \in Procs /\ c.noff = 1 /\ ~c.intr /\ c.intena
     /\ \/ \E lk \in Locks : InCall(s, lk) /\ H = {lk}
        \/ s # <<>> /\ Head(s).at = "spin" /\ Head(s).lk \in Locks /\ InCall(Tail(s), Head(s).lk) /\ H = {}
  \/ /\ c.noff = 1 /\ ~c.intr /\ ~c.intena
     /\ \/ \E lk \in Locks : InTrap(x, s, lk) /\ H = {lk}
        \/ s # <<>> /\ Head(s).at = "spin" /\ Head(s).lk \in Locks /\ InTrap(x, Tail(s), Head(s).lk) /\ H = {}
  \/ /\ c.noff = 0 /\ ~c.intr /\ H = {}
     /\ s # <<>> /\ Base(x, Tail(s))
     /\ Head(s).at = "uartintr" \/ (Head(s).at = "trapret" /\ x \in Procs)
  \/ c.noff = 0 /\ ~c.intr /\ H = {} /\ x \in Harts /\ s # <<>> /\ Head(s).at = "off"

(* A process that does not run: it goes on where sched() left it. *)
Parked(p, s) ==
  /\ s # <<>> /\ Head(s).at = "resume"
  /\ \/ Head(s).intena = TRUE /\ Base(p, Tail(s))
     \/ /\ Head(s).intena = FALSE
        /\ Tail(s) # <<>> /\ Head(Tail(s)).at = "trapret" /\ Base(p, Tail(Tail(s)))

States == {"RUNNABLE", "RUNNING", "SLEEPING", "ZOMBIE"}
HartRec == [proc : Procs \cup {None}, noff : Nat, intena : BOOLEAN, intr : BOOLEAN]
ProcRec(r) == r = [state |-> r.state, chan |-> r.chan, killed |-> r.killed] /\ r.state \in States

(* The types, as far as the proofs need them. *)
HType ==
  /\ hart \in [Harts -> HartRec]
  /\ lock \in [Locks -> Harts \cup {None}]
  /\ proc = [p \in Procs |-> proc[p]] /\ \A p \in Procs : ProcRec(proc[p])
  /\ stack = [x \in Procs \cup Harts |-> stack[x]] /\ \A x \in Procs \cup Harts : IsList(stack[x])

(* Who runs where: a process on one hart or none, and a parked one as Parked says. *)
RunOK ==
  /\ \A p \in Procs : proc[p].state = "RUNNING" <=> \E h \in Harts : hart[h].proc = p
  /\ \A g, h \in Harts : hart[g].proc = hart[h].proc /\ g # h => hart[g].proc = None
  /\ \A h \in Harts : hart[h].proc # None => stack[h] = <<>>
  /\ \A p \in Procs : proc[p].state \in {"RUNNABLE", "SLEEPING"} => Parked(p, stack[p])

(* Every hart's record, its locks and the stack it runs fit together. *)
ModeOK == \A h \in Harts : Mode(Cur(h), hart[h], stack[Cur(h)], LocksOf(h))

HInv == HType /\ RunOK /\ ModeOK

(* What a step may do to the table of processes besides: wake some up and  *)
(* kill one.                                                               *)
Wakes(ps) ==
  /\ ps = [p \in Procs |-> ps[p]]
  /\ \A p \in Procs : /\ ProcRec(ps[p])
                      /\ ps[p].state = proc[p].state \/ (proc[p].state = "SLEEPING" /\ ps[p].state = "RUNNABLE")

CallAts == {"rw", "wait", "consoleread", "putc", "sleep"}
TrapAts == {"clockintr", "ack", "drain", "start", "consoleintr"}

(* The frames of an interrupt handler that begins by taking the lock lk. *)
Handler(fs, lk) ==
  \/ \E f : fs = <<f>> /\ HandlerFrame(f, lk)
  \/ \E f, g : fs = <<f, g>> /\ f.at = "consoleintr" /\ g.at = "uartintr" /\ lk = "cons"

(* The panics that are not about locks. *)
OtherPanics == {"bget", "free_desc", "virtio_disk_intr"}
PanicOK == panic' = panic \/ panic' \in OtherPanics

(* Whatever the processes call and whatever interrupts them, no hart takes  *)
(* a lock that it holds (spinlock.c:27) and none goes to the scheduler with *)
(* a spinlock in hand (proc.c, sched()).                                    *)
LocksSafe == panic \notin {"acquire", "sched locks"}

-----------------------------------------------------------------------------
(* EInv: the console's ring (console.c).                                   *)
Chained(s, t) == s \o t
Added(s, x) == Append(s, x)
Ends == 0..(EditMod - 1)
Dist(a, b) == (b + EditMod - a) % EditMod
Up(a) == (a + 1) % EditMod

(* The n characters from index a on of a ring. *)
Cells(ring, a, n) == [k \in 1..n |-> ring[Slot(a + k - 1)]]
ButLast(s) == SubSeq(s, 1, Len(s) - 1)
Puts(ring, other, e, c) == other = [ring EXCEPT ![Slot(e)] = c]

IsRing(g) == g = [k \in 0..(INPUT_BUF_SIZE - 1) |-> g[k]]

\* The m + 1 indices from a on are places where those from b on are, too.
SameSlots(a, b, m) == \A j \in 0..m : Slot(a + j) = Slot(b + j)
\* Two rings have the same n characters from index a on.
SameRing(ring, other, a, n) == \A k \in 1..n : other[Slot(a + k - 1)] = ring[Slot(a + k - 1)]
\* ... and the other has c behind them.
PutBehind(ring, other, a, n, c) == SameRing(ring, other, a, n) /\ other[Slot(a + n)] = c

(* The ring g with its indices, what readers took, and the line editor.    *)
(* While ^U takes a line back the ring holds less of it than the editor.   *)
NoNewline(g, a, n) == \A k \in 1..n : g[Slot(a + k - 1)] # NL

HasLine(g, a, n, line, killing) ==
  \E m \in 0..INPUT_BUF_SIZE : line = Cells(g, a, m) /\ n <= m /\ (m = n \/ killing)

Fits(g, r, w, e, took, done, line, killing) ==
  /\ IsRing(g) /\ r \in Ends /\ w \in Ends /\ e \in Ends
  /\ Dist(r, w) + Dist(w, e) <= INPUT_BUF_SIZE
  /\ IsList(took) /\ Chained(took, Cells(g, r, Dist(r, w))) = done
  /\ NoNewline(g, w, Dist(w, e)) /\ HasLine(g, w, Dist(w, e), line, killing)

InEditor(h) == stack[Cur(h)] # <<>> /\ Head(stack[Cur(h)]).at \in {"consoleread", "consoleintr"}
Kills(h) == stack[Cur(h)] # <<>> /\ Head(stack[Cur(h)]).at = "consoleintr" /\ Head(stack[Cur(h)]).c = CtrlU
Killer == \E h \in Harts : Kills(h)

(* A step of a hart changes its own record and stack, and those of a       *)
(* process that it begins to run.                                          *)
Shape(h) ==
  /\ \A g \in Harts : g # h => hart'[g] = hart[g]
  /\ \A x \in Procs \cup Harts :
       x # Cur(h) => stack'[x] = stack[x] \/ (x \in Procs /\ proc[x].state = "RUNNABLE")

OwnHart(h) == hart' = hart \/ \E c : hart' = [hart EXCEPT ![h] = c]

(* The line editor: what the ring and the readers have is what it has.     *)
ConsoleRec ==
  /\ cons = [ring |-> cons.ring, r |-> cons.r, w |-> cons.w, e |-> cons.e, taken |-> cons.taken]
  /\ typed = [done |-> typed.done, line |-> typed.line]

Edits(killing) == Fits(cons.ring, cons.r, cons.w, cons.e, cons.taken, typed.done, typed.line, killing)
EInv == ConsoleRec /\ Edits(Killer)

-----------------------------------------------------------------------------
(* BInv: the buffer cache (bio.c, sleeplock.c).  What a process does for   *)
(* the cache is the frame at the bottom of its stack, its job, whatever    *)
(* was pushed on top of it.                                                *)
JobAts == {"acquiresleep", "deref", "rw", "wait"}

Bottom(s) == s[Len(s)]
IsJob(s) == s # <<>> /\ Bottom(s).at \in JobAts
Same(s, t) == (IsJob(s) <=> IsJob(t)) /\ (IsJob(s) => Bottom(s) = Bottom(t))
NoJob(fs) == \A k \in 1..Len(fs) : fs[k].at \notin JobAts
JobsSame == \A p \in Procs : Same(stack'[p], stack[p])
JobSet(p, f) == IsJob(stack'[p]) /\ Bottom(stack'[p]) = f /\ \A q \in Procs : q # p => Same(stack'[q], stack[q])

JobGone(p) == ~IsJob(stack'[p]) /\ \A q \in Procs : q # p => Same(stack'[q], stack[q])

\* What a step may leave on the stack of the context that takes it.
Becomes(x, t) == stack'[x] = t /\ \A y \in Procs \cup Harts : y # x => stack'[y] = stack[y]

(* What a process has still to call.                                       *)
Orderly(s) == \A k \in 1..Len(s) : Proper(s[k], SubSeq(s, k + 1, Len(s)))

(* What becomes of what a process holds and has pinned when it makes its    *)
(* next call.                                                               *)
SameBut(s, t, b) == \A a : a # b => (Holds(t, a) <=> Holds(s, a)) /\ (Pins(t, a) <=> Pins(s, a))

SameHolds(s, t) == \A a : (Holds(t, a) <=> Holds(s, a)) /\ (Pins(t, a) <=> Pins(s, a))

(* What each process does with which buffer.                               *)
JobOf(p) == Bottom(stack[p])
Has(p, at) == IsJob(stack[p]) /\ JobOf(p).at = at
Takes(p, i) == Has(p, "acquiresleep") /\ JobOf(p).i = i
Drops(p, i) == Has(p, "deref") /\ JobOf(p).i = i
Starts(p, i) == Has(p, "rw") /\ JobOf(p).i = i
Waits(p, i, d) == Has(p, "wait") /\ JobOf(p).i = i /\ JobOf(p).head = d

JobKept(p) ==
  /\ IsJob(stack'[p]) <=> IsJob(stack[p])
  /\ IsJob(stack[p]) => Bottom(stack'[p]) = Bottom(stack[p])

(* The fields of a buffer, its data left aside.                            *)
Rec(r, blk, valid, dsk, refcnt, owner) ==
  r = [blk |-> blk, valid |-> valid, disk |-> dsk, refcnt |-> refcnt, data |-> r.data, owner |-> owner]

BufRec(r) ==
  /\ Rec(r, r.blk, r.valid, r.disk, r.refcnt, r.owner)
  /\ r.blk \in Blocks \cup {None} /\ r.valid \in BOOLEAN /\ r.disk \in BOOLEAN /\ r.refcnt \in Int
  /\ r.owner \in Procs \cup {None}

BufType == buf = [i \in Bufs |-> buf[i]] /\ \A i \in Bufs : BufRec(buf[i])
BufIs(i, r) == buf' = [buf EXCEPT ![i] = r]

Bit(x) == IF x THEN 1 ELSE 0

(* Who has which buffer, and how often it is counted.                      *)
Owns(p, i) == buf[i].owner = p \/ Takes(p, i)
Uses(p, i) == Owns(p, i) \/ Drops(p, i)
PinnedBy(p, i) == Pins(todo[p], buf[i].blk)
Refs(i) == {p \in Procs : Uses(p, i)}
Pinners(i) == {p \in Procs : PinnedBy(p, i)}

(* A process has, or takes, the buffers that the calls it has still to make *)
(* say it holds, and a request is under way only for a buffer of its own.   *)
PairOK(p, i) ==
  /\ Owns(p, i) <=> Holds(todo[p], buf[i].blk)
  /\ Takes(p, i) \/ Drops(p, i) => buf[i].owner # p
  /\ Starts(p, i) \/ (\E d : Waits(p, i, d)) => buf[i].owner = p

ToDo(p) == IsList(todo[p]) /\ Orderly(todo[p])
JobIn(p) == IsJob(stack[p]) => JobOf(p).i \in Bufs
Wanted(p, b) == Holds(todo[p], b) \/ Pins(todo[p], b)
InCache(b) == \E i \in Bufs : buf[i].blk = b
OneBuffer == \A i, j \in Bufs : buf[i].blk = buf[j].blk /\ buf[i].blk # None => i = j
Counts(i) == buf[i].refcnt = Cardinality(Refs(i)) + Cardinality(Pinners(i))

BInv ==
  /\ BufType /\ lru \in [1..NBUF -> Bufs] /\ todo = [p \in Procs |-> todo[p]]
  /\ \A p \in Procs : ToDo(p) /\ JobIn(p)
  /\ \A p \in Procs, i \in Bufs : PairOK(p, i)
  /\ \A p \in Procs : \A b : Wanted(p, b) => InCache(b)
  /\ OneBuffer
  /\ \A i \in Bufs : Counts(i)

(* Nothing changed between process p and buffer i.                         *)
BlkKept(i) == buf'[i].blk = buf[i].blk
PairKept(p, i) == JobKept(p) /\ (buf'[i].owner = p <=> buf[i].owner = p) /\ BlkKept(i) /\ SameHolds(todo[p], todo'[p])

(* A step in which one process takes, gives back, pins or unpins buffers   *)
(* that stay where they are.                                               *)
Moved(p, i) == Bit(Uses(p, i)') - Bit(Uses(p, i)) + Bit(PinnedBy(p, i)') - Bit(PinnedBy(p, i))

(* Steps that leave owners, references and jobs alone.                     *)
Untaken == \A i \in Bufs : BlkKept(i) /\ buf'[i].owner = buf[i].owner /\ buf'[i].refcnt = buf[i].refcnt

(* The running process makes its next call, f.                             *)
NextCall(h, p, f) ==
  /\ p = hart[h].proc /\ Cur(h) = p /\ stack[p] = <<>> /\ ~IsJob(stack[p])
  /\ todo' = [q \in Procs |-> todo'[q]] /\ \A q \in Procs : q # p => todo'[q] = todo[q]
  /\ IsList(todo[p]) /\ todo[p] # <<>> /\ Orderly(todo[p]) /\ ToDo(p)'
  /\ Call(h) = Head(todo[p]) /\ Call(h).f = f /\ todo'[p] = Tail(todo[p])

(* The process that runs a job, and the job.                               *)
Works(h, p, f, at) ==
  /\ p = hart[h].proc /\ p = Cur(h) /\ f = Frame(h) /\ f.at = at /\ IsJob(stack[p]) /\ JobOf(p) = f /\ f.i \in Bufs
  /\ panic = "" /\ stack[Cur(h)] # <<>> /\ Head(stack[Cur(h)]).at \in JobAts

(* What virtio_disk_rw() and virtio_disk_intr() leave behind, as the proofs *)
(* split their steps up.                                                    *)
NewJob(f, d) == [at |-> "wait", i |-> f.i, head |-> d, write |-> f.write]

Publishes(p, f) ==
  \E idx : /\ Cardinality(disk.free) >= 3 /\ idx = Lowest3
           /\ disk' = [disk EXCEPT !.free = @ \ Range(idx), !.chain[idx[1]] = idx,
                                   !.info[idx[1]] = [i |-> f.i, write |-> f.write, status |-> 255],
                                   !.avail[disk.availIdx % NUM] = idx[1],
                                   !.availIdx = (@ + 1) % IdxMod]
           /\ buf' = [buf EXCEPT ![f.i].disk = TRUE]
           /\ dev' = [dev EXCEPT !.told = @ \cup {idx[1]}]
           /\ JobSet(p, NewJob(f, idx[1]))

Retries(p, f) == Cardinality(disk.free) < 3 /\ UNCHANGED <<buf, disk, dev>> /\ JobSet(p, f)
Keeps(p, f) == buf[f.i].disk /\ UNCHANGED <<buf, disk>> /\ JobSet(p, f)

Frees(h, p, f) ==
  /\ ~buf[f.i].disk /\ Range(disk.chain[f.head]) \cap disk.free = {}
  /\ disk' = [disk EXCEPT !.info[f.head] = None, !.chain[f.head] = <<>>,
                          !.free = @ \cup Range(disk.chain[f.head])]
  /\ buf' = [buf EXCEPT ![f.i].valid = TRUE]
  /\ proc' = Woken(proc, <<"free">>) /\ Release(h, "vdisk", <<>>) /\ UNCHANGED <<ticks, panic>>
  /\ JobGone(p)

FreesTwice(f) ==
  /\ ~buf[f.i].disk /\ Range(disk.chain[f.head]) \cap disk.free # {}
  /\ panic' = "free_desc" /\ UNCHANGED <<hart, lock, proc, stack, ticks, buf, disk>>

Stopped(r) == (r = None \/ r.status # 0) /\ Panic("virtio_disk_intr") /\ UNCHANGED <<buf, disk>>
Drained(r) == r # None /\ r.status = 0 /\ Finished(r) /\ UNCHANGED <<hart, lock, stack, ticks, panic>>

Returned(h) ==
  /\ disk.usedIdx = dev.usedIdx /\ UNCHANGED <<buf, disk, proc>> /\ TrapReturn(h, "vdisk") /\ plic' = Completed("disk")

(* Until the kernel panics, every buffer is counted once for each process   *)
(* that has it, takes it, puts it back or has it pinned, whoever calls      *)
(* bread() next has to wait for the owner, and no block is cached twice.    *)
BuffersCounted == panic = "" => BInv

-----------------------------------------------------------------------------
(* DInv: the disk's rings (virtio_disk.c).  Indices of the used ring run   *)
(* up to IdxMod, slots up to NUM.                                          *)
Idxs == 0..(IdxMod - 1)
After(a) == (a + 1) % IdxMod
Ahead(a, b) == (b + IdxMod - a) % IdxMod
UsedSlot(a, k) == (a + k) % NUM

(* The requests that are with the device or in the used ring.              *)
UsedCount == Ahead(disk.usedIdx, dev.usedIdx)
UsedAt(k) == dev.used[UsedSlot(disk.usedIdx, k)]
IsUsed(d) == \E k \in Nat : k < UsedCount /\ UsedAt(k) = d
InFlight(d) == d \in dev.told \/ IsUsed(d)
ChainOf(d) == Range(disk.chain[d])

DiskRec ==
  /\ disk = [free |-> disk.free, chain |-> disk.chain, info |-> disk.info,
             avail |-> disk.avail, availIdx |-> disk.availIdx, usedIdx |-> disk.usedIdx]
  /\ disk.free \subseteq Descs /\ disk.chain = [d \in Descs |-> disk.chain[d]]
  /\ disk.info = [d \in Descs |-> disk.info[d]] /\ disk.usedIdx \in Idxs

DevRec ==
  /\ dev = [blocks |-> dev.blocks, told |-> dev.told, used |-> dev.used, usedIdx |-> dev.usedIdx, isr |-> dev.isr]
  /\ dev.told \subseteq Descs /\ dev.used \in [Descs -> Descs] /\ dev.usedIdx \in Idxs

Request(r, i) == r # None /\ r = [i |-> r.i, write |-> r.write, status |-> r.status] /\ r.i = i /\ r.write \in BOOLEAN

(* A process waits for a request of its own, whose descriptors are neither *)
(* free nor in another request.                                            *)
Asked(i, d) ==
  /\ d \in Descs /\ Request(disk.info[d], i)
  /\ d \in ChainOf(d) /\ ChainOf(d) \subseteq Descs /\ ChainOf(d) \cap disk.free = {}

Alone(p, q, i, j, d, e) == Waits(p, i, d) /\ Waits(q, j, e) /\ p # q => ChainOf(d) \cap ChainOf(e) = {}

WaitOK ==
  /\ \A p \in Procs, i \in Bufs : \A d : Waits(p, i, d) => Asked(i, d) /\ (buf[i].disk => InFlight(d))
  /\ \A p, q \in Procs, i, j \in Bufs : \A d, e : Alone(p, q, i, j, d, e)

(* What is in flight somebody waits for, and the used ring has as many      *)
(* entries as the indices say, none twice, each with its answer.            *)
FlyOK == \A d : InFlight(d) => \E p \in Procs : \E i \in Bufs : Waits(p, i, d) /\ buf[i].disk

UsedOK ==
  /\ UsedCount <= NUM
  /\ \A k, l \in Nat : k < UsedCount /\ l < UsedCount /\ UsedAt(k) = UsedAt(l) => k = l
  /\ \A d : IsUsed(d) => d \notin dev.told /\ disk.info[d].status = 0

DInv == DiskRec /\ DevRec /\ WaitOK /\ FlyOK /\ UsedOK

(* A step that leaves the requests and who waits for them alone.           *)
WaitsSame == \A p \in Procs, i \in Bufs : \A d : Waits(p, i, d)' <=> Waits(p, i, d)
FlagsSame == \A i \in Bufs : buf'[i].disk = buf[i].disk

(* alloc3_desc() finds three free descriptors where there are three.       *)
Rank(S, d) == {e \in S : e < d}

Answers(t, a, b, k, v, z, S) ==
  dev' = [dev EXCEPT !.blocks[a] = b, !.told = @ \ S, !.used[k] = t, !.usedIdx = v, !.isr = z]

(* Every request reads or writes.                                          *)
WriteOK == \A p \in Procs : Has(p, "rw") => JobOf(p).write \in BOOLEAN

(* The oldest entry of the used ring.                                      *)
Oldest == dev.used[disk.usedIdx % NUM]

WInv == DInv /\ WriteOK

-----------------------------------------------------------------------------
LockPanics == {"acquire", "sched locks"}

(* The whole invariant holds until the kernel panics, and it only panics   *)
(* for want of a buffer.                                                   *)
Sound == panic = "" => BInv /\ WInv

OutOfBuffers == panic \in {"", "bget"}

(* The list that bget() goes through has every buffer, and there is one     *)
(* that nobody has, takes, puts back or has pinned.                         *)
LruOK == \A i \in Bufs : \E k \in 1..NBUF : lru[k] = i
Roomy == \E i \in Bufs : Refs(i) = {} /\ Pinners(i) = {}

-----------------------------------------------------------------------------
(* PInv: the interrupt line of the disk (plic.c, devintr()).               *)
ServeAts == {"ack", "drain"}

TopIs(s, ats) ==
  s # <<>> /\ (Head(s).at \in ats \/ (Head(s).at = "spin" /\ Tail(s) # <<>> /\ Head(Tail(s)).at \in ats))
Serves(h) == TopIs(stack[Cur(h)], ServeAts)
Acks(h) == TopIs(stack[Cur(h)], {"ack"})

Moves(h) == HartStep(h) \/ CacheStep(h) \/ ConsoleStep(h) \/ UartDone(h) \/ Calls(h)
PlicRec == plic = [pending |-> plic.pending, serving |-> plic.serving] /\ dev.isr \in BOOLEAN

(* No interrupt of the disk is lost, and one hart at a time handles it: as  *)
(* long as the driver has not seen an entry of the used ring the interrupt  *)
(* is pending or claimed.                                                   *)
PInv ==
  /\ PlicRec
  /\ disk.usedIdx # dev.usedIdx => "disk" \in plic.pending \cup plic.serving
  /\ dev.isr = TRUE => "disk" \in plic.pending \/ \E h \in Harts : Acks(h)
  /\ \A h \in Harts : Serves(h) => "disk" \in plic.serving
  /\ \A g, h \in Harts : Serves(g) /\ Serves(h) => g = h

IndicesSame == disk'.usedIdx = disk.usedIdx /\ dev'.usedIdx = dev.usedIdx /\ dev'.isr = dev.isr
DiskLineSame == \A s : s = "disk" => (s \in plic'.pending <=> s \in plic.pending) /\ (s \in plic'.serving <=> s \in plic.serving)

-----------------------------------------------------------------------------
(* TInv: the UART's line (uart.c).  No interrupt is lost while there is     *)
(* something to send.                                                      *)
UartIs(u) ==
  u = [ring |-> u.ring, r |-> u.r, w |-> u.w, fifo |-> u.fifo, rx |-> u.rx] /\ u.r \in 0..(TxMod - 1)

UartLine == "uart" \in plic.pending \cup plic.serving
TInv == UartIs(uart) /\ (Idle /\ uart.w # uart.r => UartLine)

(* A step that leaves the ring of the UART alone. *)
TxSame == UartIs(uart') /\ uart'.r = uart.r /\ uart'.w = uart.w /\ (uart'.fifo = <<>> => uart.fifo = <<>>)

-----------------------------------------------------------------------------
(* SInv: what sleepers wait for has not happened.                          *)
WaitsOn(p, c) ==
  \/ c = <<"free">> /\ Cardinality(disk.free) < 3
  \/ c = <<"line">> /\ cons.r = cons.w
  \/ c = <<"tx">> /\ TxFull
  \/ c = <<"ticks">>
  \/ \E i \in Bufs : c = <<"lock", i>> /\ buf[i].owner # None
  \/ \E i \in Bufs : c = <<"buf", i>> /\ buf[i].disk /\ \E d : Waits(p, i, d)

SInv == \A p \in Procs : proc[p].state = "SLEEPING" => WaitsOn(p, proc[p].chan)

(* A step that ends what somebody waits for leaves nobody waiting for it.  *)
Calm(q) == proc'[q].state = "SLEEPING" => proc[q].state = "SLEEPING" /\ proc'[q].chan = proc[q].chan
Deserted(c) == \A q \in Procs : ~(proc'[q].state = "SLEEPING" /\ proc'[q].chan = c)
WaitsStay(q) == \A i, d : Waits(q, i, d) => Waits(q, i, d)'
FreeOK == (Cardinality(disk.free) < 3 => Cardinality(disk'.free) < 3) \/ Deserted(<<"free">>)
LineOK == (cons.r = cons.w => cons'.r = cons'.w) \/ Deserted(<<"line">>)
TxOK == (TxFull => TxFull') \/ Deserted(<<"tx">>)
LocksOK == \A i \in Bufs : (buf[i].owner # None => buf'[i].owner # None) \/ Deserted(<<"lock", i>>)
DisksOK == \A i \in Bufs : (buf[i].disk => buf'[i].disk) \/ Deserted(<<"buf", i>>)
Settled == FreeOK /\ LineOK /\ TxOK /\ LocksOK /\ DisksOK

(* Only the caller of sleep() falls asleep, and where it says. *)
Drowses(p, chan) == (\A q \in Procs : q # p => Calm(q)) /\ (proc'[p].state = "SLEEPING" => proc'[p].chan = chan)

(* The steps of the buffer cache and of the disk driver.                   *)
Touches(p) == JobGone(p) \/ (\E f : JobSet(p, f)) \/ JobsSame
Awake(p) == UNCHANGED proc \/ \E c : proc' = Woken(proc, c)

-----------------------------------------------------------------------------
(* The whole invariant: the harts, the editor, the buffers, the rings of   *)
(* the disk, its interrupts, those of the UART, and the sleepers.  Buffers *)
(* are as they should be until the kernel panics, the rest even then.      *)
Served == (panic = "" => BInv) /\ WInv /\ PInv /\ TInv /\ SInv
=============================================================================
