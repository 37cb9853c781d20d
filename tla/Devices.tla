------------------------------ MODULE Devices ------------------------------
(* Processes that read and write blocks, lines and characters, over the     *)
(* drivers DiskCache and ConsoleUart and the harts they share: the traps    *)
(* that reach the drivers (trap.c, plic.c) and the calls that do.           *)
EXTENDS DiskCache, ConsoleUart

CONSTANTS Workloads    \* bound: what the processes call and what is typed

(* tickslock, the locks of the disk, the console and the UART. *)
ASSUME LocksAssumption == {"ticks", "vdisk", "cons", "uart"} \subseteq Locks

(* In the calls s a process has still to make: it holds the block b, and     *)
(* gives it back before it asks for it again; it has b pinned.               *)
Holds(s, b) ==
  \E k \in 1..Len(s) : /\ s[k].f = "brelse" /\ s[k].b = b
                       /\ \A j \in 1..(k - 1) : ~(s[j].f = "bread" /\ s[j].b = b)
Pins(s, b) ==
  \E k \in 1..Len(s) : /\ s[k].f = "pin" /\ s[k].b = b /\ ~s[k].up
                       /\ \A j \in 1..(k - 1) : ~(s[j].f = "pin" /\ s[j].b = b /\ s[j].up)

(* What the callers of bio.c owe it: who changes, writes or pins a block has *)
(* it in hand (bwrite() and brelse() check that much), what is taken or      *)
(* pinned is given back or unpinned once, and before the call returns.  (A   *)
(* group of calls that log.c commits together is in FsLog.)                  *)
Proper(c, rest) ==
  /\ c.f \in {"bread", "modify", "bwrite", "pin", "brelse"} => c.b \in Blocks
  /\ c.f \in {"bread", "modify", "bwrite", "pin"} => Holds(rest, c.b)
  /\ c.f = "brelse" => ~Holds(rest, c.b)
  /\ c.f = "pin" => (c.up <=> Pins(rest, c.b))
  /\ c.f = "ret" => \A b \in Blocks : ~Holds(rest, b) /\ ~Pins(rest, b)
Disciplined(s) ==
  /\ \A k \in 1..Len(s) : Proper(s[k], SubSeq(s, k + 1, Len(s)))
  /\ \A b \in Blocks : ~Holds(s, b) /\ ~Pins(s, b)

(* main() starts harts and nothing else. *)
ASSUME WorkloadsAssumption ==
  \A wl \in Workloads :
    /\ wl.harts \subseteq Harts /\ wl.calls = [p \in Procs |-> wl.calls[p]]
    /\ \A p \in Procs : wl.calls[p] \in Seq(Range(wl.calls[p])) /\ Disciplined(wl.calls[p])

VARIABLES todo         \* of a process: the kernel functions it still calls

vars == <<hart, lock, proc, stack, ticks, panic, buf, lru, disk, dev, plic, cons, uart, keys, typed, todo>>
driver == <<buf, lru, disk, dev, plic, cons, uart, keys, typed>>

Init ==
  /\ Binit /\ VirtioDiskInit /\ PlicInit /\ ConsoleInit /\ UartInit
  /\ \E wl \in Workloads : HartsInit(wl.harts, wl.preemptions) /\ todo = wl.calls /\ keys = wl.keys

----------------------------------------------------------------------------
(* The calls.  Each is a record with the name of a kernel function. *)
Ready(h, f) ==
  /\ panic = "" /\ hart[h].proc # None
  /\ \E p \in {hart[h].proc} :
       /\ stack[p] = <<>> /\ todo[p] # <<>> /\ Head(todo[p]).f = f
       /\ todo' = [todo EXCEPT ![p] = Tail(@)]
Call(h) == Head(todo[hart[h].proc])
Buffer(h) == CHOOSE i \in Bufs : buf[i].owner = hart[h].proc /\ buf[i].blk = Call(h).b
Push(h, fs) == stack' = [stack EXCEPT ![hart[h].proc] = fs]
NoChange == UNCHANGED <<hart, lock, proc, ticks, panic>>

(* A call that begins by taking a spinlock. *)
Begin(h, lk, f) ==
  \/ /\ lock[lk] = None /\ lock' = [lock EXCEPT ![lk] = h] /\ Push(h, <<f>>)
     /\ hart' = [hart EXCEPT ![h] = PushOff(@)] /\ UNCHANGED <<proc, ticks, panic>>
  \/ /\ lock[lk] # None /\ Push(h, <<[at |-> "spin", lk |-> lk], f>>)
     /\ hart' = [hart EXCEPT ![h] = PushOff(@)] /\ UNCHANGED <<lock, proc, ticks, panic>>

CallBread(h) ==
  /\ Ready(h, "bread")
  /\ \E b \in {Call(h).b} :
       \/ /\ Cached(b) = {} /\ Unused = {} /\ Panic("bget") /\ UNCHANGED buf
       \/ /\ Bget(b) /\ NoChange
          /\ Push(h, <<[at |-> "acquiresleep", i |-> CHOOSE i \in Bufs : buf'[i].blk = b]>>)
  /\ UNCHANGED <<lru, disk, dev, plic, cons, uart, keys, typed>>

(* The holder changes the block, and has it written or pinned. *)
CallModify(h) ==
  /\ Ready(h, "modify") /\ buf' = [buf EXCEPT ![Buffer(h)].data = Call(h).v]
  /\ NoChange /\ UNCHANGED <<stack, lru, disk, dev, plic, cons, uart, keys, typed>>

CallBwrite(h) ==
  /\ Ready(h, "bwrite") /\ Begin(h, "vdisk", [at |-> "rw", i |-> Buffer(h), write |-> TRUE])
  /\ UNCHANGED driver

(* bpin() and bunpin(). *)
CallPin(h) ==
  /\ Ready(h, "pin") /\ buf' = [buf EXCEPT ![Buffer(h)].refcnt = IF Call(h).up THEN @ + 1 ELSE @ - 1]
  /\ NoChange /\ UNCHANGED <<stack, lru, disk, dev, plic, cons, uart, keys, typed>>

(* brelse(): the sleep lock is given up first, the reference after it. *)
CallBrelse(h) ==
  /\ Ready(h, "brelse")
  /\ \E i \in {Buffer(h)} :
       /\ buf' = [buf EXCEPT ![i].owner = None]
       /\ proc' = Woken(proc, <<"lock", i>>)
       /\ Push(h, <<[at |-> "deref", i |-> i]>>)
  /\ UNCHANGED <<hart, lock, ticks, panic, lru, disk, dev, plic, cons, uart, keys, typed>>

CallRead(h) ==
  /\ Ready(h, "read") /\ Begin(h, "cons", [at |-> "consoleread", n |-> Call(h).n, target |-> Call(h).n])
  /\ UNCHANGED driver

CallWrite(h) ==
  /\ Ready(h, "write") /\ Begin(h, "uart", [at |-> "putc", c |-> Call(h).c])
  /\ UNCHANGED driver

CallSleep(h) ==
  /\ Ready(h, "sleep") /\ Begin(h, "ticks", [at |-> "sleep", n |-> Call(h).n, since |-> None])
  /\ UNCHANGED driver

(* kill(): the victim is woken up from whatever it sleeps on. *)
CallKill(h) ==
  /\ Ready(h, "kill")
  /\ \E p \in {Call(h).p} :
       proc' = [proc EXCEPT ![p].killed = TRUE, ![p].chan = IF proc[p].state = "SLEEPING" THEN None ELSE @,
                            ![p].state = IF @ = "SLEEPING" THEN "RUNNABLE" ELSE @]
  /\ UNCHANGED <<hart, lock, stack, ticks, panic, driver>>

(* The end of a system call: a process that was killed meanwhile exits. *)
CallReturn(h) ==
  /\ Ready(h, "ret") /\ ~proc[hart[h].proc].killed
  /\ UNCHANGED <<hart, lock, proc, stack, ticks, panic, driver>>

Exit(h) ==
  /\ panic = "" /\ hart[h].proc # None /\ stack[hart[h].proc] = <<>>
  /\ \/ todo[hart[h].proc] = <<>>
     \/ todo[hart[h].proc] # <<>> /\ Call(h).f = "ret" /\ proc[hart[h].proc].killed
  /\ hart[h].noff = 0
  /\ proc' = [proc EXCEPT ![hart[h].proc].state = "ZOMBIE"]
  /\ todo' = [todo EXCEPT ![hart[h].proc] = <<>>]
  /\ hart' = [hart EXCEPT ![h] = LeftTo(PushOff(@), 1)]
  /\ UNCHANGED <<lock, stack, ticks, panic, driver>>

Calls(h) ==
  \/ CallBread(h) \/ CallModify(h) \/ CallBwrite(h) \/ CallBrelse(h) \/ CallPin(h)
  \/ CallRead(h) \/ CallWrite(h) \/ CallSleep(h) \/ CallKill(h) \/ CallReturn(h) \/ Exit(h)

----------------------------------------------------------------------------
(* The PLIC: an interrupt that is pending and not being served. *)
Claimable == plic.pending \ plic.serving

(* devintr(): the hart that claims the interrupt handles it. *)
Claimed(s) == [pending |-> plic.pending \ {s}, serving |-> plic.serving \cup {s}]

External(h) ==
  /\ \/ /\ "disk" \in Claimable /\ plic' = Claimed("disk")
        /\ Trap(h, "vdisk", <<Plain("ack")>>) /\ UNCHANGED uart
     \/ /\ "uart" \in Claimable /\ plic' = Claimed("uart")
        /\ Trap(h, UartNext[1], UartNext[2]) /\ uart' = Received
  /\ UNCHANGED <<proc, ticks, panic, buf, lru, disk, dev, cons, keys, typed, todo>>

UartDone(h) ==
  /\ UartIntrStart(h) /\ plic' = Completed("uart")
  /\ UNCHANGED <<buf, lru, disk, dev, todo>>

(* The devices. *)
Interrupts(s) == plic' = [plic EXCEPT !.pending = @ \cup {s}]

KeyPress ==
  /\ panic = "" /\ keys # <<>>
  /\ uart' = [uart EXCEPT !.rx = Append(@, Head(keys))] /\ keys' = Tail(keys)
  /\ Interrupts("uart")
  /\ UNCHANGED <<hart, lock, proc, stack, ticks, panic, buf, lru, disk, dev, cons, typed, todo>>

Transmitted ==
  /\ panic = "" /\ uart.fifo # <<>>
  /\ uart' = [uart EXCEPT !.fifo = <<>>]
  /\ Interrupts("uart")
  /\ UNCHANGED <<hart, lock, proc, stack, ticks, panic, buf, lru, disk, dev, cons, keys, typed, todo>>

DiskDone(d) == DeviceDone(d) /\ UNCHANGED <<cons, uart, keys, typed, todo>>

(* The system may stop only when everything is done; a reader may wait for  *)
(* a line that nobody types.                                                *)
Done ==
  /\ panic = "" /\ keys = <<>> /\ uart.fifo = <<>> /\ uart.rx = <<>> /\ plic.pending = {}
  /\ \A p \in Procs : proc[p].state = "ZOMBIE" \/ proc[p].chan = <<"line">>
  /\ \A h \in Harts : hart[h].proc = None /\ (hart[h].intr => stack[h] = <<>>) /\ (~hart[h].intr => At(h, "off"))

Idling == Done /\ UNCHANGED vars

Next ==
  \/ \E h \in Harts :
       \/ HartStep(h) /\ UNCHANGED <<driver, todo>>
       \/ CacheStep(h) /\ UNCHANGED <<cons, uart, keys, typed, todo>>
       \/ ConsoleStep(h) /\ UNCHANGED <<buf, lru, disk, dev, plic, todo>>
       \/ Calls(h) \/ External(h) \/ UartDone(h)
  \/ KeyPress \/ Transmitted \/ \E d \in Descs : DiskDone(d)
  \/ Idling

Spec == Init /\ [][Next]_vars

----------------------------------------------------------------------------
(* A process has a block in hand from bread() to brelse(). *)
Holding(p, i) == buf[i].owner = p /\ buf[i].valid

HolderOf(b) ==
  IF \E i \in Bufs, p \in Procs : buf[i].blk = b /\ Holding(p, i)
  THEN CHOOSE p \in Procs : \E i \in Bufs : buf[i].blk = b /\ Holding(p, i)
  ELSE None

Content(b) ==
  IF \E i \in Bufs : buf[i].blk = b /\ buf[i].valid
  THEN buf[CHOOSE i \in Bufs : buf[i].blk = b /\ buf[i].valid].data
  ELSE dev.blocks[b]

Store == INSTANCE BlockStore WITH store <- [b \in Blocks |-> Content(b)], holder <- [b \in Blocks |-> HolderOf(b)]

(* What the comment at bio.c:4 promises of the cache, whatever is cached,   *)
(* recycled, pinned or in flight: a block has one holder at a time, who     *)
(* sees what the last one left.                                             *)
Coherent == Store!Spec

(* No caller, interrupt or preemption makes the kernel panic: no lock is    *)
(* taken twice, nobody sleeps with a spinlock, no descriptor is freed twice *)
(* and no completion is for a request that is not there.                    *)
NoPanic == panic = ""

(* Interrupts are off exactly in handlers and under spinlocks, noff counts  *)
(* the locks of the hart, and what interrupts were before goes with the     *)
(* thread and not with the hart (spinlock.c:86, proc.c:703).                *)
LocksOf(h) == {lk \in Locks : lock[lk] = h}
Handlers == {"clockintr", "ack", "drain", "uartintr", "start", "consoleintr", "trapret"}
InHandler(h) == \E k \in 1..Len(stack[Cur(h)]) : stack[Cur(h)][k].at \in Handlers
IntrMatches ==
  \A h \in Harts :
    /\ hart[h].noff = Cardinality(LocksOf(h)) + (IF stack[Cur(h)] # <<>> /\ Frame(h).at = "spin" THEN 1 ELSE 0)
    /\ hart[h].noff > 0 \/ InHandler(h) => ~hart[h].intr
    /\ hart[h].proc # None /\ hart[h].noff = 0 /\ ~InHandler(h) => hart[h].intr

(* Whoever sleeps is going to be woken up: what it waits for has not        *)
(* happened, and the interrupt that will make it happen is not lost.        *)
Completes(i) ==
  \E d \in Descs : /\ disk.info[d] # None /\ disk.info[d].i = i
                   /\ \/ d \in dev.told
                      \/ /\ disk.usedIdx # dev.usedIdx
                         /\ "disk" \in plic.pending \cup plic.serving
Awaited(chan) ==
  CASE chan[1] = "free" -> Cardinality(disk.free) < 3
    [] chan[1] = "line" -> cons.r = cons.w
    [] chan[1] = "tx" -> TxFull /\ (~Idle \/ "uart" \in plic.pending \cup plic.serving)
    [] chan[1] = "ticks" -> TRUE
    [] chan[1] = "lock" -> buf[chan[2]].owner # None
    [] chan[1] = "buf" -> buf[chan[2]].disk /\ Completes(chan[2])
SleepersAwaited == \A p \in Procs : proc[p].state = "SLEEPING" => Awaited(proc[p].chan)

(* The ring of the console holds, after what readers took, the characters   *)
(* typed as a line editor leaves them: nothing is lost, doubled or taken    *)
(* back once its line is complete, whatever wraps around.                   *)
InRing(from, to) == [k \in 1..((to + EditMod - from) % EditMod) |-> cons.ring[Slot(from + k - 1)]]
Killing == \E c \in Procs \cup Harts : \E k \in 1..Len(stack[c]) : stack[c][k].at = "consoleintr" /\ stack[c][k].c = CtrlU
LinesEdited ==
  /\ cons.taken \o InRing(cons.r, cons.w) = typed.done
  /\ \/ InRing(cons.w, cons.e) = typed.line
     \/ Killing /\ \E m \in 0..Len(typed.line) : InRing(cons.w, cons.e) = SubSeq(typed.line, 1, m)
=============================================================================
