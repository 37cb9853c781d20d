------------------------------ MODULE Lottery ------------------------------
(* The kernel of initial-xv6 built with SCHEDULER=LBS: the lottery          *)
(* scheduler and settickets(), the clock and the times waitx() reports, the *)
(* system calls counted for getSysCount(), sigalarm() and sigreturn().      *)
(* A step is a section under p->lock, wait_lock or tickslock, one of the    *)
(* scheduler's scans, which take no lock, or an instruction in user mode.   *)
EXTENDS LotteryPrograms, FiniteSets, FiniteSetsExt

CONSTANTS
  NPROC,
  Pages,    \* what kalloc() has for saved trapframes
  Works     \* [harts, progs, beats]: harts online, programs to run, timer interrupts

ASSUME ProcAssumption ==
  /\ NPROC \in Nat \ {0, 1} /\ Pages # {} /\ 0 \notin Pages
  /\ \A w \in Works : w.harts \in Nat \ {0} /\ w.progs \in Seq(Mains)

VARIABLES
  work,         \* the one of Works this behaviour is about
  proc,         \* struct proc of each slot, with tf, what of the trapframe matters
  hart,         \* where scheduler() is on each hart, with its local variables
  kern,         \* the system call each process is in, NoCall in user mode
  mem,          \* the variables of each process
  page,         \* the saved trapframes
  ticks, clk,   \* clk: the slot update_time() is at in clockintr(), or 0
  due, beats,   \* harts with a timer interrupt pending; interrupts so far
  nextpid,
  seen          \* of the past, to state properties (see below)

vars == <<work, proc, hart, kern, mem, page, ticks, clk, due, beats, nextpid, seen>>

Procs == 1..NPROC
None == 0
InitProc == 1
Harts == 1..work.harts
Calls == {"fork", "exit", "wait", "exec", "sleep", "write", "waitx", "getSysCount", "sigalarm", "sigreturn", "settickets"}

TicksChan == NPROC + 1    \* the channel &ticks; that of a struct proc is its slot
NoCall == [call |-> "none"]
NoCounts == [c \in Calls |-> 0]
Context(prog, a0) == [pc |-> <<prog, 1>>, a0 |-> a0]
Memory == [count |-> 0, drift |-> 0, status |-> 0]
Unused ==
  [state |-> "UNUSED", pid |-> 0, parent |-> None, chan |-> None, xstate |-> 0,
   ctime |-> 0, rtime |-> 0, etime |-> 0, tickets |-> 1, counts |-> NoCounts,
   alarm |-> FALSE, alarmticks |-> 0, tickcounter |-> 0, handler |-> "none", savedtf |-> None,
   tf |-> Context("init", 0)]

(* What has happened: the calls each pid has made, the pids whose calls a   *)
(* process has to account for, the context each slot's alarm interrupted,   *)
(* the tests that failed.                                                   *)
SeenInit ==
  [made |-> [pid \in {1} |-> NoCounts],
   heirs |-> [p \in Procs |-> IF p = InitProc THEN {1} ELSE {}],
   cut |-> [p \in Procs |-> NoCall], failed |-> {}]

Scheduling == [at |-> "total", total |-> 0, p |-> 0, earliest |-> 0, proc |-> None]

(* userinit() has run. *)
Init ==
  /\ work \in Works
  /\ proc = [p \in Procs |-> IF p = InitProc THEN [Unused EXCEPT !.state = "RUNNABLE", !.pid = 1] ELSE Unused]
  /\ hart = [h \in Harts |-> Scheduling]
  /\ kern = [p \in Procs |-> NoCall] /\ mem = [p \in Procs |-> Memory]
  /\ page = [g \in Pages |-> NoCall]
  /\ ticks = 0 /\ clk = 0 /\ due = {} /\ beats = 0
  /\ nextpid = 2
  /\ seen = SeenInit

------------------------------------------------------------------------------
(* scheduler() *)

Ready == {p \in Procs : proc[p].state = "RUNNABLE"}
Tickets(S) == MapThenSumSet(LAMBDA p : proc[p].tickets, S)

(* An interrupted hart is in clockintr(). *)
Free(h) == h = 1 => clk = 0

Total(h) ==
  /\ Free(h) /\ hart[h].at = "total" /\ Tickets(Ready) # 0
  /\ hart' = [hart EXCEPT ![h].at = "draw", ![h].total = Tickets(Ready)]
  /\ UNCHANGED <<work, proc, kern, mem, page, ticks, clk, due, beats, nextpid, seen>>

(* The tie-break: the first of the earliest, p itself when it is one. *)
Earliest(p) ==
  LET tied == {p} \cup {q \in Ready : proc[q].tickets = proc[p].tickets}
      first == {q \in tied : \A r \in tied : proc[q].ctime <= proc[r].ctime}
  IN  IF p \in first THEN p ELSE Min(first)

(* The scan stops at p: a process wins, or the scan is over. *)
Stops(h, candidates) ==
  hart' = [hart EXCEPT ![h] =
    IF candidates = {} THEN Scheduling
    ELSE [Scheduling EXCEPT !.at = "take", !.p = Min(candidates), !.earliest = Earliest(Min(candidates))]]

Draw(h) ==
  /\ Free(h) /\ hart[h].at = "draw"
  /\ \E winner \in 0..(hart[h].total - 1) :
       Stops(h, {p \in Ready : Tickets(Ready \cap (1..p)) >= winner})
  /\ UNCHANGED <<work, proc, kern, mem, page, ticks, clk, due, beats, nextpid, seen>>

\* Mutant: the state is not looked at again under the lock.
TakeUnchecked(h) ==
  /\ Free(h) /\ hart[h].at = "take"
  /\ proc' = [proc EXCEPT ![hart[h].earliest].state = "RUNNING"]
  /\ hart' = [hart EXCEPT ![h] = [Scheduling EXCEPT !.at = "run", !.proc = hart[h].earliest]]
  /\ UNCHANGED <<work, kern, mem, page, ticks, clk, due, beats, nextpid, seen>>

(* The scan goes on when the process is RUNNABLE no more; sum has reached *)
(* the winner by then, so the next RUNNABLE slot stops it.                *)
Take(h) ==
  /\ Free(h) /\ hart[h].at = "take"
  /\ \/ /\ hart[h].earliest \in Ready
        /\ proc' = [proc EXCEPT ![hart[h].earliest].state = "RUNNING"]
        /\ hart' = [hart EXCEPT ![h] = [Scheduling EXCEPT !.at = "run", !.proc = hart[h].earliest]]
     \/ /\ hart[h].earliest \notin Ready
        /\ Stops(h, {p \in Ready : p > hart[h].p})
        /\ UNCHANGED proc
  /\ UNCHANGED <<work, kern, mem, page, ticks, clk, due, beats, nextpid, seen>>

(* What a process does when it gives up the hart: back to scheduler(). *)
GivesUp(h) == hart' = [hart EXCEPT ![h] = Scheduling]

Woken(procs, chan) ==
  [p \in Procs |-> IF procs[p].state = "SLEEPING" /\ procs[p].chan = chan
                   THEN [procs[p] EXCEPT !.state = "RUNNABLE"] ELSE procs[p]]

------------------------------------------------------------------------------
(* usertrap() after the interrupt: the alarm of the process.  It does not  *)
(* test what kalloc() returns: without a page there is no step.            *)
Rings(r) == r.alarm /\ r.alarmticks > 0 /\ r.tickcounter + 1 >= r.alarmticks

\* Mutant: the alarm stays armed while its handler runs.
AlarmStaysOn(r, g) ==
  [r EXCEPT !.tickcounter = @ + 1, !.savedtf = g, !.tf.pc = <<r.handler, 1>>]
Alarm(r, g) ==
  [r EXCEPT !.tickcounter = @ + 1, !.alarm = FALSE, !.savedtf = g, !.tf.pc = <<r.handler, 1>>]

(* The end of the trap: the alarm if it came from user mode, and yield(). *)
TrapEnd(h, procs) ==
  LET p == hart[h].proc
      alone == [procs EXCEPT ![p].state = "RUNNABLE"]
  IN  IF p = None THEN proc' = procs /\ UNCHANGED <<hart, page, seen>>
      ELSE /\ GivesUp(h)
           /\ \/ /\ kern[p] # NoCall \/ ~proc[p].alarm
                 /\ proc' = alone /\ UNCHANGED <<page, seen>>
              \/ /\ kern[p] = NoCall /\ proc[p].alarm /\ ~Rings(proc[p])
                 /\ proc' = [alone EXCEPT ![p].tickcounter = @ + 1] /\ UNCHANGED <<page, seen>>
              \/ /\ kern[p] = NoCall /\ Rings(proc[p])
                 /\ \E g \in {x \in Pages : page[x] = NoCall} :
                      /\ proc' = [alone EXCEPT ![p] = Alarm(@, g)]
                      /\ page' = [page EXCEPT ![g] = proc[p].tf]
                 /\ seen' = [seen EXCEPT !.cut[p] = proc[p].tf]

(* The timers of the harts have one interval.  Only the first hart counts *)
(* its interrupts.                                                        *)
Tick ==
  /\ due = {} /\ clk = 0 /\ beats < work.beats
  /\ beats' = beats + 1 /\ due' = Harts \ {1}
  /\ ticks' = ticks + 1 /\ clk' = 1
  /\ UNCHANGED <<work, proc, hart, kern, mem, page, nextpid, seen>>

OtherTick(h) ==
  /\ h \in due
  /\ due' = due \ {h}
  /\ TrapEnd(h, proc)
  /\ UNCHANGED <<work, kern, mem, ticks, clk, beats, nextpid>>

(* update_time() locks one slot after the other; on one hart nothing comes *)
(* between.                                                                *)
UpdateTime ==
  /\ clk \in Procs
  /\ \E last \in {IF work.harts = 1 THEN NPROC ELSE clk} :
       /\ proc' = [p \in Procs |-> IF p \in clk..last /\ proc[p].state = "RUNNING"
                                   THEN [proc[p] EXCEPT !.rtime = @ + 1] ELSE proc[p]]
       /\ clk' = last + 1
  /\ UNCHANGED <<work, hart, kern, mem, page, ticks, due, beats, nextpid, seen>>

(* The end of clockintr(). *)
ClockEnd ==
  /\ clk = NPROC + 1
  /\ clk' = 0
  /\ TrapEnd(1, Woken(proc, TicksChan))
  /\ UNCHANGED <<work, kern, mem, ticks, due, beats, nextpid>>

------------------------------------------------------------------------------
(* The process a hart runs. *)

Runs(h, p) == Free(h) /\ hart[h].at = "run" /\ hart[h].proc = p

Code(prog) == IF prog = "init" THEN InitCode(work.progs) ELSE Programs[prog]
Instruction(p) == Code(proc[p].tf.pc[1])[proc[p].tf.pc[2]]
Line(pc, i) == [pc EXCEPT ![2] = i]

(* usertrap() and syscall(), up to the call of sys_...(). *)
Enters(h, p) ==
  /\ Runs(h, p) /\ kern[p] = NoCall /\ Instruction(p).op = "ecall"
  /\ LET c == Instruction(p).call
     IN  /\ c \in Calls
         /\ proc' = [proc EXCEPT ![p].tf.pc[2] = @ + 1, ![p].counts[c] = @ + 1]
         /\ seen' = [seen EXCEPT !.made[proc[p].pid][c] = @ + 1]
  /\ kern' = [kern EXCEPT ![p] = Instruction(p)]
  /\ UNCHANGED <<work, hart, mem, page, ticks, clk, due, beats, nextpid>>

Met(p, i) ==
  CASE i.what = "a0" -> proc[p].tf.a0 = i.v
    [] i.what = "drift" -> mem[p].drift = i.v
    [] i.what = "status" -> mem[p].status = i.v

(* An instruction in user mode. *)
Computes(h, p) ==
  /\ Runs(h, p) /\ kern[p] = NoCall /\ Instruction(p).op # "ecall"
  /\ \E i \in {Instruction(p)}, pc \in {proc[p].tf.pc} :
       /\ \E next \in CASE i.op = "jump" -> {Line(pc, n) : n \in i.to}
                        [] i.op = "until" /\ mem[p].count >= i.n -> {Line(pc, i.to)}
                        [] i.op = "goto" \/ (i.op = "child" /\ proc[p].tf.a0 = 0) -> {<<i.prog, 1>>}
                        [] OTHER -> {Line(pc, pc[2] + 1)} :
            proc' = [proc EXCEPT ![p].tf = [pc |-> next, a0 |-> IF i.op = "li" THEN i.v ELSE @.a0]]
       /\ mem' = CASE i.op = "zero" -> [mem EXCEPT ![p].count = 0, ![p].drift = 0]
                   [] i.op = "count" -> [mem EXCEPT ![p].count = @ + 1]
                   [] i.op = "adds" -> [mem EXCEPT ![p].drift = @ + i.n]
                   [] OTHER -> mem
       /\ seen' = IF i.op = "passes" /\ ~Met(p, i) THEN [seen EXCEPT !.failed = @ \cup {pc[1]}] ELSE seen
  /\ UNCHANGED <<work, hart, kern, page, ticks, clk, due, beats, nextpid>>

(* The process is in the body of a call, and the call returns v. *)
In(h, p, call) == Runs(h, p) /\ kern[p].call = call
Returned(procs, p, v) == [procs EXCEPT ![p].tf.a0 = v]
Leaves(p) == kern' = [kern EXCEPT ![p] = NoCall]

(* A call that only changes what struct proc has of the caller. *)
Simple(p) ==
  LET k == kern[p]
  IN  CASE k.call = "write" -> Returned(proc, p, 1)
        [] k.call = "sigalarm" ->
             Returned([proc EXCEPT ![p].alarm = TRUE, ![p].alarmticks = k.n, ![p].handler = k.handler], p, 0)
        [] k.call = "settickets" ->
             IF k.n <= 0 THEN Returned(proc, p, 0) ELSE Returned([proc EXCEPT ![p].tickets = k.n], p, 1)
        [] k.call = "getSysCount" -> Returned(proc, p, proc[p].counts[k.of])
SysSimple(h, p) ==
  /\ Runs(h, p) /\ kern[p].call \in {"write", "sigalarm", "settickets", "getSysCount"}
  /\ proc' = Simple(p) /\ Leaves(p)
  /\ UNCHANGED <<work, hart, mem, page, ticks, clk, due, beats, nextpid, seen>>

SysExec(h, p) ==
  /\ In(h, p, "exec")
  /\ proc' = [proc EXCEPT ![p].tf = Context(kern[p].prog, 1)]
  /\ mem' = [mem EXCEPT ![p] = Memory]
  /\ Leaves(p)
  /\ UNCHANGED <<work, hart, page, ticks, clk, due, beats, nextpid, seen>>

\* Mutant: sigreturn() returns through syscall(), which stores its result.
RestoredAndReturned(r) ==
  [r EXCEPT !.tf = [page[r.savedtf] EXCEPT !.a0 = 0], !.tickcounter = 0, !.alarm = TRUE]
Restored(r) == [r EXCEPT !.tf = page[r.savedtf], !.tickcounter = 0, !.alarm = TRUE]

(* It leaves through usertrapret(), so syscall() stores no result. *)
SysSigreturn(h, p) ==
  /\ In(h, p, "sigreturn")
  /\ proc' = [proc EXCEPT ![p] = Restored(@)]
  /\ page' = [page EXCEPT ![proc[p].savedtf] = NoCall]
  /\ Leaves(p)
  /\ seen' = [seen EXCEPT !.cut[p] = NoCall]
  /\ UNCHANGED <<work, hart, mem, ticks, clk, due, beats, nextpid>>

------------------------------------------------------------------------------
(* Processes come and go. *)

\* Mutant: rtime is left as the last process of the slot had it.
AllocatedWithTime(r) ==
  [r EXCEPT !.state = "USED", !.pid = nextpid, !.ctime = ticks, !.etime = 0, !.counts = NoCounts,
            !.alarm = FALSE, !.alarmticks = 0, !.tickcounter = 0, !.handler = "none", !.tickets = 1]
Allocated(r) ==
  [r EXCEPT !.state = "USED", !.pid = nextpid, !.ctime = ticks, !.rtime = 0, !.etime = 0, !.counts = NoCounts,
            !.alarm = FALSE, !.alarmticks = 0, !.tickcounter = 0, !.handler = "none", !.tickets = 1]

(* allocproc() and the copy of the parent; ticks is read without its lock. *)
ForkAlloc(h, p) ==
  /\ In(h, p, "fork")
  /\ LET unused == {q \in Procs : proc[q].state = "UNUSED"}
     IN  \/ /\ unused = {}
            /\ proc' = Returned(proc, p, -1) /\ Leaves(p)
            /\ UNCHANGED <<mem, nextpid, seen>>
         \/ /\ unused # {}
            /\ \E q \in {Min(unused)} :
                 /\ proc' = [proc EXCEPT ![q] = [Allocated(@) EXCEPT !.tf = [proc[p].tf EXCEPT !.a0 = 0]]]
                 /\ mem' = [mem EXCEPT ![q] = mem[p]]
                 /\ kern' = [kern EXCEPT ![p] = [call |-> "forking", child |-> q]]
                 /\ seen' = [seen EXCEPT !.heirs[q] = {nextpid}, !.made = [pid \in 1..nextpid |-> IF pid = nextpid THEN NoCounts ELSE @[pid]]]
            /\ nextpid' = nextpid + 1
  /\ UNCHANGED <<work, hart, page, ticks, clk, due, beats>>

ForkRun(h, p) ==
  /\ In(h, p, "forking")
  /\ \E q \in {kern[p].child} :
       proc' = Returned([proc EXCEPT ![q].parent = p, ![q].tickets = proc[p].tickets, ![q].state = "RUNNABLE"],
                        p, proc[q].pid)
  /\ Leaves(p)
  /\ UNCHANGED <<work, hart, mem, page, ticks, clk, due, beats, nextpid, seen>>

Children(p) == {q \in Procs : proc[q].parent = p}

SysExit(h, p) ==
  /\ In(h, p, "exit")
  /\ LET orphans == [q \in Procs |-> IF q \in Children(p) THEN [proc[q] EXCEPT !.parent = InitProc] ELSE proc[q]]
         adopted == IF Children(p) = {} THEN orphans ELSE Woken(orphans, InitProc)
     IN  proc' = [Woken(adopted, proc[p].parent) EXCEPT
                    ![p].state = "ZOMBIE", ![p].xstate = kern[p].n, ![p].etime = ticks]
  /\ GivesUp(h)
  /\ UNCHANGED <<work, kern, mem, page, ticks, clk, due, beats, nextpid, seen>>

Freed(r) ==
  [r EXCEPT !.state = "UNUSED", !.pid = 0, !.parent = None, !.chan = None, !.xstate = 0, !.counts = NoCounts]

\* Mutant: the child is freed before its counts are read.
ReapedFirst(p, q) ==
  [proc EXCEPT ![q] = Freed(@), ![p].counts = [c \in Calls |-> @[c] + Freed(proc[q]).counts[c]]]
(* wait() gives the parent the counts of the child it frees. *)
Reaped(p, q) ==
  [proc EXCEPT ![q] = Freed(@), ![p].counts = [c \in Calls |-> @[c] + proc[q].counts[c]]]

Sleeps(h, p, chan) ==
  /\ proc' = [proc EXCEPT ![p].state = "SLEEPING", ![p].chan = chan]
  /\ GivesUp(h)

Zombies(p) == {q \in Children(p) : proc[q].state = "ZOMBIE"}

(* wait() and waitx(), from wait_lock taken or sleep() returned. *)
SysWait(h, p) ==
  /\ Runs(h, p) /\ kern[p].call \in {"wait", "waitx"}
  /\ \/ /\ Zombies(p) # {}
        /\ \E q \in {Min(Zombies(p))} :
             /\ mem' = [mem EXCEPT ![p].status = proc[q].xstate]
             /\ \/ /\ kern[p].call = "wait"
                   /\ proc' = Returned(Reaped(p, q), p, proc[q].pid)
                   /\ seen' = [seen EXCEPT !.heirs[p] = @ \cup seen.heirs[q], !.heirs[q] = {}]
                \/ /\ kern[p].call = "waitx"
                   /\ proc' = Returned([proc EXCEPT ![q] = Freed(@)], p, proc[q].pid)
                   /\ seen' = [seen EXCEPT !.heirs[q] = {}]
             /\ kern' = [kern EXCEPT ![p] = NoCall, ![q] = NoCall]
        /\ UNCHANGED hart
     \/ /\ Children(p) = {}
        /\ proc' = Returned(proc, p, -1) /\ Leaves(p)
        /\ UNCHANGED <<hart, mem, seen>>
     \/ /\ Children(p) # {} /\ Zombies(p) = {}
        /\ Sleeps(h, p, p)
        /\ UNCHANGED <<kern, mem, seen>>
  /\ UNCHANGED <<work, page, ticks, clk, due, beats, nextpid>>

(* sys_sleep(), from tickslock taken or sleep() returned. *)
SysSleep(h, p) ==
  /\ Runs(h, p) /\ kern[p].call \in {"sleep", "sleeping"} /\ clk = 0
  /\ \E since \in {IF kern[p].call = "sleep" THEN ticks ELSE kern[p].since} :
       \/ /\ ticks - since >= kern[p].n
          /\ proc' = Returned(proc, p, 0) /\ Leaves(p) /\ UNCHANGED hart
       \/ /\ ticks - since < kern[p].n
          /\ Sleeps(h, p, TicksChan)
          /\ kern' = [kern EXCEPT ![p] = [call |-> "sleeping", n |-> kern[p].n, since |-> since]]
  /\ UNCHANGED <<work, mem, page, ticks, clk, due, beats, nextpid, seen>>

------------------------------------------------------------------------------
(* The interrupts of this behaviour are spent and somebody sleeps for one. *)
Late ==
  /\ beats = work.beats /\ due = {} /\ clk = 0
  /\ \A p \in Procs : proc[p].state \notin {"RUNNABLE", "RUNNING"}
  /\ \E p \in Procs : proc[p].state = "SLEEPING" /\ proc[p].chan = TicksChan
  /\ UNCHANGED vars

Process(h, p) ==
  \/ Enters(h, p) \/ Computes(h, p) \/ SysSimple(h, p) \/ SysExec(h, p) \/ SysSigreturn(h, p)
  \/ ForkAlloc(h, p) \/ ForkRun(h, p) \/ SysExit(h, p) \/ SysWait(h, p) \/ SysSleep(h, p)
Next ==
  \/ Late \/ Tick \/ UpdateTime \/ ClockEnd
  \/ \E h \in Harts : Total(h) \/ Draw(h) \/ Take(h) \/ OtherTick(h) \/ \E p \in Procs : Process(h, p)
Spec == Init /\ [][Next]_vars

------------------------------------------------------------------------------
(* Properties. *)

(* A process runs on one hart, and is RUNNING just then, although the       *)
(* lottery reads states without locks and looks again only when it has      *)
(* locked the earliest of the winners (proc.c:582-602).                     *)
OneHart ==
  /\ \A p \in Procs : proc[p].state = "RUNNING" <=> (\E h \in Harts : hart[h].proc = p)
  /\ \A g, h \in Harts : g # h /\ hart[g].proc = hart[h].proc => hart[g].proc = None

(* The kernel of one hart never charges a process more ticks than it has   *)
(* lived: the waiting time waitx() returns, etime - ctime - rtime, is no   *)
(* negative number in an unsigned one.                                     *)
TimesAdd ==
  work.harts = 1 =>
    \A p \in Procs : proc[p].state # "UNUSED" =>
      proc[p].ctime + proc[p].rtime <= IF proc[p].state = "ZOMBIE" THEN proc[p].etime ELSE ticks

CallsOf(pids, made, c) == MapThenSumSet(LAMBDA pid : made[pid][c], pids)

(* getSysCount() counts every call once: those of the process and of the   *)
(* children it has waited for, theirs included, and of nobody who had the  *)
(* slot before; the children of waitx() are forgotten.                     *)
CountsExact ==
  \A p \in Procs : proc[p].state # "UNUSED" =>
    \A c \in Calls : proc[p].counts[c] = CallsOf(seen.heirs[p], seen.made, c)

(* A handler of an alarm is not interrupted by another alarm, and for each *)
(* process in its handler one page holds the context sigreturn() must go   *)
(* back to; no page stays allocated without (alarmtest.c:113).             *)
InHandler == {p \in Procs : seen.cut[p] # NoCall}
SavedExact ==
  /\ \A p \in InHandler : proc[p].savedtf # None /\ page[proc[p].savedtf] = seen.cut[p]
  /\ Cardinality({g \in Pages : page[g] # NoCall}) = Cardinality(InHandler)

(* alarmtest passes its four tests and syscount prints the number of calls *)
(* its command made.                                                       *)
TestsPass == seen.failed = {}
=============================================================================
