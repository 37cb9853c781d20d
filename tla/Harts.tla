------------------------------- MODULE Harts -------------------------------
(* Harts, spinlocks, sleep and wakeup, the round-robin scheduler and traps  *)
(* of the xv6 kernel (spinlock.c, proc.c, trap.c), as the drivers see them. *)
(*                                                                          *)
(* A context is a process or, while no process runs on a hart, the hart's   *)
(* scheduler.  Its kernel stack is a sequence of frames, the running one    *)
(* first; a trap pushes its handler onto the stack of whoever it meets.     *)
(*                                                                          *)
(* The locks in Locks are those that interrupt handlers take as well; they  *)
(* are taken and given back in steps of their own.  A section under another *)
(* spinlock (p->lock, bcache.lock, the one inside a sleep lock) is one      *)
(* step: it waits for nothing and no handler needs its lock.  A step ends   *)
(* where a lock is to be taken, and what a hart does after giving a lock    *)
(* back and before anybody else can see it belongs to the step.             *)
EXTENDS Naturals, Sequences

CONSTANTS
  Procs, Harts,
  Hart0,        \* the hart that counts the ticks
  Locks,        \* the spinlocks that handlers take as well
  None          \* nobody, no channel, no process

ASSUME HartsAssumption ==
  /\ Hart0 \in Harts /\ None \notin Procs \cup Harts
  /\ Procs \cap Harts = {}

VARIABLES
  hart,    \* of a hart: the process it runs, noff, intena, and whether it takes interrupts
  lock,    \* of a lock: the hart that holds it
  proc,    \* of a process: its state, the channel it sleeps on, whether it is killed
  stack,   \* of a context: its frames
  ticks,   \* the clock, and the timer interrupts a hart may still take
  panic    \* what the kernel stopped with

----------------------------------------------------------------------------
Cur(h) == IF hart[h].proc = None THEN h ELSE hart[h].proc
Runs(h) == panic = "" /\ stack[Cur(h)] # <<>>
At(h, label) == Runs(h) /\ Head(stack[Cur(h)]).at = label
Frame(h) == Head(stack[Cur(h)])
Plain(label) == [at |-> label]

(* The running frame is done, and the frames in fs are to be done next. *)
Goto(h, fs) == stack' = [stack EXCEPT ![Cur(h)] = fs \o Tail(@)]

Panic(what) == panic' = what /\ UNCHANGED <<hart, lock, proc, stack, ticks>>

PushOff(c) ==
  [c EXCEPT !.intr = FALSE, !.noff = @ + 1,
            !.intena = IF c.noff = 0 THEN c.intr ELSE @]

PopOff(c) ==
  [c EXCEPT !.noff = @ - 1, !.intr = c.noff = 1 /\ c.intena]

(* acquire(): whoever finds the lock taken spins with interrupts off. *)
Acquire(h, lk, fs) ==
  \/ lock[lk] = h /\ Panic("acquire")
  \/ /\ lock[lk] # h
     /\ hart' = [hart EXCEPT ![h] = PushOff(@)]
     /\ \/ lock[lk] = None /\ lock' = [lock EXCEPT ![lk] = h] /\ Goto(h, fs)
        \/ /\ lock[lk] # None /\ UNCHANGED lock
           /\ Goto(h, <<[at |-> "spin", lk |-> lk]>> \o fs)
     /\ UNCHANGED <<proc, ticks, panic>>

Spin(h) ==
  /\ At(h, "spin") /\ lock[Frame(h).lk] = None
  /\ lock' = [lock EXCEPT ![Frame(h).lk] = h]
  /\ Goto(h, <<>>)
  /\ UNCHANGED <<hart, proc, ticks, panic>>

(* release(), after which the frames in fs go on. *)
Release(h, lk, fs) ==
  /\ hart' = [hart EXCEPT ![h] = PopOff(@)]
  /\ lock' = [lock EXCEPT ![lk] = None]
  /\ Goto(h, fs)

(* wakeup(chan): everybody who sleeps there; the caller does not sleep.  Its *)
(* enqueue() fills the queues of Mlfq, which this scheduler never reads.     *)
Woken(ps, chan) ==
  [p \in Procs |->
     IF ps[p].state = "SLEEPING" /\ ps[p].chan = chan
     THEN [ps[p] EXCEPT !.state = "RUNNABLE", !.chan = None] ELSE ps[p]]

----------------------------------------------------------------------------
(* sched(): the process leaves its hart to the scheduler.  intena belongs   *)
(* to the process's thread, and is put back when it runs again.             *)
Resume(c) == [at |-> "resume", intena |-> c.intena]

(* What the scheduler's release(&p->lock) leaves of the hart. *)
LeftTo(c, noff) == [PopOff([c EXCEPT !.noff = noff]) EXCEPT !.proc = None]

(* sleep(chan, lk) by the process that holds lk and does fs when it has lk  *)
(* again; ps is what the table of processes is otherwise to be.             *)
Sleep(h, chan, lk, ps, fs) ==
  \/ hart[h].noff # 1 /\ Panic("sched locks")
  \/ /\ hart[h].noff = 1
     /\ lock' = [lock EXCEPT ![lk] = None]
     /\ proc' = [ps EXCEPT ![hart[h].proc].state = "SLEEPING", ![hart[h].proc].chan = chan]
     /\ Goto(h, <<Resume(hart[h]), [at |-> "reacquire", lk |-> lk]>> \o fs)
     /\ hart' = [hart EXCEPT ![h] = LeftTo(@, 1)]
     /\ UNCHANGED <<ticks, panic>>

(* The same where lk is the spinlock of a sleep lock. *)
SleepInside(h, chan, fs) ==
  \/ hart[h].noff # 0 /\ Panic("sched locks")
  \/ /\ hart[h].noff = 0
     /\ proc' = [proc EXCEPT ![hart[h].proc].state = "SLEEPING", ![hart[h].proc].chan = chan]
     /\ \E c \in {PushOff(hart[h])} :
          /\ Goto(h, <<Resume(c)>> \o fs)
          /\ hart' = [hart EXCEPT ![h] = LeftTo(c, 1)]
     /\ UNCHANGED <<lock, ticks, panic>>

Reacquire(h) == At(h, "reacquire") /\ Acquire(h, Frame(h).lk, <<>>)

(* scheduler(), the top of the loop. *)
LoopTop(h) ==
  /\ panic = "" /\ hart[h].proc = None /\ stack[h] = <<>> /\ ~hart[h].intr
  /\ hart' = [hart EXCEPT ![h].intr = TRUE]
  /\ UNCHANGED <<lock, proc, stack, ticks, panic>>

(* Mutant: intena stays the scheduler's. *)
PickForgets(h, p) ==
  /\ panic = "" /\ hart[h].proc = None /\ stack[h] = <<>>
  /\ proc[p].state = "RUNNABLE"
  /\ proc' = [proc EXCEPT ![p].state = "RUNNING"]
  /\ hart' = [hart EXCEPT ![h] = PopOff([PushOff(@) EXCEPT !.proc = p])]
  /\ stack' = [stack EXCEPT ![p] = Tail(@)]
  /\ UNCHANGED <<lock, ticks, panic>>

(* scheduler(), a turn of the loop: the loop comes by every slot, so any    *)
(* RUNNABLE process may be the next it meets.                               *)
Pick(h, p) ==
  /\ panic = "" /\ hart[h].proc = None /\ stack[h] = <<>>
  /\ proc[p].state = "RUNNABLE"
  /\ proc' = [proc EXCEPT ![p].state = "RUNNING"]
  /\ \E c \in {PushOff(hart[h])} :
       hart' = [hart EXCEPT ![h] = PopOff([c EXCEPT !.proc = p, !.intena = Head(stack[p]).intena])]
  /\ stack' = [stack EXCEPT ![p] = Tail(@)]
  /\ UNCHANGED <<lock, ticks, panic>>

----------------------------------------------------------------------------
(* A hart that takes interrupts is interrupted: kernelvec or uservec, and   *)
(* the handler begins by taking the lock lk.                                *)
Trap(h, lk, fs) ==
  /\ panic = "" /\ hart[h].intr
  /\ hart' = [hart EXCEPT ![h] = PushOff([@ EXCEPT !.intr = FALSE])]
  /\ \/ /\ lock[lk] = None /\ lock' = [lock EXCEPT ![lk] = h]
        /\ stack' = [stack EXCEPT ![Cur(h)] = fs \o @]
     \/ /\ lock[lk] # None /\ UNCHANGED lock
        /\ stack' = [stack EXCEPT ![Cur(h)] = <<[at |-> "spin", lk |-> lk]>> \o fs \o @]

(* The handler gives its lock back and returns (sret), which turns          *)
(* interrupts on again.                                                     *)
TrapReturn(h, lk) ==
  /\ hart' = [hart EXCEPT ![h] = [PopOff(@) EXCEPT !.intr = TRUE]]
  /\ lock' = [lock EXCEPT ![lk] = None]
  /\ Goto(h, <<>>)

(* A timer interrupt.  Only the first hart counts it, the others go to the  *)
(* yield() of kerneltrap() and usertrap() at once.                          *)
Due(h) ==
  \/ ticks.left[h] > 0
  \/ h = Hart0 /\ \E p \in Procs : proc[p].chan = <<"ticks">>
Spent(h) == [ticks EXCEPT !.left[h] = IF @ = 0 THEN 0 ELSE @ - 1]

Tick(h) ==
  /\ h = Hart0 /\ Due(h) /\ Trap(h, "ticks", <<Plain("clockintr")>>)
  /\ ticks' = Spent(h) /\ UNCHANGED <<proc, panic>>

(* yield() in a trap: p->lock is taken with interrupts off, and they are on *)
(* again when the process has returned from the trap.                       *)
Yielded(c) == [LeftTo([c EXCEPT !.intena = FALSE], 1) EXCEPT !.intr = FALSE]

Preempt(h) ==
  /\ panic = "" /\ h # Hart0 /\ Due(h) /\ hart[h].intr /\ hart[h].proc # None
  /\ ticks' = Spent(h)
  /\ proc' = [proc EXCEPT ![hart[h].proc].state = "RUNNABLE"]
  /\ stack' = [stack EXCEPT ![hart[h].proc] = <<[at |-> "resume", intena |-> FALSE], Plain("trapret")>> \o @]
  /\ hart' = [hart EXCEPT ![h] = Yielded(@)]
  /\ UNCHANGED <<lock, panic>>

ClockIntr(h) ==
  /\ At(h, "clockintr")
  /\ ticks' = [ticks EXCEPT !.now = @ + 1]
  /\ \/ /\ hart[h].proc = None /\ proc' = Woken(proc, <<"ticks">>)
        /\ TrapReturn(h, "ticks")
     \/ /\ hart[h].proc # None
        /\ proc' = [Woken(proc, <<"ticks">>) EXCEPT ![hart[h].proc].state = "RUNNABLE"]
        /\ lock' = [lock EXCEPT !["ticks"] = None]
        /\ Goto(h, <<[at |-> "resume", intena |-> FALSE], Plain("trapret")>>)
        /\ hart' = [hart EXCEPT ![h] = Yielded(PopOff(@))]
  /\ UNCHANGED panic

(* The rest of the trap of a process that yielded. *)
TrapDone(h) ==
  /\ At(h, "trapret")
  /\ hart' = [hart EXCEPT ![h].intr = TRUE]
  /\ Goto(h, <<>>)
  /\ UNCHANGED <<lock, proc, ticks, panic>>

(* sys_sleep(n): the frame has how many ticks are left to wait and since when. *)
SysSleep(h) ==
  /\ At(h, "sleep")
  /\ \E f \in {[Frame(h) EXCEPT !.since = IF @ = None THEN ticks.now ELSE @]} :
       \/ /\ ticks.now - f.since < f.n /\ ~proc[hart[h].proc].killed
          /\ Sleep(h, <<"ticks">>, "ticks", proc, <<f>>)
       \/ /\ ticks.now - f.since >= f.n \/ proc[hart[h].proc].killed
          /\ Release(h, "ticks", <<>>) /\ UNCHANGED <<proc, ticks, panic>>

(* main() has set up the harts in online and started every process.         *)
(* Bound: the timer interrupts of a hart that nobody waits for.             *)
HartsInit(online, preemptions) ==
  /\ hart = [h \in Harts |-> [proc |-> None, noff |-> 0, intena |-> FALSE, intr |-> h \in online]]
  /\ lock = [lk \in Locks |-> None]
  /\ proc = [p \in Procs |-> [state |-> "RUNNABLE", chan |-> None, killed |-> FALSE]]
  /\ stack = [c \in Procs \cup Harts |-> CASE c \in Procs -> <<[at |-> "resume", intena |-> TRUE]>>
                                             [] c \in online -> <<>>
                                             [] OTHER -> <<Plain("off")>>]
  /\ ticks = [now |-> 0, left |-> [h \in Harts |-> preemptions]]
  /\ panic = ""

(* The steps that touch no device. *)
HartStep(h) ==
  \/ Spin(h) \/ Reacquire(h) \/ LoopTop(h)
  \/ Tick(h) \/ Preempt(h) \/ ClockIntr(h) \/ TrapDone(h) \/ SysSleep(h)
  \/ \E p \in Procs : Pick(h, p)
=============================================================================
