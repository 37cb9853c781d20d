-------------------------------- MODULE Mlfq --------------------------------
(***************************************************************************)
(* The multi-level feedback queue of initial-xv6/src/kernel/proc.c (the    *)
(* build SCHEDULER=MLFQ) with the part of the life of a process that moves *)
(* it between the queues: fork, exit, wait, sleep, kill and the wakeups.   *)
(*                                                                         *)
(* One hart, as the Makefile sets (CPUS := 1). A step is a stretch of code *)
(* with interrupts off, or a stretch of the scheduler between two points   *)
(* where an interrupt makes a difference. The scheduler picks and boosts   *)
(* without a lock and with interrupts on; a process is preempted wherever  *)
(* it holds no lock. What a program computes is left open: a running       *)
(* process may make any system call next.                                  *)
(*                                                                         *)
(* dequeue() reads the size of the queue once and stores that size minus   *)
(* one at the end (kernel.asm:3743-3799), whatever happened in between.    *)
(***************************************************************************)
EXTENDS Integers, FiniteSets

CONSTANTS
  NPROC,        \* slots of the process table
  NQUEUES,      \* queues, 0 the most urgent
  TimeSlices,   \* time_slices[]
  BoostPeriod,  \* ticks from one boost to the next: 48
  None          \* no process

Procs    == 1..NPROC
InitProc == 1              \* userinit() takes the first slot
Queues   == 0..(NQUEUES - 1)

ASSUME MlfqAssumption ==
  /\ NPROC \in Nat \ {0} /\ NQUEUES \in Nat \ {0} /\ BoostPeriod \in Nat \ {0}
  /\ TimeSlices \in [Queues -> Nat \ {0}]
  /\ None \notin Procs

VARIABLES
  state, priority, ticksUsed, parent, chan, killed,   \* of struct proc
  forking,    \* the child a process is creating in fork()
  queues,     \* mlfq[q] and queue_sizes[q]
  ticks,      \* modulo BoostPeriod
  handler,    \* the timer interrupt is being served
  sched,      \* where the scheduler stands
  cur,        \* its p: the process picked or running
  scan, size  \* of priority_boost(): its p, and the size dequeue() has read

procVars  == <<parent, chan, killed, forking>>
levels    == <<priority, ticksUsed>>
boostVars == <<scan, size>>
timeVars  == <<ticks, handler>>
vars == <<state, levels, procVars, queues, timeVars, sched, cur, boostVars>>

States == {"UNUSED", "USED", "SLEEPING", "RUNNABLE", "RUNNING", "ZOMBIE"}
Chans  == {"ticks", "child", "io"}

Init ==
  /\ state     = [p \in Procs |-> IF p = InitProc THEN "RUNNABLE" ELSE "UNUSED"]
  /\ priority  = [p \in Procs |-> 0]
  /\ ticksUsed = [p \in Procs |-> 0]
  /\ parent    = [p \in Procs |-> None]
  /\ chan      = [p \in Procs |-> None]
  /\ killed    = [p \in Procs |-> FALSE]
  /\ forking   = [p \in Procs |-> None]
  /\ queues    = [q \in Queues |->
                    [slot |-> [i \in Procs |-> IF q = 0 /\ i = 1 THEN InitProc ELSE None],
                     size |-> IF q = 0 THEN 1 ELSE 0]]
  /\ ticks = 0 /\ handler = FALSE
  /\ sched = "top" /\ cur = None
  /\ scan = 1 /\ size = 0

-----------------------------------------------------------------------------
(* A queue: NPROC slots of which the first size are in use.                *)

Present(r, p) == \E i \in Procs : r.slot[i] = p
\* Bug variant: it does not look.
EnqueuedAgain(r, p) ==
  [slot |-> [r.slot EXCEPT ![r.size + 1] = p], size |-> r.size + 1]

\* enqueue() looks for p in every slot, also beyond the size. A full queue without
\* p is a panic; NoOverflow says there is none.
Enqueued(r, p) ==
  IF Present(r, p) THEN r
  ELSE [slot |-> [r.slot EXCEPT ![r.size + 1] = p], size |-> r.size + 1]

Places(r, p, n) == {i \in Procs : i <= n /\ r.slot[i] = p}
\* Bug variant: the slots behind p are not shifted.
DequeuedInPlace(r, p, n) ==
  IF Places(r, p, n) = {} THEN r
  ELSE [slot |-> [j \in Procs |-> IF j \in Places(r, p, n) THEN None ELSE r.slot[j]],
        size |-> n - 1]

\* dequeue(), for the size n it has read.
Dequeued(r, p, n) ==
  IF Places(r, p, n) = {} THEN r
  ELSE LET at == CHOOSE i \in Places(r, p, n) : \A j \in Places(r, p, n) : i <= j
       IN [slot |-> [j \in Procs |-> IF j < at \/ j > n THEN r.slot[j]
                                     ELSE IF j = n THEN None ELSE r.slot[j + 1]],
           size |-> n - 1]

\* Bug variant: a process is made runnable without an enqueue().
ReadyOnly(qs, p) == qs
\* Wake p, in the queue of its priority.
Ready(qs, p) == [qs EXCEPT ![priority[p]] = Enqueued(@, p)]

Wake(p) ==
  /\ state' = [state EXCEPT ![p] = "RUNNABLE"]
  /\ queues' = Ready(queues, p)

FirstOf(S) == CHOOSE p \in S : \A r \in S : p <= r

SleepsOn(p, c) == state[p] = "SLEEPING" /\ chan[p] = c

-----------------------------------------------------------------------------
(* The scheduler.                                                          *)

At(label) == ~handler /\ sched = label

\* The top of the loop. It boosts when the clock shows a multiple of the period.
Top ==
  /\ At("top")
  /\ sched' = IF ticks = 0 THEN "boost" ELSE "select"
  /\ UNCHANGED <<state, levels, procVars, queues, timeVars, cur, boostVars>>

\* priority_boost() passes a process over ...
BoostSkip ==
  /\ At("boost")
  /\ priority[scan] = 0 \/ state[scan] # "RUNNABLE"
  /\ IF scan = NPROC THEN sched' = "select" /\ scan' = 1
                     ELSE scan' = scan + 1 /\ UNCHANGED sched
  /\ UNCHANGED <<state, levels, procVars, queues, timeVars, cur, size>>

\* ... or moves it to queue 0. Interrupts are on: dequeue() has read the size,
BoostDequeue ==
  /\ At("boost")
  /\ priority[scan] # 0 /\ state[scan] = "RUNNABLE"
  /\ size' = queues[priority[scan]].size
  /\ sched' = "shift"
  /\ UNCHANGED <<state, levels, procVars, queues, timeVars, cur, scan>>

\* shifts the slots behind p and stores the size,
BoostShift ==
  /\ At("shift")
  /\ queues' = [queues EXCEPT ![priority[scan]] = Dequeued(@, scan, size)]
  /\ sched' = "push" /\ size' = 0
  /\ UNCHANGED <<state, levels, procVars, timeVars, cur, scan>>

\* Bug variant: the process is not enqueued.
BoostPushNowhere ==
  /\ At("push")
  /\ priority' = [priority EXCEPT ![scan] = 0]
  /\ ticksUsed' = [ticksUsed EXCEPT ![scan] = 0]
  /\ sched' = "boost"
  /\ UNCHANGED <<state, procVars, queues, timeVars, cur, boostVars>>

\* and p starts afresh in queue 0.
BoostPush ==
  /\ At("push")
  /\ priority' = [priority EXCEPT ![scan] = 0]
  /\ ticksUsed' = [ticksUsed EXCEPT ![scan] = 0]
  /\ queues' = [queues EXCEPT ![0] = Enqueued(@, scan)]
  /\ sched' = "boost"
  /\ UNCHANGED <<state, procVars, timeVars, cur, boostVars>>

\* The head of the first queue that is not empty, if any.
Select ==
  /\ At("select")
  /\ LET busy == {q \in Queues : queues[q].size > 0}
     IN IF busy = {} THEN sched' = "top" /\ UNCHANGED cur
        ELSE LET highest == CHOOSE q \in busy : \A r \in busy : q <= r
             IN cur' = queues[highest].slot[1] /\ sched' = "acquire"
  /\ UNCHANGED <<state, levels, procVars, queues, timeVars, boostVars>>

\* Under p->lock: run it. It keeps its place in the queue.
Dispatch ==
  /\ At("acquire") /\ state[cur] = "RUNNABLE"
  /\ state' = [state EXCEPT ![cur] = "RUNNING"]
  /\ sched' = "running"
  /\ UNCHANGED <<levels, procVars, queues, timeVars, cur, boostVars>>

\* "this was not runnable has to be removed".
Discard ==
  /\ At("acquire") /\ state[cur] # "RUNNABLE"
  /\ queues' = [queues EXCEPT ![priority[cur]] = Dequeued(@, cur, @.size)]
  /\ ticksUsed' = [ticksUsed EXCEPT ![cur] = 0]
  /\ sched' = "top" /\ cur' = None
  /\ UNCHANGED <<state, priority, procVars, timeVars, boostVars>>

SliceOver(p) == ticksUsed[p] + 1 >= TimeSlices[priority[p]]

Lower(p) == IF priority[p] < NQUEUES - 1 THEN priority[p] + 1 ELSE priority[p]

\* p leaves the queue of its priority and, if it is in state RUNNABLE, joins queue q.
Requeued(qs, p, q, s) ==
  LET out == [qs EXCEPT ![priority[p]] = Dequeued(@, p, @.size)]
  IN IF s = "RUNNABLE" THEN [out EXCEPT ![q] = Enqueued(@, p)] ELSE out

\* swtch() from p back to the scheduler, p->lock held throughout. ss and qs are the
\* states and the queues p leaves behind. At the end of its slice p goes down a queue.
SwitchBack(p, ss, qs) ==
  /\ state' = ss
  /\ IF SliceOver(p)
     THEN /\ priority' = [priority EXCEPT ![p] = Lower(p)]
          /\ ticksUsed' = [ticksUsed EXCEPT ![p] = 0]
          /\ queues' = Requeued(qs, p, Lower(p), ss[p])
     ELSE /\ ticksUsed' = [ticksUsed EXCEPT ![p] = @ + 1]
          /\ queues' = qs
          /\ UNCHANGED priority
  /\ sched' = "top" /\ cur' = None

Scheduler == Top \/ BoostSkip \/ BoostDequeue \/ BoostShift \/ BoostPush
             \/ Select \/ Dispatch \/ Discard

-----------------------------------------------------------------------------
(* Interrupts. They come at any point of the scheduler above and of a      *)
(* running process, and are served with interrupts off.                    *)

\* clockintr(): a tick, ...
Tick ==
  /\ ~handler
  /\ ticks' = (ticks + 1) % BoostPeriod
  /\ handler' = TRUE
  /\ UNCHANGED <<state, levels, procVars, queues, sched, cur, boostVars>>

\* ... wakeup(&ticks), slot by slot, ...
TickSleepers == {p \in Procs : SleepsOn(p, "ticks")}

TickWake ==
  /\ handler /\ TickSleepers # {}
  /\ Wake(FirstOf(TickSleepers))
  /\ UNCHANGED <<levels, procVars, timeVars, sched, cur, boostVars>>

\* ... and yield() if a process was running, unless it was killed and usertrap() goes
\* on to exit().
TickReturn ==
  /\ handler /\ TickSleepers = {}
  /\ handler' = FALSE
  /\ \/ /\ sched = "running"
        /\ SwitchBack(cur, [state EXCEPT ![cur] = "RUNNABLE"], queues)
     \/ /\ sched = "running" => killed[cur]
        /\ UNCHANGED <<state, levels, queues, sched, cur>>
  /\ UNCHANGED <<procVars, ticks, boostVars>>

\* A disk or console interrupt, or the running process, wakes a process that waits
\* for a buffer, a lock, a pipe or input.
IoWake(p) ==
  /\ ~handler /\ SleepsOn(p, "io")
  /\ Wake(p)
  /\ UNCHANGED <<levels, procVars, timeVars, sched, cur, boostVars>>
-----------------------------------------------------------------------------
(* The running process.                                                    *)

\* It is not in the middle of fork(), and not in the loop around a sleep() unless
\* that sleeps on c.
Runs(p, c) ==
  /\ At("running") /\ cur = p /\ forking[p] = None
  /\ chan[p] \in {None, c}

Unused   == {p \in Procs : state[p] = "UNUSED"}

\* fork(): allocproc() takes the first unused slot. It resets the priority but does
\* not look whether a queue still holds the slot.
ForkAlloc(p) ==
  /\ Runs(p, None) /\ Unused # {}
  /\ LET np == FirstOf(Unused)
     IN /\ state' = [state EXCEPT ![np] = "USED"]
        /\ priority' = [priority EXCEPT ![np] = 0]
        /\ ticksUsed' = [ticksUsed EXCEPT ![np] = 0]
        /\ forking' = [forking EXCEPT ![p] = np]
  /\ UNCHANGED <<parent, chan, killed, queues, timeVars, sched, cur, boostVars>>

\* No memory: the slot is freed again, before or after the priority was reset.
ForkFail(p) ==
  /\ Runs(p, None) /\ Unused # {}
  /\ LET np == FirstOf(Unused)
     IN /\ killed' = [killed EXCEPT ![np] = FALSE]
        /\ \/ /\ priority' = [priority EXCEPT ![np] = 0]
              /\ ticksUsed' = [ticksUsed EXCEPT ![np] = 0]
           \/ UNCHANGED levels
  /\ UNCHANGED <<state, parent, chan, forking, queues, timeVars, sched, cur, boostVars>>

\* Nobody but the parent reads np->parent before the child runs, so the section under
\* wait_lock and the one under np->lock are one step.
ForkReady(p) ==
  /\ At("running") /\ cur = p /\ forking[p] # None
  /\ parent' = [parent EXCEPT ![forking[p]] = p]
  /\ Wake(forking[p])
  /\ forking' = [forking EXCEPT ![p] = None]
  /\ UNCHANGED <<levels, chan, killed, timeVars, sched, cur, boostVars>>

\* sleep() in the loop of sys_sleep(), which gives up when killed, or anywhere else.
Sleep(p, c) ==
  /\ Runs(p, c) /\ c \in {"ticks", "io"}
  /\ c = "ticks" => ~killed[p]
  /\ chan' = [chan EXCEPT ![p] = c]
  /\ SwitchBack(p, [state EXCEPT ![p] = "SLEEPING"], queues)
  /\ UNCHANGED <<parent, killed, forking, timeVars, boostVars>>

\* The loop around a sleep ends.
Resume(p) ==
  /\ At("running") /\ cur = p /\ chan[p] \in {"ticks", "io"}
  /\ chan' = [chan EXCEPT ![p] = None]
  /\ UNCHANGED <<state, levels, parent, killed, forking, queues, timeVars, sched, cur, boostVars>>

Children(p) == {c \in Procs : parent[c] = p}
Zombies(p)  == {c \in Children(p) : state[c] = "ZOMBIE"}

\* reparent() wakes init if it sleeps in wait() and p leaves children.
ReparentWakes(p) == Children(p) # {} /\ SleepsOn(InitProc, "child")

\* Bug variant: the parent is not woken.
ParentWaitsNever(p) == FALSE
ParentWaits(p) == SleepsOn(parent[p], "child")

\* exit() from acquire(&wait_lock) on: the children go to init, the parent is woken,
\* and p is a zombie. /init never exits.
Exit(p) ==
  /\ Runs(p, None) /\ p # InitProc
  /\ LET adopt  == ReparentWakes(p)
         tell   == ParentWaits(p) /\ ~(adopt /\ parent[p] = InitProc)
         woken  == {r \in Procs : (r = InitProc /\ adopt) \/ (r = parent[p] /\ tell)}
         first  == IF adopt THEN Ready(queues, InitProc) ELSE queues
         second == IF tell THEN Ready(first, parent[p]) ELSE first
     IN SwitchBack(p, [r \in Procs |-> IF r = p THEN "ZOMBIE"
                                       ELSE IF r \in woken THEN "RUNNABLE" ELSE state[r]], second)
  /\ parent' = [c \in Procs |-> IF parent[c] = p THEN InitProc ELSE parent[c]]
  /\ UNCHANGED <<chan, killed, forking, timeVars, boostVars>>

\* wait() and waitx(): the first zombie child is freed. Its slot keeps its priority
\* and its place in a queue.
WaitReap(p) ==
  /\ Runs(p, "child") /\ Zombies(p) # {}
  /\ LET c == FirstOf(Zombies(p))
     IN /\ state' = [state EXCEPT ![c] = "UNUSED"]
        /\ parent' = [parent EXCEPT ![c] = None]
        /\ chan' = [chan EXCEPT ![c] = None, ![p] = None]
        /\ killed' = [killed EXCEPT ![c] = FALSE]
  /\ UNCHANGED <<levels, forking, queues, timeVars, sched, cur, boostVars>>

WaitSleep(p) ==
  /\ Runs(p, "child") /\ Zombies(p) = {}
  /\ Children(p) # {} /\ ~killed[p]
  /\ chan' = [chan EXCEPT ![p] = "child"]
  /\ SwitchBack(p, [state EXCEPT ![p] = "SLEEPING"], queues)
  /\ UNCHANGED <<parent, killed, forking, timeVars, boostVars>>

\* No children, or killed: -1.
WaitFail(p) ==
  /\ Runs(p, "child") /\ chan[p] = "child" /\ Zombies(p) = {}
  /\ Children(p) = {} \/ killed[p]
  /\ chan' = [chan EXCEPT ![p] = None]
  /\ UNCHANGED <<state, levels, parent, killed, forking, queues, timeVars, sched, cur, boostVars>>

\* kill(): an unused slot has pid 0, so kill(0) finds the first one.
Kill(p, victim) ==
  /\ Runs(p, None)
  /\ state[victim] = "UNUSED" => victim = FirstOf(Unused)
  /\ killed' = [killed EXCEPT ![victim] = TRUE]
  /\ IF state[victim] = "SLEEPING" THEN Wake(victim) ELSE UNCHANGED <<state, queues>>
  /\ UNCHANGED <<levels, parent, chan, forking, timeVars, sched, cur, boostVars>>

Process(p) ==
  \/ ForkAlloc(p) \/ ForkFail(p) \/ ForkReady(p)
  \/ \E c \in Chans : Sleep(p, c)
  \/ Resume(p) \/ Exit(p) \/ WaitReap(p) \/ WaitSleep(p) \/ WaitFail(p)
  \/ \E victim \in Procs : Kill(p, victim)

Next ==
  \/ Scheduler
  \/ Tick \/ TickWake \/ TickReturn
  \/ \E p \in Procs : IoWake(p) \/ Process(p)

Spec == Init /\ [][Next]_vars

\* The clock ticks, its handler ends, and an interrupt returns to what it interrupted.
Fairness == WF_vars(Tick) /\ WF_vars(TickWake) /\ WF_vars(TickReturn) /\ SF_vars(Scheduler)
FairSpec == Spec /\ Fairness

-----------------------------------------------------------------------------
(* Properties.                                                             *)

TypeOK ==
  /\ state \in [Procs -> States]
  /\ priority \in [Procs -> Queues]
  /\ ticksUsed \in [Procs -> Nat]
  /\ parent \in [Procs -> Procs \cup {None}]
  /\ chan \in [Procs -> Chans \cup {None}]
  /\ killed \in [Procs -> BOOLEAN]
  /\ forking \in [Procs -> Procs \cup {None}]
  /\ queues \in [Queues -> [slot : [Procs -> Procs \cup {None}], size : 0..NPROC]]
  /\ ticks \in 0..(BoostPeriod - 1) /\ handler \in BOOLEAN
  /\ sched \in {"top", "boost", "shift", "push", "select", "acquire", "running"}
  /\ cur \in Procs \cup {None}
  /\ scan \in Procs /\ size \in 0..NPROC

\* The slots in use hold processes, no one twice: the scheduler never takes a null
\* head, although an interrupt may enqueue in the middle of priority_boost()'s dequeue().
QueuesSound == \A q \in Queues : \A i, j \in 1..queues[q].size :
  /\ queues[q].slot[i] \in Procs
  /\ queues[q].slot[i] = queues[q].slot[j] => i = j

\* panic("Queue overflow") is out of reach, although queues keep the slots of dead and
\* sleeping processes and a slot may be in several queues.
NoOverflow == \A q \in Queues, p \in Procs :
  queues[q].size < NPROC \/ Present(queues[q], p)

Queued(p) == \E i \in 1..queues[priority[p]].size : queues[priority[p]].slot[i] = p

\* enqueue() and dequeue() may lose a runnable process to an interrupt, but never from
\* queue 0: whoever is lost is found by the next boost.
LostBelowTop == \A p \in Procs : state[p] = "RUNNABLE" /\ ~Queued(p) => priority[p] # 0

\* No process has used up its slice and stays where it is, through sleeps, boosts,
\* discards and the reuse of slots.
SliceKept == \A p \in Procs : ticksUsed[p] < TimeSlices[priority[p]]

\* "Parent might be sleeping in wait()" (proc.c:459): nobody sleeps in wait() while a
\* child of his, his own or inherited, is a zombie.
ZombieHeard == \A p \in Procs : SleepsOn(p, "child") => Zombies(p) = {}

\* As long as boosts are taken again and again, every runnable process gets the hart.
NoStarvation == []<>(sched = "boost") =>
  \A p \in Procs : (state[p] = "RUNNABLE") ~> (state[p] = "RUNNING")

=============================================================================
