--------------------------- MODULE Lottery_proofs ---------------------------
(* Proofs about Lottery, for any number of harts, slots and interrupts and  *)
(* any series of its programs: the scheduler runs no process on two harts,  *)
(* on one hart the times add up, getSysCount() counts every call once, and  *)
(* the handler of an alarm goes back to what it interrupted.                *)
EXTENDS Lottery, FiniteSetTheorems, WellFoundedInduction, TLAPS

TypeOK ==
  /\ 1 \in Harts
  /\ DOMAIN proc = Procs
  /\ \A p \in Procs : {"state", "ctime", "rtime", "etime"} \subseteq DOMAIN proc[p]
  /\ DOMAIN kern = Procs
  /\ DOMAIN hart = Harts
  /\ \A h \in Harts : {"at", "proc"} \subseteq DOMAIN hart[h] /\ hart[h].proc \in Procs \cup {None}

\* A hart in a scan runs nobody.
ScanOK == \A h \in Harts : hart[h].at # "run" => hart[h].proc = None

\* The child of a fork() that is not over is USED, and no other call's.
Forking(p) == kern[p].call = "forking"
ForkOK ==
  /\ \A p \in Procs : Forking(p) => kern[p].child \in Procs /\ proc[kern[p].child].state = "USED"
  /\ \A p, q \in Procs : Forking(p) /\ Forking(q) /\ kern[p].child = kern[q].child => p = q

IInv == TypeOK /\ ScanOK /\ ForkOK /\ OneHart

-----------------------------------------------------------------------------
LEMMA LeastNat == ASSUME NEW B, B \subseteq Nat, B # {} PROVE \E n \in B : \A k \in B : n <= k
<1> DEFINE R == OpToRel(<, Nat)
<1>1. \A x, y \in Nat : <<y, x>> \in R <=> y < x
  BY DEF OpToRel
<1>2. IsWellFoundedOn(R, Nat)
  BY NatLessThanWellFounded
<1> HIDE DEF R
<1>3. PICK x \in B : \A y \in B : ~(<<y, x>> \in R)
  BY <1>2, WFMin
<1>4. ASSUME NEW y \in B PROVE x <= y
  <2>1. x \in Nat /\ y \in Nat
    OBVIOUS
  <2>2. ~(y < x)
    BY <1>1, <1>3, <2>1
  <2> QED  BY <2>1, <2>2
<1> QED  BY <1>4

LEMMA MinFact == ASSUME NEW S, S \subseteq Procs, S # {} PROVE Min(S) \in S
<1>1. S \subseteq Nat
  BY ProcAssumption DEF Procs
<1> QED  BY <1>1, LeastNat DEF Min

\* What a step may do to the states of processes, the harts aside.
Typed(procs) ==
  DOMAIN procs = Procs /\ \A p \in Procs : {"state", "ctime", "rtime", "etime"} \subseteq DOMAIN procs[p]
Quiet(procs) ==
  \A p \in Procs : /\ procs[p].state = "RUNNING" <=> proc[p].state = "RUNNING"
                   /\ proc[p].state = "USED" => procs[p].state = "USED"

LEMMA WokenFact ==
  ASSUME NEW procs, NEW chan, Typed(procs)
  PROVE  /\ Typed(Woken(procs, chan))
         /\ \A p \in Procs : \/ Woken(procs, chan)[p].state = procs[p].state
                             \/ procs[p].state = "SLEEPING" /\ Woken(procs, chan)[p].state = "RUNNABLE"
BY DEF Woken, Typed

-----------------------------------------------------------------------------
(* The kinds of steps.                                                     *)

LEMMA ForkKept ==
  ASSUME IInv, DOMAIN kern' = Procs,
         \A p \in Procs : Forking(p)' => kern'[p] = kern[p],
         \A p \in Procs : proc[p].state = "USED" =>
           proc'[p].state = "USED" \/ \A q \in Procs : Forking(q)' => kern[q].child # p
  PROVE  ForkOK'
<1>1. \A p \in Procs : Forking(p)' => Forking(p) /\ kern'[p].child = kern[p].child
  BY DEF Forking
<1>2. ForkOK
  BY DEF IInv
<1>3. ASSUME NEW p \in Procs, Forking(p)' PROVE kern'[p].child \in Procs /\ proc'[kern'[p].child].state = "USED"
  <2>1. PICK q \in Procs : q = kern[p].child /\ proc[q].state = "USED"
    BY <1>1, <1>2, <1>3 DEF ForkOK
  <2>2. proc'[q].state = "USED"
    BY <1>3, <2>1
  <2> QED  BY <1>1, <1>3, <2>1, <2>2
<1>4. \A p, q \in Procs : Forking(p)' /\ Forking(q)' /\ kern'[p].child = kern'[q].child => p = q
  BY <1>1, <1>2 DEF ForkOK
<1> QED  BY <1>3, <1>4 DEF ForkOK, Procs

\* The process stays on its hart.
LEMMA StayStep ==
  ASSUME IInv, ForkOK', work' = work, DOMAIN kern' = Procs, DOMAIN hart' = Harts, Typed(proc'),
         \A p \in Procs : proc'[p].state = "RUNNING" <=> proc[p].state = "RUNNING",
         \A h \in Harts : /\ {"at", "proc"} \subseteq DOMAIN hart'[h] /\ hart'[h].proc = hart[h].proc
                          /\ hart'[h].at # "run" => hart[h].at # "run"
  PROVE  IInv'
<1>1. Harts' = Harts
  BY DEF Harts
<1>2. TypeOK' /\ ScanOK'
  BY <1>1 DEF IInv, TypeOK, ScanOK, Typed
<1>3. OneHart'
  BY <1>1 DEF IInv, OneHart
<1> QED  BY <1>2, <1>3 DEF IInv

\* It leaves it.
LEMMA LeaveStep ==
  ASSUME IInv, ForkOK', work' = work, DOMAIN kern' = Procs, Typed(proc'),
         NEW h \in Harts, NEW p \in Procs, hart[h].proc = p, GivesUp(h),
         proc'[p].state # "RUNNING",
         \A q \in Procs \ {p} : proc'[q].state = "RUNNING" <=> proc[q].state = "RUNNING"
  PROVE  IInv'
<1>1. Harts' = Harts
  BY DEF Harts
<1>2. /\ DOMAIN hart' = Harts /\ \A g \in Harts \ {h} : hart'[g] = hart[g]
      /\ hart'[h].at = "total" /\ hart'[h].proc = None /\ {"at", "proc"} \subseteq DOMAIN hart'[h]
  BY DEF GivesUp, Scheduling, IInv, TypeOK
<1>3. TypeOK' /\ ScanOK'
  <2>1. TypeOK'
    BY <1>1, <1>2 DEF IInv, TypeOK, Typed
  <2>2. ScanOK'
    BY <1>1, <1>2 DEF IInv, ScanOK
  <2> QED  BY <2>1, <2>2
<1>4. p # None /\ \A g \in Harts \ {h} : hart[g].proc # p
  <2>1. p # None
    BY ProcAssumption DEF Procs, None
  <2> QED  BY <2>1 DEF IInv, OneHart
<1>5. ASSUME NEW q \in Procs PROVE proc'[q].state = "RUNNING" <=> \E g \in Harts : hart'[g].proc = q
  <2>1. q # None
    BY ProcAssumption DEF Procs, None
  <2>2. CASE q = p
    BY <1>2, <1>4, <2>1, <2>2
  <2>3. CASE q # p
    <3>1. (\E g \in Harts : hart'[g].proc = q) <=> \E g \in Harts : hart[g].proc = q
      BY <1>2, <2>1, <2>3
    <3> QED  BY <2>3, <3>1 DEF IInv, OneHart
  <2> QED  BY <2>2, <2>3
<1>6. \A f, g \in Harts : f # g /\ hart'[f].proc = hart'[g].proc => hart'[f].proc = None
  BY <1>2 DEF IInv, OneHart
<1>7. OneHart'
  BY <1>1, <1>5, <1>6 DEF OneHart
<1> QED  BY <1>3, <1>7 DEF IInv

LEMMA QuietStep ==
  ASSUME IInv, work' = work, hart' = hart, Typed(proc'), Quiet(proc'), DOMAIN kern' = Procs,
         \A p \in Procs : Forking(p)' => kern'[p] = kern[p]
  PROVE  IInv'
<1>1. ForkOK'
  BY ForkKept DEF Quiet
<1>2. \A h \in Harts : {"at", "proc"} \subseteq DOMAIN hart'[h] /\ hart'[h] = hart[h]
  BY DEF IInv, TypeOK
<1>3. DOMAIN hart' = Harts
  BY DEF IInv, TypeOK
<1> QED  BY <1>1, <1>2, <1>3, StayStep DEF Quiet

LEMMA Now == ASSUME IInv PROVE Typed(proc) /\ DOMAIN kern = Procs /\ Procs \subseteq Nat \ {None}
BY ProcAssumption DEF IInv, TypeOK, Typed, Procs, None

-----------------------------------------------------------------------------
(* The scheduler.                                                          *)

\* The lottery's scan reads the states without locks, and changes none.
LEMMA ScanKeeps ==
  ASSUME IInv, work' = work, proc' = proc, kern' = kern, NEW h \in Harts, hart[h].at # "run",
         DOMAIN hart' = Harts, \A g \in Harts \ {h} : hart'[g] = hart[g],
         {"at", "proc"} \subseteq DOMAIN hart'[h], hart'[h].proc = None
  PROVE  IInv'
<1>1. hart[h].proc = None
  BY DEF IInv, ScanOK
<1>2. ForkOK'
  BY Now, ForkKept
<1> QED  BY <1>1, <1>2, Now, StayStep DEF IInv, TypeOK

LEMMA TotalKeeps == ASSUME IInv, NEW h \in Harts, Total(h) PROVE IInv'
<1>1. /\ hart' = [hart EXCEPT ![h].at = "draw", ![h].total = Tickets(Ready)] /\ hart[h].at = "total"
      /\ work' = work /\ proc' = proc /\ kern' = kern
  BY DEF Total
<1>2. hart[h].proc = None /\ DOMAIN hart = Harts /\ {"at", "proc"} \subseteq DOMAIN hart[h]
  BY <1>1 DEF IInv, TypeOK, ScanOK
<1>3. DOMAIN hart' = Harts /\ (\A g \in Harts \ {h} : hart'[g] = hart[g])
      /\ {"at", "proc"} \subseteq DOMAIN hart'[h] /\ hart'[h].proc = None
  BY <1>1, <1>2
<1> QED  BY <1>1, <1>3, ScanKeeps

LEMMA StopsFact ==
  ASSUME IInv, NEW h \in Harts, NEW S, Stops(h, S)
  PROVE  /\ DOMAIN hart' = Harts /\ \A g \in Harts \ {h} : hart'[g] = hart[g]
         /\ {"at", "proc"} \subseteq DOMAIN hart'[h] /\ hart'[h].proc = None
<1>1. DOMAIN hart = Harts
  BY DEF IInv, TypeOK
<1>2. CASE S = {}
  <2>1. hart' = [hart EXCEPT ![h] = Scheduling]
    BY <1>2 DEF Stops
  <2> QED  BY <1>1, <2>1 DEF Scheduling
<1>3. CASE S # {}
  <2>1. hart' = [hart EXCEPT ![h] = [Scheduling EXCEPT !.at = "take", !.p = Min(S), !.earliest = Earliest(Min(S))]]
    BY <1>3 DEF Stops
  <2> QED  BY <1>1, <2>1 DEF Scheduling
<1> QED  BY <1>2, <1>3

LEMMA DrawKeeps == ASSUME IInv, NEW h \in Harts, Draw(h) PROVE IInv'
<1>1. work' = work /\ proc' = proc /\ kern' = kern /\ hart[h].at = "draw"
  BY DEF Draw
<1>2. \E S : Stops(h, S)
  BY DEF Draw
<1> QED  BY <1>1, <1>2, StopsFact, ScanKeeps

\* The state is looked at again under the lock: who is RUNNABLE is on no hart.
LEMMA TakeKeeps == ASSUME IInv, NEW h \in Harts, Take(h) PROVE IInv'
<1>1. work' = work /\ kern' = kern /\ hart[h].at = "take"
  BY DEF Take
<1>2. CASE hart[h].earliest \notin Ready
  <2>1. proc' = proc /\ \E S : Stops(h, S)
    BY <1>2 DEF Take
  <2> QED  BY <1>1, <2>1, StopsFact, ScanKeeps
<1>3. CASE hart[h].earliest \in Ready
  <2>1. PICK p \in Procs : p = hart[h].earliest /\ proc[p].state = "RUNNABLE"
    BY <1>3 DEF Ready
  <2>2. /\ proc' = [proc EXCEPT ![p].state = "RUNNING"]
        /\ hart' = [hart EXCEPT ![h] = [Scheduling EXCEPT !.at = "run", !.proc = p]]
    BY <1>3, <2>1 DEF Take
  <2>3. /\ Typed(proc') /\ proc'[p].state = "RUNNING"
        /\ \A q \in Procs \ {p} : proc'[q].state = proc[q].state
    BY <2>2, Now DEF Typed
  <2>4. /\ DOMAIN hart' = Harts /\ \A g \in Harts \ {h} : hart'[g] = hart[g]
        /\ {"at", "proc"} \subseteq DOMAIN hart'[h] /\ hart'[h].proc = p /\ hart'[h].at = "run"
    BY <2>2 DEF IInv, TypeOK, Scheduling
  <2>5. Harts' = Harts /\ hart[h].proc = None
    BY <1>1 DEF Harts, IInv, ScanOK
  <2>6. TypeOK' /\ ScanOK'
    BY <1>1, <2>3, <2>4, <2>5 DEF IInv, TypeOK, ScanOK, Typed
  <2>7. ForkOK'
    BY <1>1, <2>1, <2>3, Now, ForkKept
  <2>8. \A g \in Harts : hart[g].proc # p
    BY <2>1 DEF IInv, OneHart
  <2>9. ASSUME NEW q \in Procs PROVE proc'[q].state = "RUNNING" <=> \E g \in Harts : hart'[g].proc = q
    <3>1. CASE q = p
      BY <2>3, <2>4, <3>1
    <3>2. CASE q # p
      <4>1. (\E g \in Harts : hart'[g].proc = q) <=> \E g \in Harts : hart[g].proc = q
        BY <2>4, <2>5, <3>2, Now
      <4> QED  BY <2>3, <3>2, <4>1 DEF IInv, OneHart
    <3> QED  BY <3>1, <3>2
  <2>10. \A f, g \in Harts : f # g /\ hart'[f].proc = hart'[g].proc => hart'[f].proc = None
    BY <2>4, <2>8 DEF IInv, OneHart
  <2>11. OneHart'
    BY <2>5, <2>9, <2>10 DEF OneHart
  <2> QED  BY <2>6, <2>7, <2>11 DEF IInv
<1> QED  BY <1>2, <1>3

-----------------------------------------------------------------------------
(* The clock.                                                              *)

LEMMA TrapKeeps ==
  ASSUME IInv, work' = work, kern' = kern, NEW h \in Harts, NEW procs, Typed(procs), Quiet(procs), TrapEnd(h, procs)
  PROVE  IInv'
<1>1. CASE hart[h].proc = None
  <2>1. proc' = procs /\ hart' = hart
    BY <1>1 DEF TrapEnd
  <2> QED  BY <2>1, Now, QuietStep
<1>2. CASE hart[h].proc # None
  <2>1. PICK p \in Procs : p = hart[h].proc
    BY <1>2 DEF IInv, TypeOK
  <2> DEFINE alone == [procs EXCEPT ![p].state = "RUNNABLE"]
  <2>2. /\ Typed(alone) /\ alone[p].state = "RUNNABLE"
        /\ \A q \in Procs \ {p} : alone[q].state = procs[q].state
    BY DEF Typed
  <2>3. /\ GivesUp(h)
        /\ \/ proc' = alone
           \/ proc' = [alone EXCEPT ![p].tickcounter = @ + 1]
           \/ \E g \in Pages : proc' = [alone EXCEPT ![p] = Alarm(@, g)]
    BY <1>2, <2>1 DEF TrapEnd
  <2> HIDE DEF alone
  <2>4. Typed(proc') /\ \A q \in Procs : proc'[q].state = alone[q].state
    <3>1. CASE proc' = alone
      BY <2>2, <3>1
    <3>2. CASE proc' = [alone EXCEPT ![p].tickcounter = @ + 1]
      BY <2>2, <3>2 DEF Typed
    <3>3. ASSUME NEW g \in Pages, proc' = [alone EXCEPT ![p] = Alarm(@, g)] PROVE Typed(proc') /\ \A q \in Procs : proc'[q].state = alone[q].state
      BY <2>2, <3>3 DEF Typed, Alarm
    <3> QED  BY <2>3, <3>1, <3>2, <3>3
  <2>5. proc[p].state = "RUNNING"
    BY <2>1 DEF IInv, OneHart
  <2>6. ForkOK'
    BY <2>2, <2>4, <2>5, Now, ForkKept DEF Quiet
  <2>7. proc'[p].state # "RUNNING" /\ \A q \in Procs \ {p} : proc'[q].state = "RUNNING" <=> proc[q].state = "RUNNING"
    BY <2>2, <2>4 DEF Quiet
  <2> QED  BY <2>1, <2>3, <2>4, <2>6, <2>7, Now, LeaveStep
<1> QED  BY <1>1, <1>2

LEMMA ClockKeeps ==
  ASSUME IInv, Late \/ Tick \/ UpdateTime \/ ClockEnd \/ \E h \in Harts : OtherTick(h)
  PROVE  IInv'
<1>0. Quiet(proc)
  BY DEF Quiet
<1>1. ASSUME Late \/ Tick PROVE IInv'
  BY <1>0, <1>1, Now, QuietStep DEF Late, Tick, vars
<1>2. CASE UpdateTime
  <2>1. work' = work /\ hart' = hart /\ kern' = kern
    BY <1>2 DEF UpdateTime
  <2>2. PICK last : proc' = [p \in Procs |-> IF p \in clk..last /\ proc[p].state = "RUNNING"
                                            THEN [proc[p] EXCEPT !.rtime = @ + 1] ELSE proc[p]]
    BY <1>2 DEF UpdateTime
  <2>3. Typed(proc') /\ \A p \in Procs : proc'[p].state = proc[p].state
    BY <2>2, Now DEF Typed
  <2> QED  BY <2>1, <2>3, Now, QuietStep DEF Quiet
<1>3. CASE ClockEnd
  <2>1. work' = work /\ kern' = kern /\ TrapEnd(1, Woken(proc, TicksChan)) /\ 1 \in Harts
    BY <1>3 DEF ClockEnd, IInv, TypeOK
  <2>2. Typed(Woken(proc, TicksChan)) /\ Quiet(Woken(proc, TicksChan))
    BY Now, WokenFact DEF Quiet
  <2> QED  BY <2>1, <2>2, TrapKeeps
<1>4. ASSUME NEW h \in Harts, OtherTick(h) PROVE IInv'
  BY <1>0, <1>4, Now, TrapKeeps DEF OtherTick
<1> QED  BY <1>1, <1>2, <1>3, <1>4

-----------------------------------------------------------------------------
(* The running process.                                                    *)

LEMMA RunsFact ==
  ASSUME IInv, NEW h \in Harts, NEW p \in Procs, Runs(h, p)
  PROVE  hart[h].proc = p /\ proc[p].state = "RUNNING"
BY DEF Runs, IInv, OneHart

\* In user mode, and in the calls that touch the caller alone.
LEMMA AloneKeeps ==
  ASSUME IInv, work' = work, hart' = hart, DOMAIN proc' = Procs, NEW p \in Procs,
         \A q \in Procs \ {p} : proc'[q] = proc[q],
         {"state", "ctime", "rtime", "etime"} \subseteq DOMAIN proc'[p], proc'[p].state = proc[p].state,
         NEW k, kern' = [kern EXCEPT ![p] = k], k = kern[p] \/ k.call # "forking"
  PROVE  IInv'
<1>1. Typed(proc') /\ Quiet(proc')
  BY Now DEF Typed, Quiet
<1>2. \A q \in Procs : Forking(q)' => kern'[q] = kern[q]
  BY Now DEF Forking
<1>3. DOMAIN kern' = Procs
  BY Now
<1> QED  BY <1>1, <1>2, <1>3, QuietStep

LEMMA UserKeeps ==
  ASSUME IInv, NEW h \in Harts, NEW p \in Procs, Enters(h, p) \/ Computes(h, p)
  PROVE  IInv'
<1>1. CASE Enters(h, p)
  <2>1. /\ work' = work /\ hart' = hart /\ kern' = [kern EXCEPT ![p] = Instruction(p)]
        /\ \E c \in Calls : /\ c = Instruction(p).call
                            /\ proc' = [proc EXCEPT ![p].tf.pc[2] = @ + 1, ![p].counts[c] = @ + 1]
    BY <1>1 DEF Enters
  <2>2. Instruction(p).call # "forking"
    BY <2>1 DEF Calls
  <2>3. DOMAIN proc' = Procs /\ (\A q \in Procs \ {p} : proc'[q] = proc[q])
        /\ {"state", "ctime", "rtime", "etime"} \subseteq DOMAIN proc'[p] /\ proc'[p].state = proc[p].state
    BY <2>1, Now DEF Typed
  <2> QED  BY <2>1, <2>2, <2>3, AloneKeeps
<1>2. CASE Computes(h, p)
  <2>1. /\ work' = work /\ hart' = hart /\ kern' = kern
        /\ \E tf : proc' = [proc EXCEPT ![p].tf = tf]
    BY <1>2 DEF Computes
  <2>2. DOMAIN proc' = Procs /\ (\A q \in Procs \ {p} : proc'[q] = proc[q])
        /\ {"state", "ctime", "rtime", "etime"} \subseteq DOMAIN proc'[p] /\ proc'[p].state = proc[p].state
    BY <2>1, Now DEF Typed
  <2>3. Typed(proc') /\ Quiet(proc')
    BY <2>2, Now DEF Typed, Quiet
  <2> QED  BY <2>1, <2>3, Now, QuietStep
<1> QED  BY <1>1, <1>2

LEMMA ReturnedFact ==
  ASSUME NEW procs, Typed(procs), NEW p \in Procs, NEW v
  PROVE  Typed(Returned(procs, p, v)) /\ \A q \in Procs : Returned(procs, p, v)[q].state = procs[q].state
BY DEF Typed, Returned

LEMMA LeavesFact ==
  ASSUME IInv, NEW p \in Procs, Leaves(p)
  PROVE  DOMAIN kern' = Procs /\ ~Forking(p)' /\ \A q \in Procs : Forking(q)' => kern'[q] = kern[q]
BY Now DEF Leaves, Forking, NoCall

LEMMA SimpleKeeps ==
  ASSUME IInv, NEW h \in Harts, NEW p \in Procs, SysSimple(h, p) \/ SysExec(h, p) \/ SysSigreturn(h, p)
  PROVE  IInv'
<1>1. work' = work /\ hart' = hart /\ Leaves(p)
  BY DEF SysSimple, SysExec, SysSigreturn
<1>2. Typed(proc') /\ \A q \in Procs : proc'[q].state = proc[q].state
  <2>1. CASE SysSimple(h, p)
    <3>1. kern[p].call \in {"write", "sigalarm", "settickets", "getSysCount"} /\ proc' = Simple(p)
      BY <2>1 DEF SysSimple
    <3> DEFINE armed == [proc EXCEPT ![p].alarm = TRUE, ![p].alarmticks = kern[p].n, ![p].handler = kern[p].handler]
               given == [proc EXCEPT ![p].tickets = kern[p].n]
    <3>2. Typed(armed) /\ Typed(given) /\ \A q \in Procs : armed[q].state = proc[q].state /\ given[q].state = proc[q].state
      BY Now DEF Typed
    <3>3. \E v : proc' = Returned(proc, p, v) \/ proc' = Returned(armed, p, v) \/ proc' = Returned(given, p, v)
      BY <3>1 DEF Simple
    <3> HIDE DEF armed, given
    <3> QED  BY <3>2, <3>3, Now, ReturnedFact
  <2>2. CASE SysExec(h, p)
    BY <2>2, Now DEF SysExec, Typed
  <2>3. CASE SysSigreturn(h, p)
    BY <2>3, Now DEF SysSigreturn, Typed, Restored
  <2> QED  BY <2>1, <2>2, <2>3
<1> QED  BY <1>1, <1>2, LeavesFact, QuietStep DEF Quiet

\* A child is USED, on no hart, until its parent makes it RUNNABLE.
LEMMA ForkAllocKeeps ==
  ASSUME IInv, NEW h \in Harts, NEW p \in Procs, ForkAlloc(h, p)
  PROVE  IInv'
<1> DEFINE unused == {q \in Procs : proc[q].state = "UNUSED"}
<1>1. work' = work /\ hart' = hart
  BY DEF ForkAlloc
<1>2. CASE unused = {}
  <2>1. proc' = Returned(proc, p, -1) /\ Leaves(p)
    BY <1>2 DEF ForkAlloc
  <2> QED  BY <1>1, <2>1, Now, ReturnedFact, LeavesFact, QuietStep DEF Quiet
<1>3. CASE unused # {}
  <2>1. PICK q \in Procs : q = Min(unused) /\ proc[q].state = "UNUSED"
    BY <1>3, MinFact
  <2>2. /\ proc' = [proc EXCEPT ![q] = [Allocated(@) EXCEPT !.tf = [proc[p].tf EXCEPT !.a0 = 0]]]
        /\ kern' = [kern EXCEPT ![p] = [call |-> "forking", child |-> q]]
    BY <1>3, <2>1 DEF ForkAlloc
  <2>3. /\ Typed(proc') /\ proc'[q].state = "USED"
        /\ \A r \in Procs \ {q} : proc'[r].state = proc[r].state
    BY <2>2, Now DEF Typed, Allocated
  <2>4. DOMAIN kern' = Procs /\ kern'[p].child = q /\ \A r \in Procs \ {p} : kern'[r] = kern[r]
    BY <2>2, Now
  <2>5. \A r \in Procs : Forking(r) => kern[r].child # q
    BY <2>1 DEF IInv, ForkOK
  <2>6. ForkOK'
    <3>1. ASSUME NEW r \in Procs, Forking(r)' PROVE kern'[r].child \in Procs /\ proc'[kern'[r].child].state = "USED"
      <4>1. CASE r = p
        BY <2>3, <2>4, <4>1
      <4>2. CASE r # p
        <5>1. Forking(r) /\ kern'[r].child = kern[r].child
          BY <2>4, <3>1, <4>2 DEF Forking
        <5>2. PICK c \in Procs : c = kern[r].child /\ proc[c].state = "USED"
          BY <5>1 DEF IInv, ForkOK
        <5> QED  BY <2>1, <2>3, <5>1, <5>2
      <4> QED  BY <4>1, <4>2
    <3>2. ASSUME NEW r \in Procs, NEW t \in Procs, Forking(r)', Forking(t)', kern'[r].child = kern'[t].child PROVE r = t
      <4>1. \A u \in Procs \ {p} : Forking(u)' => Forking(u) /\ kern'[u].child = kern[u].child
        BY <2>4 DEF Forking
      <4>2. CASE r # p /\ t # p
        BY <3>2, <4>1, <4>2 DEF IInv, ForkOK
      <4>3. CASE r = p \/ t = p
        BY <2>4, <2>5, <3>2, <4>1, <4>3
      <4> QED  BY <4>2, <4>3
    <3> QED  BY <3>1, <3>2 DEF ForkOK, Procs
  <2>7. \A r \in Procs : proc'[r].state = "RUNNING" <=> proc[r].state = "RUNNING"
    BY <2>1, <2>3
  <2> QED  BY <1>1, <2>3, <2>4, <2>6, <2>7, StayStep DEF IInv, TypeOK
<1> QED  BY <1>2, <1>3

LEMMA ForkRunKeeps ==
  ASSUME IInv, NEW h \in Harts, NEW p \in Procs, ForkRun(h, p)
  PROVE  IInv'
<1>1. work' = work /\ hart' = hart /\ Leaves(p) /\ Forking(p)
  BY DEF ForkRun, In, Forking
<1>2. PICK q \in Procs : q = kern[p].child /\ proc[q].state = "USED"
  BY <1>1 DEF IInv, ForkOK
<1> DEFINE made == [proc EXCEPT ![q].parent = p, ![q].tickets = proc[p].tickets, ![q].state = "RUNNABLE"]
<1>3. Typed(made) /\ made[q].state = "RUNNABLE" /\ \A r \in Procs \ {q} : made[r].state = proc[r].state
  BY Now DEF Typed
<1>4. proc' = Returned(made, p, proc[q].pid)
  BY <1>2 DEF ForkRun
<1> HIDE DEF made
<1>5. Typed(proc') /\ \A r \in Procs : proc'[r].state = made[r].state
  BY <1>3, <1>4, ReturnedFact
<1>6. ASSUME NEW r \in Procs, Forking(r)' PROVE kern[r].child # q
  <2>1. r # p /\ Forking(r)
    BY <1>1, <1>6, LeavesFact DEF Forking
  <2> QED  BY <1>1, <1>2, <2>1 DEF IInv, ForkOK
<1>7. ForkOK'
  <2>1. \A r \in Procs : Forking(r)' => kern'[r] = kern[r]
    BY <1>1, LeavesFact
  <2>2. \A r \in Procs : proc[r].state = "USED" => proc'[r].state = "USED" \/ \A t \in Procs : Forking(t)' => kern[t].child # r
    BY <1>3, <1>5, <1>6
  <2> QED  BY <1>1, <2>1, <2>2, LeavesFact, ForkKept
<1>8. \A r \in Procs : proc'[r].state = "RUNNING" <=> proc[r].state = "RUNNING"
  BY <1>2, <1>3, <1>5
<1> QED  BY <1>1, <1>5, <1>7, <1>8, LeavesFact, StayStep DEF IInv, TypeOK

\* The process gives up its hart in a state of its own.
LEMMA GivesUpKeeps ==
  ASSUME IInv, work' = work, NEW h \in Harts, NEW p \in Procs, Runs(h, p), GivesUp(h), Typed(proc'),
         proc'[p].state # "RUNNING",
         \A q \in Procs \ {p} : \/ proc'[q].state = proc[q].state
                                \/ proc[q].state = "SLEEPING" /\ proc'[q].state = "RUNNABLE",
         DOMAIN kern' = Procs, \A q \in Procs : Forking(q)' => kern'[q] = kern[q]
  PROVE  IInv'
<1>1. hart[h].proc = p /\ proc[p].state = "RUNNING"
  BY RunsFact
<1>2. ForkOK'
  BY <1>1, ForkKept
<1> QED  BY <1>1, <1>2, LeaveStep

LEMMA ExitKeeps == ASSUME IInv, NEW h \in Harts, NEW p \in Procs, SysExit(h, p) PROVE IInv'
<1>1. work' = work /\ kern' = kern /\ Runs(h, p) /\ GivesUp(h)
  BY DEF SysExit, In
<1> DEFINE orphans == [q \in Procs |-> IF q \in Children(p) THEN [proc[q] EXCEPT !.parent = InitProc] ELSE proc[q]]
           adopted == IF Children(p) = {} THEN orphans ELSE Woken(orphans, InitProc)
           heard == Woken(adopted, proc[p].parent)
           Since(procs) == \A q \in Procs : \/ procs[q].state = proc[q].state
                                            \/ proc[q].state = "SLEEPING" /\ procs[q].state = "RUNNABLE"
<1>2. Typed(orphans) /\ \A q \in Procs : orphans[q].state = proc[q].state
  BY Now DEF Typed
<1>3. proc' = [heard EXCEPT ![p].state = "ZOMBIE", ![p].xstate = kern[p].n, ![p].etime = ticks]
  BY DEF SysExit
<1> HIDE DEF orphans
<1>4. Typed(adopted) /\ Since(adopted)
  BY <1>2, WokenFact
<1> HIDE DEF adopted
<1>5. Typed(heard) /\ Since(heard)
  BY <1>4, WokenFact
<1> HIDE DEF heard
<1>6. Typed(proc') /\ proc'[p].state = "ZOMBIE" /\ \A q \in Procs \ {p} : proc'[q].state = heard[q].state
  BY <1>3, <1>5 DEF Typed
<1> QED  BY <1>1, <1>5, <1>6, Now, GivesUpKeeps

LEMMA SleepsKeeps ==
  ASSUME IInv, work' = work, NEW h \in Harts, NEW p \in Procs, Runs(h, p), NEW chan, Sleeps(h, p, chan),
         DOMAIN kern' = Procs, \A q \in Procs : Forking(q)' => kern'[q] = kern[q]
  PROVE  IInv'
<1>1. proc' = [proc EXCEPT ![p].state = "SLEEPING", ![p].chan = chan] /\ GivesUp(h)
  BY DEF Sleeps
<1>2. Typed(proc') /\ proc'[p].state = "SLEEPING" /\ \A q \in Procs \ {p} : proc'[q].state = proc[q].state
  BY <1>1, Now DEF Typed
<1> QED  BY <1>1, <1>2, GivesUpKeeps

LEMMA WaitKeeps == ASSUME IInv, NEW h \in Harts, NEW p \in Procs, SysWait(h, p) PROVE IInv'
<1>1. work' = work /\ Runs(h, p)
  BY DEF SysWait
<1>2. CASE Zombies(p) # {}
  <2>1. PICK q \in Procs : q = Min(Zombies(p)) /\ proc[q].state = "ZOMBIE"
    BY <1>2, MinFact DEF Zombies, Children
  <2>2. /\ hart' = hart /\ kern' = [kern EXCEPT ![p] = NoCall, ![q] = NoCall]
        /\ \/ proc' = Returned(Reaped(p, q), p, proc[q].pid)
           \/ proc' = Returned([proc EXCEPT ![q] = Freed(@)], p, proc[q].pid)
    <3>1. Children(p) # {}
      BY <1>2 DEF Zombies
    <3> QED  BY <1>2, <2>1, <3>1 DEF SysWait
  <2>3. p # q
    BY <1>1, <2>1, RunsFact
  <2>4. /\ Typed(Reaped(p, q)) /\ Reaped(p, q)[q].state = "UNUSED"
        /\ \A r \in Procs \ {q} : Reaped(p, q)[r].state = proc[r].state
    BY <2>3, Now DEF Typed, Reaped, Freed
  <2>5. /\ Typed([proc EXCEPT ![q] = Freed(@)]) /\ [proc EXCEPT ![q] = Freed(@)][q].state = "UNUSED"
        /\ \A r \in Procs \ {q} : [proc EXCEPT ![q] = Freed(@)][r].state = proc[r].state
    BY Now DEF Typed, Freed
  <2>6. Typed(proc') /\ proc'[q].state = "UNUSED" /\ \A r \in Procs \ {q} : proc'[r].state = proc[r].state
    <3>1. CASE proc' = Returned(Reaped(p, q), p, proc[q].pid)
      BY <2>4, <3>1, ReturnedFact
    <3> DEFINE freed == [proc EXCEPT ![q] = Freed(@)]
    <3>2. CASE proc' = Returned(freed, p, proc[q].pid)
      <4>1. Typed(freed) /\ freed[q].state = "UNUSED" /\ \A r \in Procs \ {q} : freed[r].state = proc[r].state
        BY <2>5
      <4> HIDE DEF freed
      <4> QED  BY <3>2, <4>1, ReturnedFact
    <3> QED  BY <2>2, <3>1, <3>2
  <2>7. DOMAIN kern' = Procs /\ \A r \in Procs : Forking(r)' => kern'[r] = kern[r]
    BY <2>2, Now DEF Forking, NoCall
  <2>8. Quiet(proc')
    BY <2>1, <2>6 DEF Quiet
  <2> QED  BY <1>1, <2>2, <2>6, <2>7, <2>8, QuietStep
<1>3. CASE Children(p) = {}
  <2>1. Zombies(p) = {}
    BY <1>3 DEF Zombies
  <2>2. hart' = hart /\ proc' = Returned(proc, p, -1) /\ Leaves(p)
    BY <1>3, <2>1 DEF SysWait
  <2> QED  BY <1>1, <2>2, Now, ReturnedFact, LeavesFact, QuietStep DEF Quiet
<1>4. CASE Children(p) # {} /\ Zombies(p) = {}
  <2>1. Sleeps(h, p, p) /\ kern' = kern
    BY <1>4 DEF SysWait
  <2> QED  BY <1>1, <2>1, Now, SleepsKeeps
<1> QED  BY <1>2, <1>3, <1>4

LEMMA SleepKeeps == ASSUME IInv, NEW h \in Harts, NEW p \in Procs, SysSleep(h, p) PROVE IInv'
<1>1. work' = work /\ Runs(h, p)
  BY DEF SysSleep
<1>2. CASE proc' = Returned(proc, p, 0) /\ Leaves(p) /\ hart' = hart
  BY <1>1, <1>2, Now, ReturnedFact, LeavesFact, QuietStep DEF Quiet
<1>3. ASSUME NEW since, Sleeps(h, p, TicksChan), kern' = [kern EXCEPT ![p] = [call |-> "sleeping", n |-> kern[p].n, since |-> since]]
      PROVE IInv'
  <2>1. DOMAIN kern' = Procs /\ \A r \in Procs : Forking(r)' => kern'[r] = kern[r]
    BY <1>3, Now DEF Forking
  <2> QED  BY <1>1, <1>3, <2>1, SleepsKeeps
<1> QED  BY <1>2, <1>3 DEF SysSleep

-----------------------------------------------------------------------------
LEMMA InitIInv == Init => IInv
<1> SUFFICES ASSUME Init PROVE IInv
  OBVIOUS
<1>1. /\ proc = [p \in Procs |-> IF p = InitProc THEN [Unused EXCEPT !.state = "RUNNABLE", !.pid = 1] ELSE Unused]
      /\ hart = [h \in Harts |-> Scheduling] /\ kern = [p \in Procs |-> NoCall]
      /\ work.harts \in Nat \ {0}
  BY ProcAssumption DEF Init
<1>2. \A p \in Procs : {"state", "ctime", "rtime", "etime"} \subseteq DOMAIN proc[p] /\ proc[p].state \in {"UNUSED", "RUNNABLE"}
  BY <1>1 DEF Unused
<1>3. \A h \in Harts : {"at", "proc"} \subseteq DOMAIN hart[h] /\ hart[h].proc = None
  BY <1>1 DEF Scheduling
<1>4. TypeOK /\ ScanOK
  BY <1>1, <1>2, <1>3 DEF TypeOK, ScanOK, Harts
<1>5. ForkOK
  BY <1>1 DEF ForkOK, Forking, NoCall
<1>6. \A p \in Procs : p # None
  BY ProcAssumption DEF Procs, None
<1>7. OneHart
  BY <1>2, <1>3, <1>6 DEF OneHart
<1> QED  BY <1>4, <1>5, <1>7 DEF IInv

\* Every step keeps it.
LEMMA StepKeeps == ASSUME IInv, [Next]_vars PROVE IInv'
<1>1. CASE UNCHANGED vars
  BY <1>1, Now, QuietStep DEF vars, Quiet
<1>2. ASSUME NEW h \in Harts, NEW p \in Procs, Process(h, p) PROVE IInv'
  BY <1>2, UserKeeps, SimpleKeeps, ForkAllocKeeps, ForkRunKeeps, ExitKeeps, WaitKeeps, SleepKeeps DEF Process
<1> QED  BY <1>1, <1>2, TotalKeeps, DrawKeeps, TakeKeeps, ClockKeeps DEF Next

\* The invariant holds in every reachable state (proc.c:548-629 and the calls).
THEOREM Inductive == Spec => []IInv
BY InitIInv, StepKeeps, PTL DEF Spec

\* Whatever harts draw, scan and lock at the same time, a process is RUNNING on one
\* hart or on none (proc.c:582-602).
THEOREM AlwaysOneHart == Spec => []OneHart
<1>1. IInv => OneHart
  BY DEF IInv
<1> QED  BY <1>1, Inductive, PTL

-----------------------------------------------------------------------------
(* The times of waitx() on one hart.                                       *)

\* Between the tick and update_time() the last tick is still to be charged.
Charged == IF clk = 1 THEN ticks - 1 ELSE ticks
Gone == {"UNUSED", "ZOMBIE"}

TimeOK ==
  /\ ticks \in Nat
  /\ \A p \in Procs : proc[p].ctime \in Nat /\ proc[p].rtime \in Nat /\ proc[p].etime \in Nat
  /\ work.harts = 1 =>
       /\ clk \in {0, 1, NPROC + 1}
       /\ \A p \in Procs :
            /\ proc[p].state \notin Gone => proc[p].ctime + proc[p].rtime <= Charged
            /\ proc[p].state = "ZOMBIE" => proc[p].ctime + proc[p].rtime <= proc[p].etime

TInv == IInv /\ TimeOK

SameTimes(r, s) == r.ctime = s.ctime /\ r.rtime = s.rtime /\ r.etime = s.etime

\* A process may be freed, and otherwise neither come nor go.
Kept(procs) == \A p \in Procs :
  /\ SameTimes(procs[p], proc[p])
  /\ \/ procs[p].state = proc[p].state
     \/ procs[p].state \notin Gone /\ proc[p].state \notin Gone
     \/ procs[p].state = "UNUSED"

LEMMA KeptStep ==
  ASSUME TInv, work' = work, ticks' = ticks, clk' = clk, Kept(proc')
  PROVE  TimeOK'
<1> USE DEF TInv
<1>1. \A p \in Procs : proc'[p].ctime = proc[p].ctime /\ proc'[p].rtime = proc[p].rtime /\ proc'[p].etime = proc[p].etime
  BY DEF Kept, SameTimes
<1>2. \A p \in Procs : /\ proc'[p].state \notin Gone => proc[p].state \notin Gone
                       /\ proc'[p].state = "ZOMBIE" => proc[p].state = "ZOMBIE"
  BY DEF Kept, Gone
<1>3. ticks' \in Nat /\ \A p \in Procs : proc'[p].ctime \in Nat /\ proc'[p].rtime \in Nat /\ proc'[p].etime \in Nat
  BY <1>1 DEF TimeOK
<1>4. Charged' = Charged
  BY DEF Charged
<1>5. work'.harts = 1 =>
        /\ clk' \in {0, 1, NPROC + 1}
        /\ \A p \in Procs :
             /\ proc'[p].state \notin Gone => proc'[p].ctime + proc'[p].rtime <= Charged'
             /\ proc'[p].state = "ZOMBIE" => proc'[p].ctime + proc'[p].rtime <= proc'[p].etime
  BY <1>1, <1>2, <1>4 DEF TimeOK
<1> QED  BY <1>3, <1>5 DEF TimeOK, Procs

LEMMA WokenKept ==
  ASSUME NEW procs, NEW chan, Typed(procs)
  PROVE  \A p \in Procs : SameTimes(Woken(procs, chan)[p], procs[p])
BY DEF Woken, Typed, SameTimes

LEMMA ReturnedKept ==
  ASSUME NEW procs, Typed(procs), NEW p \in Procs, NEW v
  PROVE  \A q \in Procs : SameTimes(Returned(procs, p, v)[q], procs[q])
BY DEF Typed, Returned, SameTimes

LEMMA ScanTimes == ASSUME TInv, NEW h \in Harts, Total(h) \/ Draw(h) \/ Take(h) PROVE TimeOK'
<1>1. work' = work /\ ticks' = ticks /\ clk' = clk
  BY DEF Total, Draw, Take
<1>2. CASE proc' = proc
  BY <1>1, <1>2, KeptStep DEF Kept, SameTimes
<1>3. CASE proc' # proc
  <2>1. PICK p \in Procs : proc[p].state = "RUNNABLE" /\ proc' = [proc EXCEPT ![p].state = "RUNNING"]
    BY <1>3 DEF Total, Draw, Take, Ready
  <2>2. Kept(proc')
    BY <2>1, Now DEF Typed, Kept, SameTimes, TInv, Gone
  <2> QED  BY <1>1, <2>2, KeptStep
<1> QED  BY <1>2, <1>3

LEMMA TrapKept ==
  ASSUME TInv, NEW h \in Harts, NEW procs, Typed(procs), Kept(procs), Quiet(procs), TrapEnd(h, procs)
  PROVE  Kept(proc')
<1>1. CASE hart[h].proc = None
  BY <1>1 DEF TrapEnd
<1>2. CASE hart[h].proc # None
  <2>1. PICK p \in Procs : p = hart[h].proc
    BY <1>2 DEF TInv, IInv, TypeOK
  <2> DEFINE alone == [procs EXCEPT ![p].state = "RUNNABLE"]
  <2>2. /\ Typed(alone) /\ alone[p].state = "RUNNABLE"
        /\ \A q \in Procs \ {p} : alone[q].state = procs[q].state
        /\ \A q \in Procs : SameTimes(alone[q], procs[q])
    BY DEF Typed, SameTimes
  <2>3. \/ proc' = alone
        \/ proc' = [alone EXCEPT ![p].tickcounter = @ + 1]
        \/ \E g \in Pages : proc' = [alone EXCEPT ![p] = Alarm(@, g)]
    BY <1>2, <2>1 DEF TrapEnd
  <2> HIDE DEF alone
  <2>4. \A q \in Procs : proc'[q].state = alone[q].state /\ SameTimes(proc'[q], alone[q])
    <3>1. CASE proc' = alone
      BY <3>1 DEF SameTimes
    <3>2. CASE proc' = [alone EXCEPT ![p].tickcounter = @ + 1]
      BY <2>2, <3>2 DEF Typed, SameTimes
    <3>3. ASSUME NEW g \in Pages, proc' = [alone EXCEPT ![p] = Alarm(@, g)]
          PROVE \A q \in Procs : proc'[q].state = alone[q].state /\ SameTimes(proc'[q], alone[q])
      BY <2>2, <3>3 DEF Typed, Alarm, SameTimes
    <3> QED  BY <2>3, <3>1, <3>2, <3>3
  <2>5. proc[p].state = "RUNNING"
    BY <2>1 DEF TInv, IInv, OneHart
  <2> QED  BY <2>2, <2>4, <2>5 DEF Kept, SameTimes, Gone
<1> QED  BY <1>1, <1>2

\* A tick is charged to who runs, before anything else happens on the hart.
LEMMA ClockTimes ==
  ASSUME TInv, Late \/ Tick \/ UpdateTime \/ ClockEnd \/ \E h \in Harts : OtherTick(h)
  PROVE  TimeOK'
<1> USE DEF TInv
<1>1. Kept(proc) /\ Quiet(proc) /\ Typed(proc)
  BY Now DEF Kept, SameTimes, Quiet
<1>2. CASE Late
  BY <1>1, <1>2, KeptStep DEF Late, vars
<1>3. CASE Tick
  <2>1. clk = 0 /\ clk' = 1 /\ ticks' = ticks + 1 /\ proc' = proc /\ work' = work
    BY <1>3 DEF Tick
  <2> QED  BY <2>1 DEF TimeOK, Charged
<1>4. CASE UpdateTime
  <2>1. work' = work /\ ticks' = ticks /\ clk \in Procs
    BY <1>4 DEF UpdateTime
  <2>2. PICK last : /\ work.harts = 1 => last = NPROC
                    /\ clk' = last + 1
                    /\ proc' = [p \in Procs |-> IF p \in clk..last /\ proc[p].state = "RUNNING"
                                                THEN [proc[p] EXCEPT !.rtime = @ + 1] ELSE proc[p]]
    BY <1>4 DEF UpdateTime
  <2>3. \A p \in Procs : /\ proc'[p].state = proc[p].state
                         /\ proc'[p].ctime = proc[p].ctime /\ proc'[p].etime = proc[p].etime
                         /\ \/ proc'[p].rtime = proc[p].rtime
                            \/ proc[p].state = "RUNNING" /\ proc'[p].rtime = proc[p].rtime + 1
    BY <1>1, <2>2 DEF Typed
  <2>4. ticks' \in Nat /\ \A p \in Procs : proc'[p].ctime \in Nat /\ proc'[p].rtime \in Nat /\ proc'[p].etime \in Nat
    BY <2>1, <2>3 DEF TimeOK
  <2>5. ASSUME work.harts = 1
        PROVE  /\ clk' \in {0, 1, NPROC + 1}
               /\ \A p \in Procs :
                    /\ proc'[p].state \notin Gone => proc'[p].ctime + proc'[p].rtime <= Charged'
                    /\ proc'[p].state = "ZOMBIE" => proc'[p].ctime + proc'[p].rtime <= proc'[p].etime
    <3>1. clk = 1 /\ clk' = NPROC + 1 /\ clk' # 1
      BY <2>1, <2>2, <2>5, ProcAssumption DEF TimeOK, Procs
    <3>2. Charged = ticks - 1 /\ Charged' = ticks
      BY <2>1, <3>1 DEF Charged
    <3>3. \A p \in Procs : /\ proc[p].state \notin Gone => proc[p].ctime + proc[p].rtime <= ticks - 1
                           /\ proc[p].state = "ZOMBIE" => proc[p].ctime + proc[p].rtime <= proc[p].etime
      BY <2>5, <3>2 DEF TimeOK
    <3>4. ticks \in Nat /\ \A p \in Procs : proc[p].ctime \in Nat /\ proc[p].rtime \in Nat
      BY DEF TimeOK
    <3> QED  BY <2>3, <3>1, <3>2, <3>3, <3>4 DEF Gone
  <2> QED  BY <2>1, <2>4, <2>5 DEF TimeOK, Procs
<1>5. CASE ClockEnd
  <2>1. /\ work' = work /\ ticks' = ticks /\ clk = NPROC + 1 /\ clk' = 0
        /\ TrapEnd(1, Woken(proc, TicksChan)) /\ 1 \in Harts
    BY <1>5 DEF ClockEnd, IInv, TypeOK
  <2>2. Typed(Woken(proc, TicksChan)) /\ Quiet(Woken(proc, TicksChan)) /\ Kept(Woken(proc, TicksChan))
    BY <1>1, WokenFact, WokenKept DEF Quiet, Kept, Gone
  <2>3. Kept(proc')
    BY <2>1, <2>2, TrapKept
  <2>4. \A p \in Procs : proc'[p].ctime = proc[p].ctime /\ proc'[p].rtime = proc[p].rtime /\ proc'[p].etime = proc[p].etime
    BY <2>3 DEF Kept, SameTimes
  <2>5. \A p \in Procs : /\ proc'[p].state \notin Gone => proc[p].state \notin Gone
                         /\ proc'[p].state = "ZOMBIE" => proc[p].state = "ZOMBIE"
    BY <2>3 DEF Kept, Gone
  <2>6. Charged' = Charged
    BY <2>1, ProcAssumption DEF Charged
  <2> QED  BY <2>1, <2>4, <2>5, <2>6 DEF TimeOK, Procs
<1>6. ASSUME NEW h \in Harts, OtherTick(h) PROVE TimeOK'
  <2>1. work' = work /\ ticks' = ticks /\ clk' = clk /\ TrapEnd(h, proc)
    BY <1>6 DEF OtherTick
  <2>2. Kept(proc')
    BY <1>1, <2>1, TrapKept
  <2> QED  BY <2>1, <2>2, KeptStep
<1> QED  BY <1>2, <1>3, <1>4, <1>5, <1>6

LEMMA UserTimes ==
  ASSUME TInv, NEW h \in Harts, NEW p \in Procs,
         Enters(h, p) \/ Computes(h, p) \/ SysSimple(h, p) \/ SysExec(h, p) \/ SysSigreturn(h, p)
  PROVE  TimeOK'
<1> USE DEF TInv
<1>1. work' = work /\ ticks' = ticks /\ clk' = clk
  BY DEF Enters, Computes, SysSimple, SysExec, SysSigreturn
<1>2. \A q \in Procs : proc'[q].state = proc[q].state /\ SameTimes(proc'[q], proc[q])
  <2>1. CASE Enters(h, p)
    <3>1. \E c \in Calls : proc' = [proc EXCEPT ![p].tf.pc[2] = @ + 1, ![p].counts[c] = @ + 1]
      BY <2>1 DEF Enters
    <3> QED  BY <3>1, Now DEF Typed, SameTimes
  <2>2. CASE Computes(h, p)
    <3>1. \E tf : proc' = [proc EXCEPT ![p].tf = tf]
      BY <2>2 DEF Computes
    <3> QED  BY <3>1, Now DEF Typed, SameTimes
  <2>3. CASE SysSimple(h, p)
    <3>1. kern[p].call \in {"write", "sigalarm", "settickets", "getSysCount"} /\ proc' = Simple(p)
      BY <2>3 DEF SysSimple
    <3> DEFINE armed == [proc EXCEPT ![p].alarm = TRUE, ![p].alarmticks = kern[p].n, ![p].handler = kern[p].handler]
               given == [proc EXCEPT ![p].tickets = kern[p].n]
    <3>2. /\ Typed(armed) /\ Typed(given)
          /\ \A q \in Procs : /\ armed[q].state = proc[q].state /\ given[q].state = proc[q].state
                              /\ SameTimes(armed[q], proc[q]) /\ SameTimes(given[q], proc[q])
      BY Now DEF Typed, SameTimes
    <3>3. \E v : proc' = Returned(proc, p, v) \/ proc' = Returned(armed, p, v) \/ proc' = Returned(given, p, v)
      BY <3>1 DEF Simple
    <3> HIDE DEF armed, given
    <3> QED  BY <3>2, <3>3, Now, ReturnedFact, ReturnedKept DEF SameTimes
  <2>4. CASE SysExec(h, p)
    BY <2>4, Now DEF SysExec, Typed, SameTimes
  <2>5. CASE SysSigreturn(h, p)
    BY <2>5, Now DEF SysSigreturn, Typed, Restored, SameTimes
  <2> QED  BY <2>1, <2>2, <2>3, <2>4, <2>5
<1> QED  BY <1>1, <1>2, KeptStep DEF Kept

\* A child is created in the tick allocproc() reads: the clock is not in the middle of one.
LEMMA ForkTimes ==
  ASSUME TInv, NEW h \in Harts, NEW p \in Procs, ForkAlloc(h, p) \/ ForkRun(h, p)
  PROVE  TimeOK'
<1> USE DEF TInv
<1>1. work' = work /\ ticks' = ticks /\ clk' = clk
  BY DEF ForkAlloc, ForkRun
<1>2. CASE ForkAlloc(h, p)
  <2> DEFINE unused == {q \in Procs : proc[q].state = "UNUSED"}
  <2>1. CASE unused = {}
    <3>1. proc' = Returned(proc, p, -1)
      BY <1>2, <2>1 DEF ForkAlloc
    <3>2. Kept(proc')
      BY <3>1, Now, ReturnedFact, ReturnedKept DEF Kept
    <3> QED  BY <1>1, <3>2, KeptStep
  <2>2. CASE unused # {}
    <3>1. PICK q \in Procs : q = Min(unused) /\ proc[q].state = "UNUSED"
      BY <2>2, MinFact
    <3>2. proc' = [proc EXCEPT ![q] = [Allocated(@) EXCEPT !.tf = [proc[p].tf EXCEPT !.a0 = 0]]]
      BY <1>2, <2>2, <3>1 DEF ForkAlloc
    <3>3. /\ proc'[q].state = "USED" /\ proc'[q].ctime = ticks /\ proc'[q].rtime = 0 /\ proc'[q].etime = 0
          /\ \A r \in Procs \ {q} : proc'[r] = proc[r]
      BY <3>2, Now DEF Typed, Allocated
    <3>4. work.harts = 1 => clk = 0
      <4>1. Free(h)
        BY <1>2 DEF ForkAlloc, In, Runs
      <4>2. work.harts = 1 => h = 1
        BY DEF Harts
      <4> QED  BY <4>1, <4>2 DEF Free
    <3>5. work.harts = 1 => Charged = ticks /\ Charged' = ticks
      BY <1>1, <3>4 DEF Charged
    <3>6. Charged' = Charged
      BY <1>1 DEF Charged
    <3>7. ticks' \in Nat /\ \A r \in Procs : proc'[r].ctime \in Nat /\ proc'[r].rtime \in Nat /\ proc'[r].etime \in Nat
      BY <1>1, <3>3 DEF TimeOK
    <3>8. work.harts = 1 => \A r \in Procs :
            /\ proc'[r].state \notin Gone => proc'[r].ctime + proc'[r].rtime <= Charged'
            /\ proc'[r].state = "ZOMBIE" => proc'[r].ctime + proc'[r].rtime <= proc'[r].etime
      BY <1>1, <3>3, <3>5 DEF TimeOK
    <3> QED  BY <1>1, <3>7, <3>8 DEF TimeOK, Procs
  <2> QED  BY <2>1, <2>2
<1>3. CASE ForkRun(h, p)
  <2>1. Forking(p)
    BY <1>3 DEF ForkRun, In, Forking
  <2>2. PICK q \in Procs : q = kern[p].child /\ proc[q].state = "USED"
    BY <2>1 DEF IInv, ForkOK
  <2> DEFINE made == [proc EXCEPT ![q].parent = p, ![q].tickets = proc[p].tickets, ![q].state = "RUNNABLE"]
  <2>3. /\ Typed(made) /\ made[q].state = "RUNNABLE" /\ \A r \in Procs \ {q} : made[r].state = proc[r].state
        /\ \A r \in Procs : SameTimes(made[r], proc[r])
    BY Now DEF Typed, SameTimes
  <2>4. proc' = Returned(made, p, proc[q].pid)
    BY <1>3, <2>2 DEF ForkRun
  <2> HIDE DEF made
  <2>5. \A r \in Procs : proc'[r].state = made[r].state /\ SameTimes(proc'[r], made[r])
    BY <2>3, <2>4, ReturnedFact, ReturnedKept
  <2>6. Kept(proc')
    BY <2>2, <2>3, <2>5 DEF Kept, SameTimes, Gone
  <2> QED  BY <1>1, <2>6, KeptStep
<1> QED  BY <1>2, <1>3

LEMMA ExitTimes == ASSUME TInv, NEW h \in Harts, NEW p \in Procs, SysExit(h, p) PROVE TimeOK'
<1> USE DEF TInv
<1>1. work' = work /\ ticks' = ticks /\ clk' = clk /\ Runs(h, p)
  BY DEF SysExit, In
<1> DEFINE orphans == [q \in Procs |-> IF q \in Children(p) THEN [proc[q] EXCEPT !.parent = InitProc] ELSE proc[q]]
           adopted == IF Children(p) = {} THEN orphans ELSE Woken(orphans, InitProc)
           heard == Woken(adopted, proc[p].parent)
<1>2. Typed(orphans) /\ Kept(orphans)
  BY Now DEF Typed, Kept, SameTimes
<1>3. proc' = [heard EXCEPT ![p].state = "ZOMBIE", ![p].xstate = kern[p].n, ![p].etime = ticks]
  BY DEF SysExit
<1> HIDE DEF orphans
<1>4. Typed(adopted) /\ Kept(adopted)
  BY <1>2, WokenFact, WokenKept DEF Kept, SameTimes, Gone
<1> HIDE DEF adopted
<1>5. Typed(heard) /\ Kept(heard)
  BY <1>4, WokenFact, WokenKept DEF Kept, SameTimes, Gone
<1> HIDE DEF heard
<1>6. /\ proc'[p].state = "ZOMBIE" /\ proc'[p].etime = ticks
      /\ proc'[p].ctime = proc[p].ctime /\ proc'[p].rtime = proc[p].rtime
      /\ \A q \in Procs \ {p} : proc'[q] = heard[q]
  BY <1>3, <1>5 DEF Typed, Kept, SameTimes
<1>7. proc[p].state = "RUNNING"
  BY <1>1, RunsFact
<1>8. work.harts = 1 => Charged = ticks
  BY <1>1 DEF Runs, Free, Harts, Charged
<1>9. Charged' = Charged
  BY <1>1 DEF Charged
<1>10. \A q \in Procs \ {p} :
         /\ proc'[q].ctime = proc[q].ctime /\ proc'[q].rtime = proc[q].rtime /\ proc'[q].etime = proc[q].etime
         /\ proc'[q].state \notin Gone => proc[q].state \notin Gone
         /\ proc'[q].state = "ZOMBIE" => proc[q].state = "ZOMBIE"
  BY <1>5, <1>6 DEF Kept, SameTimes, Gone
<1>11. ticks' \in Nat /\ \A q \in Procs : proc'[q].ctime \in Nat /\ proc'[q].rtime \in Nat /\ proc'[q].etime \in Nat
  BY <1>1, <1>6, <1>10 DEF TimeOK
<1>12. work.harts = 1 => proc'[p].ctime + proc'[p].rtime <= proc'[p].etime
  BY <1>6, <1>7, <1>8 DEF TimeOK, Gone
<1>13. work.harts = 1 => \A q \in Procs :
         /\ proc'[q].state \notin Gone => proc'[q].ctime + proc'[q].rtime <= Charged'
         /\ proc'[q].state = "ZOMBIE" => proc'[q].ctime + proc'[q].rtime <= proc'[q].etime
  BY <1>6, <1>9, <1>10, <1>12 DEF TimeOK, Gone
<1> QED  BY <1>1, <1>11, <1>13 DEF TimeOK, Procs

LEMMA SleepsKept ==
  ASSUME TInv, NEW h \in Harts, NEW p \in Procs, Runs(h, p), NEW chan, Sleeps(h, p, chan)
  PROVE  Kept(proc')
<1>1. proc[p].state = "RUNNING"
  BY RunsFact DEF TInv
<1>2. proc' = [proc EXCEPT ![p].state = "SLEEPING", ![p].chan = chan]
  BY DEF Sleeps
<1> QED  BY <1>1, <1>2, Now DEF Typed, Kept, SameTimes, Gone, TInv

LEMMA WaitTimes ==
  ASSUME TInv, NEW h \in Harts, NEW p \in Procs, SysWait(h, p) \/ SysSleep(h, p)
  PROVE  TimeOK'
<1> USE DEF TInv
<1>1. work' = work /\ ticks' = ticks /\ clk' = clk /\ Runs(h, p)
  BY DEF SysWait, SysSleep
<1>2. \/ \E v : proc' = Returned(proc, p, v)
      \/ \E chan : Sleeps(h, p, chan)
      \/ \E q \in Procs : q = Min(Zombies(p)) /\ Zombies(p) # {} /\
           \/ proc' = Returned(Reaped(p, q), p, proc[q].pid)
           \/ proc' = Returned([proc EXCEPT ![q] = Freed(@)], p, proc[q].pid)
  <2>1. CASE SysSleep(h, p)
    BY <2>1 DEF SysSleep
  <2>2. CASE SysWait(h, p) /\ Zombies(p) = {}
    BY <2>2 DEF SysWait
  <2>3. CASE SysWait(h, p) /\ Zombies(p) # {}
    <3>1. Children(p) # {}
      BY <2>3 DEF Zombies
    <3>2. PICK q \in Procs : q = Min(Zombies(p))
      BY <2>3, MinFact DEF Zombies, Children
    <3> QED  BY <2>3, <3>1, <3>2 DEF SysWait
  <2> QED  BY <2>1, <2>2, <2>3
<1>3. ASSUME NEW v, proc' = Returned(proc, p, v) PROVE Kept(proc')
  BY <1>3, Now, ReturnedFact, ReturnedKept DEF Kept
<1>4. ASSUME NEW chan, Sleeps(h, p, chan) PROVE Kept(proc')
  BY <1>1, <1>4, SleepsKept
<1>5. ASSUME NEW q \in Procs, proc' = Returned(Reaped(p, q), p, proc[q].pid) PROVE Kept(proc')
  <2>1. Typed(Reaped(p, q)) /\ \A r \in Procs : SameTimes(Reaped(p, q)[r], proc[r])
    BY Now DEF Typed, Reaped, Freed, SameTimes
  <2>2. \A r \in Procs : Reaped(p, q)[r].state \in {"UNUSED", proc[r].state}
    BY Now DEF Typed, Reaped, Freed
  <2> QED  BY <1>5, <2>1, <2>2, ReturnedFact, ReturnedKept DEF Kept, SameTimes
<1>6. ASSUME NEW q \in Procs, proc' = Returned([proc EXCEPT ![q] = Freed(@)], p, proc[q].pid) PROVE Kept(proc')
  <2> DEFINE freed == [proc EXCEPT ![q] = Freed(@)]
  <2>1. Typed(freed) /\ \A r \in Procs : SameTimes(freed[r], proc[r]) /\ freed[r].state \in {"UNUSED", proc[r].state}
    BY Now DEF Typed, Freed, SameTimes
  <2>2. proc' = Returned(freed, p, proc[q].pid)
    BY <1>6
  <2> HIDE DEF freed
  <2> QED  BY <2>1, <2>2, ReturnedFact, ReturnedKept DEF Kept, SameTimes
<1> QED  BY <1>1, <1>2, <1>3, <1>4, <1>5, <1>6, KeptStep

LEMMA InitTInv == Init => TInv
<1> SUFFICES ASSUME Init PROVE TInv
  OBVIOUS
<1>1. proc = [p \in Procs |-> IF p = InitProc THEN [Unused EXCEPT !.state = "RUNNABLE", !.pid = 1] ELSE Unused]
  BY DEF Init
<1>2. \A p \in Procs : proc[p].ctime = 0 /\ proc[p].rtime = 0 /\ proc[p].etime = 0
  BY <1>1 DEF Unused
<1>3. ticks = 0 /\ clk = 0
  BY DEF Init
<1> QED  BY <1>2, <1>3, InitIInv DEF TInv, TimeOK, Charged

LEMMA StepTimes == ASSUME TInv, [Next]_vars PROVE TInv'
<1>1. IInv'
  BY StepKeeps DEF TInv
<1>2. ASSUME UNCHANGED vars PROVE TimeOK'
  <2>1. work' = work /\ ticks' = ticks /\ clk' = clk /\ proc' = proc
    BY <1>2 DEF vars
  <2> QED  BY <2>1, KeptStep DEF Kept, SameTimes
<1>3. ASSUME NEW h \in Harts, NEW p \in Procs, Process(h, p) PROVE TimeOK'
  BY <1>3, UserTimes, ForkTimes, ExitTimes, WaitTimes DEF Process
<1>4. TimeOK'
  <2>1. ASSUME NEW h \in Harts, Total(h) \/ Draw(h) \/ Take(h) PROVE TimeOK'
    BY <2>1, ScanTimes
  <2>2. ASSUME Late \/ Tick \/ UpdateTime \/ ClockEnd \/ \E h \in Harts : OtherTick(h) PROVE TimeOK'
    BY <2>2, ClockTimes
  <2> QED  BY <1>2, <1>3, <2>1, <2>2 DEF Next
<1> QED  BY <1>1, <1>4 DEF TInv

\* On one hart no process is charged more ticks than it has lived, so waitx() never
\* reports a negative waiting time as an unsigned one (proc.c: update_time(), waitx()).
THEOREM TimesAlwaysAdd == Spec => []TimesAdd
<1>1. TInv => TimesAdd
  <2> SUFFICES ASSUME TInv, work.harts = 1, NEW p \in Procs, proc[p].state # "UNUSED"
               PROVE  proc[p].ctime + proc[p].rtime <= IF proc[p].state = "ZOMBIE" THEN proc[p].etime ELSE ticks
    BY DEF TimesAdd
  <2> QED  BY DEF TInv, TimeOK, Charged, Gone
<1>2. TInv /\ [Next]_vars => TInv'
  BY StepTimes
<1> QED  BY <1>1, <1>2, InitTInv, PTL DEF Spec

-----------------------------------------------------------------------------
(* The calls of a set of processes, summed up.                             *)

\* g is what MapThenSumSet() folds: elements are taken out in the order CHOOSE has.
Folds(m, c, S, g) ==
  g = [s \in SUBSET S |-> IF s = {} THEN 0 ELSE LET x == CHOOSE x \in s : TRUE IN m[x][c] + g[s \ {x}]]
\* The order does not matter.
Sums(m, c, S, g) ==
  /\ g \in [SUBSET S -> Int] /\ g[{}] = 0
  /\ \A s \in SUBSET S : \A x \in s : g[s] = m[x][c] + g[s \ {x}]

LEMMA SumFolds == ASSUME NEW m, NEW c, NEW S PROVE CallsOf(S, m, c) = (CHOOSE g : Folds(m, c, S, g))[S]
BY DEF CallsOf, Folds, MapThenSumSet, MapThenFoldSet

\* A property of subsets of S that fails, fails first at one of least size.
LEMMA LeastSet ==
  ASSUME NEW S, IsFiniteSet(S), NEW F, F \subseteq SUBSET S, F # {}
  PROVE  \E s \in F : IsFiniteSet(s) /\ \A x \in s : s \ {x} \notin F
<1>1. \A s \in SUBSET S : IsFiniteSet(s) /\ Cardinality(s) \in Nat
  BY FS_Subset, FS_CardinalityType
<1> DEFINE B == {Cardinality(s) : s \in F}
<1>2. PICK n \in B : \A k \in B : n <= k
  <2>1. B \subseteq Nat /\ B # {}
    BY <1>1
  <2> QED  BY <2>1, LeastNat
<1>3. PICK s \in F : Cardinality(s) = n
  OBVIOUS
<1>4. ASSUME NEW x \in s, s \ {x} \in F PROVE FALSE
  <2>1. Cardinality(s \ {x}) = Cardinality(s) - 1
    BY <1>1, FS_RemoveElement
  <2>2. n <= Cardinality(s \ {x})
    BY <1>2, <1>4
  <2> QED  BY <1>1, <1>3, <2>1, <2>2
<1> QED  BY <1>1, <1>4

LEMMA SumsExist ==
  ASSUME NEW m, NEW c, NEW S, IsFiniteSet(S), \A x \in S : m[x][c] \in Int
  PROVE  \E g : Sums(m, c, S, g)
<1> DEFINE F == {T \in SUBSET S : ~\E g : Sums(m, c, T, g)}
<1>1. SUFFICES ASSUME S \in F PROVE FALSE
  OBVIOUS
<1>2. PICK T \in F : \A x \in T : T \ {x} \notin F
  <2>1. F \subseteq SUBSET S /\ F # {}
    BY <1>1
  <2> QED  BY <2>1, LeastSet
<1>3. T # {}
  <2>1. Sums(m, c, {}, [s \in SUBSET {} |-> 0])
    BY DEF Sums
  <2> QED  BY <1>2, <2>1
<1>4. PICK x \in T : TRUE
  BY <1>3
<1>5. PICK g : Sums(m, c, T \ {x}, g)
  BY <1>2, <1>4
<1> DEFINE h == [s \in SUBSET T |-> g[s \ {x}] + IF x \in s THEN m[x][c] ELSE 0]
<1>6. m[x][c] \in Int /\ \A s \in SUBSET T : g[s \ {x}] \in Int
  BY <1>5 DEF Sums
<1>7. h \in [SUBSET T -> Int] /\ h[{}] = 0
  <2>1. h[{}] = g[{} \ {x}] + 0 /\ {} \ {x} = {}
    OBVIOUS
  <2>2. h \in [SUBSET T -> Int]
    BY <1>6
  <2> QED  BY <1>5, <2>1, <2>2 DEF Sums
<1>8. ASSUME NEW s \in SUBSET T, NEW y \in s PROVE h[s] = m[y][c] + h[s \ {y}]
  <2>1. s \ {y} \in SUBSET T /\ m[y][c] \in Int
    OBVIOUS
  <2>2. CASE y = x
    <3>1. h[s] = g[s \ {x}] + m[x][c]
      BY <2>2
    <3>2. h[s \ {y}] = g[(s \ {x}) \ {x}] + 0
      BY <2>1, <2>2
    <3>3. g[(s \ {x}) \ {x}] = g[s \ {x}] /\ g[s \ {x}] \in Int
      <4>1. (s \ {x}) \ {x} = s \ {x}
        OBVIOUS
      <4> QED  BY <1>6, <4>1
    <3> HIDE DEF h
    <3> QED  BY <1>6, <2>2, <3>1, <3>2, <3>3
  <2>3. CASE y # x
    <3>1. g[s \ {x}] = m[y][c] + g[(s \ {x}) \ {y}]
      BY <1>5, <2>3 DEF Sums
    <3>2. (s \ {x}) \ {y} = (s \ {y}) \ {x}
      OBVIOUS
    <3>3. h[s \ {y}] = g[(s \ {x}) \ {y}] + IF x \in s THEN m[x][c] ELSE 0
      BY <2>1, <2>3, <3>2
    <3>4. g[(s \ {x}) \ {y}] \in Int
      BY <1>6, <2>1, <3>2
    <3> QED  BY <1>6, <2>1, <3>1, <3>3, <3>4
  <2> QED  BY <2>2, <2>3
<1>9. Sums(m, c, T, h)
  BY <1>7, <1>8 DEF Sums
<1> QED  BY <1>2, <1>9

LEMMA SumIs ==
  ASSUME NEW m, NEW c, NEW S, IsFiniteSet(S), NEW g, Sums(m, c, S, g)
  PROVE  CallsOf(S, m, c) = g[S]
<1> DEFINE f == CHOOSE f : Folds(m, c, S, f)
<1>1. Folds(m, c, S, g)
  <2> DEFINE e == [s \in SUBSET S |-> IF s = {} THEN 0 ELSE LET x == CHOOSE x \in s : TRUE IN m[x][c] + g[s \ {x}]]
  <2>1. ASSUME NEW s \in SUBSET S PROVE g[s] = e[s]
    <3>1. CASE s = {}
      BY <3>1 DEF Sums
    <3>2. CASE s # {}
      <4>1. PICK x \in s : x = CHOOSE y \in s : TRUE
        BY <3>2
      <4> QED  BY <3>2, <4>1 DEF Sums
    <3> QED  BY <3>1, <3>2
  <2>2. g = e
    BY <2>1 DEF Sums
  <2> QED  BY <2>2 DEF Folds
<1>2. Folds(m, c, S, f)
  BY <1>1
<1>3. CallsOf(S, m, c) = f[S]
  BY SumFolds
<1> HIDE DEF f
<1> DEFINE F == {s \in SUBSET S : f[s] # g[s]}
<1>4. F = {}
  <2>1. SUFFICES ASSUME F # {} PROVE FALSE
    OBVIOUS
  <2>2. PICK s \in F : \A x \in s : s \ {x} \notin F
    <3>1. F \subseteq SUBSET S
      OBVIOUS
    <3> QED  BY <2>1, <3>1, LeastSet
  <2>3. f[s] = IF s = {} THEN 0 ELSE LET x == CHOOSE x \in s : TRUE IN m[x][c] + f[s \ {x}]
    BY <1>2 DEF Folds
  <2>4. CASE s = {}
    BY <2>3, <2>4 DEF Sums
  <2>5. CASE s # {}
    <3>1. PICK x \in s : x = CHOOSE y \in s : TRUE
      BY <2>5
    <3>2. f[s] = m[x][c] + f[s \ {x}] /\ g[s] = m[x][c] + g[s \ {x}]
      BY <2>3, <2>5, <3>1 DEF Sums
    <3>3. f[s \ {x}] = g[s \ {x}]
      BY <2>2
    <3> QED  BY <3>2, <3>3
  <2> QED  BY <2>4, <2>5
<1> QED  BY <1>3, <1>4

LEMMA SumTake ==
  ASSUME NEW m, NEW c, NEW S, IsFiniteSet(S), \A x \in S : m[x][c] \in Int, NEW x \in S
  PROVE  CallsOf(S, m, c) = m[x][c] + CallsOf(S \ {x}, m, c) /\ CallsOf(S \ {x}, m, c) \in Int
<1>1. PICK g : Sums(m, c, S, g)
  BY SumsExist
<1> DEFINE h == [s \in SUBSET (S \ {x}) |-> g[s]]
<1>2. Sums(m, c, S \ {x}, h)
  <2>1. h \in [SUBSET (S \ {x}) -> Int] /\ h[{}] = 0
    BY <1>1 DEF Sums
  <2>2. ASSUME NEW s \in SUBSET (S \ {x}), NEW y \in s PROVE h[s] = m[y][c] + h[s \ {y}]
    BY <1>1 DEF Sums
  <2> QED  BY <2>1, <2>2 DEF Sums
<1>3. IsFiniteSet(S \ {x})
  BY FS_RemoveElement
<1>4. CallsOf(S, m, c) = g[S] /\ CallsOf(S \ {x}, m, c) = h[S \ {x}]
  BY <1>1, <1>2, <1>3, SumIs
<1>5. h[S \ {x}] = g[S \ {x}] /\ g[S \ {x}] \in Int
  BY <1>1 DEF Sums
<1> QED  BY <1>1, <1>4, <1>5 DEF Sums

LEMMA SumOne == ASSUME NEW m, NEW c, NEW x, m[x][c] \in Int PROVE CallsOf({x}, m, c) = m[x][c]
<1> DEFINE g == [s \in SUBSET {x} |-> IF s = {} THEN 0 ELSE m[x][c]]
<1>1. Sums(m, c, {x}, g)
  <2>1. ASSUME NEW s \in SUBSET {x}, NEW y \in s PROVE g[s] = m[y][c] + g[s \ {y}]
    <3>1. y = x /\ s = {x} /\ s \ {y} = {}
      OBVIOUS
    <3> QED  BY <3>1
  <2> QED  BY <2>1 DEF Sums
<1>2. IsFiniteSet({x})
  BY FS_Singleton
<1> QED  BY <1>1, <1>2, SumIs

LEMMA SumBoth ==
  ASSUME NEW m, NEW c, NEW A, NEW B, IsFiniteSet(A), IsFiniteSet(B), A \cap B = {},
         \A x \in A \cup B : m[x][c] \in Int
  PROVE  CallsOf(A \cup B, m, c) = CallsOf(A, m, c) + CallsOf(B, m, c)
<1>1. IsFiniteSet(A \cup B)
  BY FS_Union
<1>2. PICK g : Sums(m, c, A \cup B, g)
  BY <1>1, SumsExist
<1> DEFINE f == [s \in SUBSET A |-> g[s]]
           h == [s \in SUBSET B |-> g[A \cup s] - g[A]]
<1>3. Sums(m, c, A, f)
  <2>1. f \in [SUBSET A -> Int] /\ f[{}] = 0
    BY <1>2 DEF Sums
  <2>2. ASSUME NEW s \in SUBSET A, NEW y \in s PROVE f[s] = m[y][c] + f[s \ {y}]
    BY <1>2 DEF Sums
  <2> QED  BY <2>1, <2>2 DEF Sums
<1>4. Sums(m, c, B, h)
  <2>1. g[A] \in Int /\ \A s \in SUBSET B : g[A \cup s] \in Int
    BY <1>2 DEF Sums
  <2>2. h \in [SUBSET B -> Int] /\ h[{}] = 0
    <3>1. g[A \cup {}] = g[A]
      <4>1. A \cup {} = A
        OBVIOUS
      <4> QED  BY <4>1
    <3>2. h[{}] = g[A \cup {}] - g[A]
      OBVIOUS
    <3>3. h \in [SUBSET B -> Int]
      BY <2>1
    <3> HIDE DEF h
    <3> QED  BY <2>1, <3>1, <3>2, <3>3
  <2>3. ASSUME NEW s \in SUBSET B, NEW y \in s PROVE h[s] = m[y][c] + h[s \ {y}]
    <3>1. A \cup (s \ {y}) = (A \cup s) \ {y} /\ A \cup s \in SUBSET (A \cup B) /\ y \in A \cup s /\ s \ {y} \in SUBSET B
      OBVIOUS
    <3>2. g[A \cup s] = m[y][c] + g[A \cup (s \ {y})]
      BY <1>2, <3>1 DEF Sums
    <3>3. m[y][c] \in Int
      OBVIOUS
    <3>4. h[s] = g[A \cup s] - g[A] /\ h[s \ {y}] = g[A \cup (s \ {y})] - g[A]
      BY <3>1
    <3>5. g[A \cup s] \in Int /\ g[A \cup (s \ {y})] \in Int
      BY <2>1, <3>1
    <3> HIDE DEF h
    <3> QED  BY <2>1, <3>2, <3>3, <3>4, <3>5
  <2> QED  BY <2>2, <2>3 DEF Sums
<1>5. CallsOf(A \cup B, m, c) = g[A \cup B] /\ CallsOf(A, m, c) = g[A] /\ CallsOf(B, m, c) = g[A \cup B] - g[A]
  <2>1. CallsOf(A \cup B, m, c) = g[A \cup B]
    BY <1>1, <1>2, SumIs
  <2>2. CallsOf(A, m, c) = f[A] /\ f[A] = g[A]
    BY <1>3, SumIs
  <2>3. h[B] = g[A \cup B] - g[A]
    OBVIOUS
  <2>4. CallsOf(B, m, c) = h[B]
    <3> HIDE DEF h
    <3> QED  BY <1>4, SumIs
  <2> HIDE DEF h, f
  <2> QED  BY <2>1, <2>2, <2>3, <2>4
<1>6. g[A] \in Int /\ g[A \cup B] \in Int
  BY <1>2 DEF Sums
<1> QED  BY <1>5, <1>6

LEMMA SumSame ==
  ASSUME NEW m, NEW n, NEW c, NEW S, IsFiniteSet(S), \A x \in S : m[x][c] \in Int /\ n[x][c] = m[x][c]
  PROVE  CallsOf(S, n, c) = CallsOf(S, m, c)
<1>1. PICK g : Sums(m, c, S, g)
  BY SumsExist
<1>2. Sums(n, c, S, g)
  BY <1>1 DEF Sums
<1> QED  BY <1>1, <1>2, SumIs

-----------------------------------------------------------------------------
(* The counts of getSysCount().                                            *)

Pids == 1..(nextpid - 1)
Slot(procs, p) ==
  /\ {"state", "pid", "counts"} \subseteq DOMAIN procs[p] /\ DOMAIN procs[p].counts = Calls
  /\ \A c \in Calls : procs[p].counts[c] \in Nat
Slots(procs) == DOMAIN procs = Procs /\ \A p \in Procs : Slot(procs, p)

\* Every pid is accounted for in one slot at most, that of its process among them.
PastOK ==
  /\ nextpid \in Nat \ {0}
  /\ {"made", "heirs"} \subseteq DOMAIN seen
  /\ DOMAIN seen.made = Pids
  /\ \A pid \in Pids : DOMAIN seen.made[pid] = Calls /\ \A c \in Calls : seen.made[pid][c] \in Nat
  /\ DOMAIN seen.heirs = Procs /\ \A p \in Procs : seen.heirs[p] \subseteq Pids
  /\ \A p, q \in Procs : p # q => seen.heirs[p] \cap seen.heirs[q] = {}
CountOK ==
  /\ Slots(proc)
  /\ \A p \in Procs : proc[p].state # "UNUSED" => proc[p].pid \in seen.heirs[p]
  /\ CountsExact

CInv == IInv /\ PastOK /\ CountOK

\* A step with which nobody comes or goes and no call is counted.
Alike(procs, others) == Slots(procs) /\ \A p \in Procs :
  /\ procs[p].pid = others[p].pid /\ procs[p].counts = others[p].counts
  /\ procs[p].state = "UNUSED" <=> others[p].state = "UNUSED"
SameSeen ==
  {"made", "heirs"} \subseteq DOMAIN seen' /\ seen'.made = seen.made /\ seen'.heirs = seen.heirs /\ nextpid' = nextpid

LEMMA HeirsFact ==
  ASSUME PastOK, NEW p \in Procs
  PROVE  /\ IsFiniteSet(seen.heirs[p]) /\ seen.heirs[p] \subseteq Pids
         /\ \A c \in Calls : \A x \in seen.heirs[p] : seen.made[x][c] \in Nat
<1>1. IsFiniteSet(Pids)
  BY FS_Interval DEF Pids, PastOK
<1>2. seen.heirs[p] \in SUBSET Pids
  BY DEF PastOK
<1> QED  BY <1>1, <1>2, FS_Subset DEF PastOK

LEMMA AlikeStep == ASSUME CInv, Alike(proc', proc), SameSeen PROVE PastOK' /\ CountOK'
<1> USE DEF CInv
<1>1. PastOK'
  BY DEF PastOK, SameSeen, Pids, Procs
<1>2. \A p \in Procs : proc'[p].state # "UNUSED" => proc'[p].pid \in seen'.heirs[p]
  BY DEF Alike, SameSeen, CountOK
<1>3. \A p \in Procs : proc'[p].state # "UNUSED" =>
        \A c \in Calls : proc'[p].counts[c] = CallsOf(seen'.heirs[p], seen'.made, c)
  BY DEF Alike, SameSeen, CountOK, CountsExact
<1>4. Slots(proc')
  BY DEF Alike
<1> QED  BY <1>1, <1>2, <1>3, <1>4 DEF CountOK, CountsExact, Slots, Slot, Procs, Calls

LEMMA AlikeSelf == ASSUME NEW procs, Slots(procs) PROVE Alike(procs, procs)
BY DEF Alike

LEMMA AlikeTwice ==
  ASSUME NEW f, NEW g, NEW e, Alike(g, f), Alike(f, e)
  PROVE  Alike(g, e)
BY DEF Alike

LEMMA WokenAlike == ASSUME NEW procs, NEW chan, Slots(procs) PROVE Alike(Woken(procs, chan), procs)
<1> DEFINE w == Woken(procs, chan)
<1>1. DOMAIN w = Procs
  BY DEF Woken
<1>2. \A p \in Procs : w[p] = procs[p] \/ (procs[p].state = "SLEEPING" /\ w[p] = [procs[p] EXCEPT !.state = "RUNNABLE"])
  BY DEF Woken
<1> HIDE DEF w
<1>3. ASSUME NEW p \in Procs
      PROVE  /\ Slot(w, p) /\ w[p].pid = procs[p].pid /\ w[p].counts = procs[p].counts
             /\ w[p].state = "UNUSED" <=> procs[p].state = "UNUSED"
  <2>1. CASE w[p] = procs[p]
    BY <2>1 DEF Slots, Slot
  <2>2. CASE procs[p].state = "SLEEPING" /\ w[p] = [procs[p] EXCEPT !.state = "RUNNABLE"]
    BY <2>2 DEF Slots, Slot
  <2> QED  BY <1>2, <2>1, <2>2
<1> QED  BY <1>1, <1>3 DEF Alike, Slots, w

\* A step that changes one slot, and in it neither pid, counts nor whether it is used.
LEMMA OneAlike ==
  ASSUME NEW f, NEW g, Slots(f), NEW p \in Procs, DOMAIN g = Procs, \A q \in Procs \ {p} : g[q] = f[q],
         DOMAIN g[p] = DOMAIN f[p], g[p].pid = f[p].pid, g[p].counts = f[p].counts,
         g[p].state = "UNUSED" <=> f[p].state = "UNUSED"
  PROVE  Alike(g, f)
<1>1. \A q \in Procs : Slot(g, q)
  BY DEF Slots, Slot
<1> QED  BY <1>1 DEF Alike, Slots

LEMMA ReturnedAlike ==
  ASSUME NEW procs, Slots(procs), NEW p \in Procs, NEW v
  PROVE  Alike(Returned(procs, p, v), procs)
<1> DEFINE r == Returned(procs, p, v)
<1>1. /\ DOMAIN r = Procs /\ \A q \in Procs \ {p} : r[q] = procs[q]
      /\ DOMAIN r[p] = DOMAIN procs[p] /\ r[p].pid = procs[p].pid /\ r[p].counts = procs[p].counts
      /\ r[p].state = procs[p].state
  BY DEF Returned, Slots, Slot
<1> HIDE DEF r
<1>2. Alike(r, procs)
  BY <1>1, OneAlike
<1> QED  BY <1>2 DEF r

LEMMA CNow == ASSUME CInv PROVE IInv /\ Slots(proc) /\ Alike(proc, proc) /\ PastOK
BY AlikeSelf DEF CInv, CountOK

-----------------------------------------------------------------------------
\* The scheduler and the clock.
LEMMA ScanCounts == ASSUME CInv, NEW h \in Harts, Total(h) \/ Draw(h) \/ Take(h) PROVE PastOK' /\ CountOK'
<1>1. SameSeen
  BY CNow DEF Total, Draw, Take, SameSeen, PastOK
<1>2. Alike(proc', proc)
  <2>1. CASE proc' = proc
    BY <2>1, CNow
  <2>2. CASE proc' # proc
    <3>1. PICK p \in Procs : proc[p].state = "RUNNABLE" /\ proc' = [proc EXCEPT ![p].state = "RUNNING"]
      BY <2>2 DEF Total, Draw, Take, Ready
    <3>2. /\ DOMAIN proc' = Procs /\ \A q \in Procs \ {p} : proc'[q] = proc[q]
          /\ DOMAIN proc'[p] = DOMAIN proc[p] /\ proc'[p].pid = proc[p].pid /\ proc'[p].counts = proc[p].counts
          /\ proc'[p].state = "RUNNING"
      BY <3>1, CNow DEF Slots, Slot
    <3> QED  BY <3>1, <3>2, CNow, OneAlike
  <2> QED  BY <2>1, <2>2
<1> QED  BY <1>1, <1>2, AlikeStep

LEMMA TrapAlike ==
  ASSUME CInv, NEW h \in Harts, NEW procs, Alike(procs, proc), TrapEnd(h, procs), nextpid' = nextpid
  PROVE  Alike(proc', proc) /\ SameSeen
<1>1. CASE hart[h].proc = None
  BY <1>1, CNow DEF TrapEnd, SameSeen, PastOK
<1>2. CASE hart[h].proc # None
  <2>1. PICK p \in Procs : p = hart[h].proc /\ proc[p].state = "RUNNING"
    BY <1>2, CNow DEF IInv, TypeOK, OneHart
  <2> DEFINE alone == [procs EXCEPT ![p].state = "RUNNABLE"]
  <2>2. /\ DOMAIN alone = Procs /\ \A q \in Procs \ {p} : alone[q] = procs[q]
        /\ DOMAIN alone[p] = DOMAIN procs[p] /\ alone[p].pid = procs[p].pid /\ alone[p].counts = procs[p].counts
        /\ alone[p].state = "RUNNABLE"
    BY DEF Alike, Slots, Slot
  <2>3. /\ \/ proc' = alone
           \/ proc' = [alone EXCEPT ![p].tickcounter = @ + 1]
           \/ \E g \in Pages : proc' = [alone EXCEPT ![p] = Alarm(@, g)]
        /\ seen' = seen \/ seen' = [seen EXCEPT !.cut[p] = proc[p].tf]
    BY <1>2, <2>1 DEF TrapEnd
  <2> HIDE DEF alone
  <2>4. Alike(alone, procs)
    <3>1. procs[p].state # "UNUSED" /\ Slots(procs)
      BY <2>1 DEF Alike
    <3> QED  BY <2>2, <3>1, OneAlike
  <2>5. Slots(alone)
    BY <2>4 DEF Alike
  <2>6. Alike(proc', alone)
    <3>1. CASE proc' = alone
      BY <2>5, <3>1, AlikeSelf
    <3>2. CASE proc' # alone
      <4>1. /\ DOMAIN proc' = Procs /\ \A q \in Procs \ {p} : proc'[q] = alone[q]
            /\ DOMAIN proc'[p] = DOMAIN alone[p] /\ proc'[p].pid = alone[p].pid /\ proc'[p].counts = alone[p].counts
            /\ proc'[p].state = alone[p].state
        <5>1. CASE proc' = [alone EXCEPT ![p].tickcounter = @ + 1]
          BY <2>5, <5>1 DEF Slots, Slot
        <5>2. ASSUME NEW g \in Pages, proc' = [alone EXCEPT ![p] = Alarm(@, g)]
              PROVE  /\ DOMAIN proc' = Procs /\ \A q \in Procs \ {p} : proc'[q] = alone[q]
                     /\ DOMAIN proc'[p] = DOMAIN alone[p] /\ proc'[p].pid = alone[p].pid
                     /\ proc'[p].counts = alone[p].counts /\ proc'[p].state = alone[p].state
          BY <2>5, <5>2 DEF Slots, Slot, Alarm
        <5> QED  BY <2>3, <3>2, <5>1, <5>2
      <4> QED  BY <2>5, <4>1, OneAlike
    <3> QED  BY <3>1, <3>2
  <2>7. SameSeen
    BY <2>3, CNow DEF SameSeen, PastOK
  <2> QED  BY <2>4, <2>6, <2>7, AlikeTwice
<1> QED  BY <1>1, <1>2

LEMMA ClockCounts ==
  ASSUME CInv, Late \/ Tick \/ UpdateTime \/ ClockEnd \/ \E h \in Harts : OtherTick(h)
  PROVE  PastOK' /\ CountOK'
<1>1. ASSUME Late \/ Tick PROVE PastOK' /\ CountOK'
  <2>1. SameSeen /\ proc' = proc
    BY <1>1, CNow DEF Late, Tick, vars, SameSeen, PastOK
  <2> QED  BY <2>1, CNow, AlikeStep
<1>2. CASE UpdateTime
  <2>1. SameSeen
    BY <1>2, CNow DEF UpdateTime, SameSeen, PastOK
  <2>2. PICK last : proc' = [p \in Procs |-> IF p \in clk..last /\ proc[p].state = "RUNNING"
                                            THEN [proc[p] EXCEPT !.rtime = @ + 1] ELSE proc[p]]
    BY <1>2 DEF UpdateTime
  <2>3. ASSUME NEW p \in Procs
        PROVE  /\ Slot(proc', p) /\ proc'[p].pid = proc[p].pid /\ proc'[p].counts = proc[p].counts
               /\ proc'[p].state = proc[p].state
    <3>1. proc'[p] = proc[p] \/ proc'[p] = [proc[p] EXCEPT !.rtime = @ + 1]
      BY <2>2
    <3> QED  BY <3>1, CNow DEF Slots, Slot
  <2>4. Alike(proc', proc)
    BY <2>2, <2>3 DEF Alike, Slots
  <2> QED  BY <2>1, <2>4, AlikeStep
<1>3. CASE ClockEnd
  <2>1. nextpid' = nextpid /\ TrapEnd(1, Woken(proc, TicksChan)) /\ 1 \in Harts
    BY <1>3, CNow DEF ClockEnd, IInv, TypeOK
  <2>2. Alike(Woken(proc, TicksChan), proc)
    BY CNow, WokenAlike
  <2> QED  BY <2>1, <2>2, TrapAlike, AlikeStep
<1>4. ASSUME NEW h \in Harts, OtherTick(h) PROVE PastOK' /\ CountOK'
  <2>1. nextpid' = nextpid /\ TrapEnd(h, proc)
    BY <1>4 DEF OtherTick
  <2> QED  BY <2>1, CNow, TrapAlike, AlikeStep
<1> QED  BY <1>1, <1>2, <1>3, <1>4

\* A process counts a call it makes: one more for whoever accounts for its pid, itself.
LEMMA EntersCounts == ASSUME CInv, NEW h \in Harts, NEW p \in Procs, Enters(h, p) PROVE PastOK' /\ CountOK'
<1> DEFINE pid == proc[p].pid
<1>1. PICK k \in Calls : /\ proc' = [proc EXCEPT ![p].tf.pc[2] = @ + 1, ![p].counts[k] = @ + 1]
                         /\ seen' = [seen EXCEPT !.made[pid][k] = @ + 1]
  BY DEF Enters
<1>2. nextpid' = nextpid /\ Runs(h, p)
  BY DEF Enters
<1>3. proc[p].state = "RUNNING" /\ pid \in seen.heirs[p]
  <2>1. proc[p].state = "RUNNING"
    BY <1>2, CNow, RunsFact
  <2> QED  BY <2>1 DEF CInv, CountOK
<1>4. pid \in Pids
  BY <1>3, CNow DEF PastOK
<1>5. /\ \A q \in Procs \ {p} : proc'[q] = proc[q]
      /\ DOMAIN proc' = Procs /\ DOMAIN proc'[p] = DOMAIN proc[p] /\ proc'[p].pid = pid
      /\ proc'[p].state = "RUNNING" /\ DOMAIN proc'[p].counts = Calls
      /\ proc'[p].counts[k] = proc[p].counts[k] + 1
      /\ \A c \in Calls \ {k} : proc'[p].counts[c] = proc[p].counts[c]
  BY <1>1, <1>3, CNow DEF Slots, Slot
<1>6. /\ {"made", "heirs"} \subseteq DOMAIN seen' /\ seen'.heirs = seen.heirs
      /\ DOMAIN seen'.made = Pids /\ \A x \in Pids \ {pid} : seen'.made[x] = seen.made[x]
      /\ DOMAIN seen'.made[pid] = Calls /\ seen'.made[pid][k] = seen.made[pid][k] + 1
      /\ \A c \in Calls \ {k} : seen'.made[pid][c] = seen.made[pid][c]
  BY <1>1, <1>4, CNow DEF PastOK
<1> HIDE DEF pid
<1>7. PastOK'
  <2>1. Pids' = Pids
    BY <1>2 DEF Pids
  <2>2. seen.made[pid][k] \in Nat
    BY <1>4, CNow DEF PastOK
  <2>3. \A x \in Pids : DOMAIN seen'.made[x] = Calls /\ \A c \in Calls : seen'.made[x][c] \in Nat
    BY <1>4, <1>6, <2>2, CNow DEF PastOK
  <2>4. nextpid' \in Nat \ {0}
    BY <1>2, CNow DEF PastOK
  <2>5. DOMAIN seen'.heirs = Procs /\ \A q \in Procs : seen'.heirs[q] \subseteq Pids
    BY <1>6, CNow DEF PastOK
  <2>6. \A q, r \in Procs : q # r => seen'.heirs[q] \cap seen'.heirs[r] = {}
    BY <1>6, CNow DEF PastOK
  <2> QED  BY <1>6, <2>1, <2>3, <2>4, <2>5, <2>6 DEF PastOK, Procs, Calls
<1>8. Slots(proc')
  <2>1. proc[p].counts[k] \in Nat
    BY CNow DEF Slots, Slot
  <2>2. Slot(proc', p)
    BY <1>5, <2>1, CNow DEF Slots, Slot
  <2>3. \A q \in Procs \ {p} : Slot(proc', q)
    BY <1>5, CNow DEF Slots, Slot
  <2> QED  BY <1>5, <2>2, <2>3 DEF Slots
<1>9. \A q \in Procs : proc'[q].state # "UNUSED" => proc'[q].pid \in seen'.heirs[q]
  BY <1>3, <1>5, <1>6 DEF CInv, CountOK
<1>10. ASSUME NEW q \in Procs, proc'[q].state # "UNUSED", NEW c \in Calls
       PROVE  proc'[q].counts[c] = CallsOf(seen'.heirs[q], seen'.made, c)
  <2> DEFINE S == seen.heirs[q]
  <2>1. IsFiniteSet(S) /\ S \subseteq Pids /\ \A x \in S : seen.made[x][c] \in Nat
    BY CNow, HeirsFact
  <2>2. proc[q].counts[c] = CallsOf(S, seen.made, c)
    BY <1>3, <1>5, <1>10 DEF CInv, CountOK, CountsExact
  <2>3. seen'.heirs[q] = S
    BY <1>6
  <2> HIDE DEF S
  <2>4. CASE q # p \/ c # k
    <3>1. proc'[q].counts[c] = proc[q].counts[c]
      BY <1>5, <2>4
    <3>2. \A x \in S : seen'.made[x][c] = seen.made[x][c]
      <4>1. CASE q # p
        <5>1. pid \notin S
          BY <1>3, <4>1, CNow DEF PastOK, S
        <5> QED  BY <1>6, <2>1, <5>1
      <4>2. CASE c # k
        BY <1>6, <2>1, <4>2
      <4> QED  BY <2>4, <4>1, <4>2
    <3>3. CallsOf(S, seen'.made, c) = CallsOf(S, seen.made, c)
      BY <2>1, <3>2, SumSame
    <3> QED  BY <2>2, <2>3, <3>1, <3>3
  <2>5. CASE q = p /\ c = k
    <3>1. pid \in S
      BY <1>3, <2>5 DEF S
    <3> DEFINE R == S \ {pid}
    <3>2. CallsOf(S, seen.made, c) = seen.made[pid][c] + CallsOf(R, seen.made, c) /\ CallsOf(R, seen.made, c) \in Int
      BY <2>1, <3>1, SumTake
    <3>3. CallsOf(S, seen'.made, c) = seen'.made[pid][c] + CallsOf(R, seen'.made, c)
      <4>1. \A x \in S : seen'.made[x][c] \in Int
        BY <1>6, <2>1, <2>5, <3>1
      <4> QED  BY <2>1, <3>1, <4>1, SumTake
    <3>4. CallsOf(R, seen'.made, c) = CallsOf(R, seen.made, c)
      <4>1. IsFiniteSet(R)
        BY <2>1, FS_RemoveElement
      <4>2. \A x \in R : seen.made[x][c] \in Int /\ seen'.made[x][c] = seen.made[x][c]
        BY <1>6, <2>1
      <4> QED  BY <4>1, <4>2, SumSame
    <3>5. seen'.made[pid][c] = seen.made[pid][c] + 1 /\ seen.made[pid][c] \in Nat
      BY <1>6, <2>1, <2>5, <3>1
    <3>6. proc'[q].counts[c] = proc[q].counts[c] + 1
      BY <1>5, <2>5
    <3> HIDE DEF R
    <3> QED  BY <2>2, <2>3, <3>2, <3>3, <3>4, <3>5, <3>6
  <2> QED  BY <2>4, <2>5
<1>11. CountsExact'
  BY <1>10 DEF CountsExact, Procs, Calls
<1> QED  BY <1>7, <1>8, <1>9, <1>11 DEF CountOK, Slots, Slot, Procs, Calls

\* In user mode, and in the calls that touch the caller alone.
LEMMA AloneCounts ==
  ASSUME CInv, NEW h \in Harts, NEW p \in Procs,
         Computes(h, p) \/ SysSimple(h, p) \/ SysExec(h, p) \/ SysSigreturn(h, p)
  PROVE  PastOK' /\ CountOK'
<1>1. SameSeen
  <2>1. {"made", "heirs"} \subseteq DOMAIN seen /\ nextpid' = nextpid
    BY CNow DEF PastOK, Computes, SysSimple, SysExec, SysSigreturn
  <2>2. \/ seen' = seen
        \/ \E cut : seen' = [seen EXCEPT !.cut[p] = cut]
        \/ \E failed : seen' = [seen EXCEPT !.failed = failed]
    BY DEF Computes, SysSimple, SysExec, SysSigreturn
  <2> QED  BY <2>1, <2>2 DEF SameSeen
<1>2. CASE SysSimple(h, p)
  <2>1. kern[p].call \in {"write", "sigalarm", "settickets", "getSysCount"} /\ proc' = Simple(p)
    BY <1>2 DEF SysSimple
  <2> DEFINE armed == [proc EXCEPT ![p].alarm = TRUE, ![p].alarmticks = kern[p].n, ![p].handler = kern[p].handler]
             given == [proc EXCEPT ![p].tickets = kern[p].n]
  <2>2. Alike(armed, proc)
    <3>1. /\ DOMAIN armed = Procs /\ \A q \in Procs \ {p} : armed[q] = proc[q]
          /\ DOMAIN armed[p] = DOMAIN proc[p] /\ armed[p].pid = proc[p].pid /\ armed[p].counts = proc[p].counts
          /\ armed[p].state = proc[p].state
      BY CNow DEF Slots, Slot
    <3> HIDE DEF armed
    <3> QED  BY <3>1, CNow, OneAlike
  <2>3. Alike(given, proc)
    <3>1. /\ DOMAIN given = Procs /\ \A q \in Procs \ {p} : given[q] = proc[q]
          /\ DOMAIN given[p] = DOMAIN proc[p] /\ given[p].pid = proc[p].pid /\ given[p].counts = proc[p].counts
          /\ given[p].state = proc[p].state
      BY CNow DEF Slots, Slot
    <3> HIDE DEF given
    <3> QED  BY <3>1, CNow, OneAlike
  <2>4. \E v : proc' = Returned(proc, p, v) \/ proc' = Returned(armed, p, v) \/ proc' = Returned(given, p, v)
    BY <2>1 DEF Simple
  <2> HIDE DEF armed, given
  <2>5. Alike(proc', proc)
    <3>1. Slots(armed) /\ Slots(given)
      BY <2>2, <2>3 DEF Alike
    <3>2. Alike(proc', proc) \/ Alike(proc', armed) \/ Alike(proc', given)
      BY <2>4, <3>1, CNow, ReturnedAlike
    <3> QED  BY <2>2, <2>3, <3>2, AlikeTwice
  <2> QED  BY <1>1, <2>5, AlikeStep
<1>3. CASE ~SysSimple(h, p)
  <2>1. /\ DOMAIN proc' = Procs /\ \A q \in Procs \ {p} : proc'[q] = proc[q]
        /\ DOMAIN proc'[p] = DOMAIN proc[p] /\ proc'[p].pid = proc[p].pid /\ proc'[p].counts = proc[p].counts
        /\ proc'[p].state = proc[p].state
    <3>1. CASE \E tf : proc' = [proc EXCEPT ![p].tf = tf]
      BY <3>1, CNow DEF Slots, Slot
    <3>2. CASE proc' = [proc EXCEPT ![p] = Restored(@)]
      BY <3>2, CNow DEF Slots, Slot, Restored
    <3> QED  BY <1>3, <3>1, <3>2 DEF Computes, SysExec, SysSigreturn
  <2>2. Alike(proc', proc)
    BY <2>1, CNow, OneAlike
  <2> QED  BY <1>1, <2>2, AlikeStep
<1> QED  BY <1>2, <1>3

\* A child starts with a pid nobody has had and no calls made.
LEMMA ForkAllocCounts == ASSUME CInv, NEW h \in Harts, NEW p \in Procs, ForkAlloc(h, p) PROVE PastOK' /\ CountOK'
<1> DEFINE unused == {q \in Procs : proc[q].state = "UNUSED"}
<1>1. CASE unused = {}
  <2>1. proc' = Returned(proc, p, -1) /\ SameSeen
    BY <1>1, CNow DEF ForkAlloc, SameSeen, PastOK
  <2>2. Alike(proc', proc)
    BY <2>1, CNow, ReturnedAlike
  <2> QED  BY <2>1, <2>2, AlikeStep
<1>2. CASE unused # {}
  <2>1. PICK q \in Procs : q = Min(unused) /\ proc[q].state = "UNUSED"
    BY <1>2, MinFact
  <2>2. /\ proc' = [proc EXCEPT ![q] = [Allocated(@) EXCEPT !.tf = [proc[p].tf EXCEPT !.a0 = 0]]]
        /\ seen' = [seen EXCEPT !.heirs[q] = {nextpid},
                                   !.made = [pid \in 1..nextpid |-> IF pid = nextpid THEN NoCounts ELSE @[pid]]]
        /\ nextpid' = nextpid + 1
    BY <1>2, <2>1 DEF ForkAlloc
  <2> HIDE DEF unused
  <2>3. /\ DOMAIN proc' = Procs /\ \A r \in Procs \ {q} : proc'[r] = proc[r]
        /\ DOMAIN proc'[q] = DOMAIN proc[q] /\ proc'[q].pid = nextpid /\ proc'[q].counts = NoCounts
    BY <2>2, CNow DEF Slots, Slot, Allocated
  <2>4. /\ {"made", "heirs"} \subseteq DOMAIN seen' /\ DOMAIN seen'.heirs = Procs
        /\ seen'.heirs[q] = {nextpid} /\ \A r \in Procs \ {q} : seen'.heirs[r] = seen.heirs[r]
        /\ seen'.made = [pid \in 1..nextpid |-> IF pid = nextpid THEN NoCounts ELSE seen.made[pid]]
    BY <2>2, CNow DEF PastOK
  <2>5. nextpid \in Nat \ {0} /\ nextpid \notin Pids /\ Pids' = Pids \cup {nextpid}
    BY <2>2, CNow DEF PastOK, Pids
  <2>6. /\ DOMAIN seen'.made = Pids' /\ seen'.made[nextpid] = NoCounts
        /\ \A x \in Pids : seen'.made[x] = seen.made[x]
    <3>1. 1..nextpid = Pids'
      BY <2>2, <2>5 DEF Pids
    <3> QED  BY <2>4, <2>5, <3>1
  <2>7. DOMAIN NoCounts = Calls /\ \A c \in Calls : NoCounts[c] = 0
    BY DEF NoCounts
  <2>8. PastOK'
    <3>1. \A x \in Pids' : DOMAIN seen'.made[x] = Calls /\ \A c \in Calls : seen'.made[x][c] \in Nat
      BY <2>5, <2>6, <2>7, CNow DEF PastOK
    <3>2. \A r \in Procs : seen'.heirs[r] \subseteq Pids'
      BY <2>4, <2>5, CNow DEF PastOK
    <3>3. \A r, s \in Procs : r # s => seen'.heirs[r] \cap seen'.heirs[s] = {}
      <4>1. \A r \in Procs : nextpid \notin seen.heirs[r]
        BY <2>5, CNow DEF PastOK
      <4>2. \A r, s \in Procs : r # s => seen.heirs[r] \cap seen.heirs[s] = {}
        BY CNow DEF PastOK
      <4> QED  BY <2>4, <4>1, <4>2
    <3>4. nextpid' \in Nat \ {0}
      BY <2>2, <2>5
    <3> QED  BY <2>4, <2>6, <3>1, <3>2, <3>3, <3>4 DEF PastOK, Procs, Calls
  <2>9. Slots(proc')
    <3>1. \A r \in Procs : Slot(proc', r)
      BY <2>3, <2>7, CNow DEF Slots, Slot
    <3> QED  BY <2>3, <3>1 DEF Slots
  <2>10. \A r \in Procs : proc'[r].state # "UNUSED" => proc'[r].pid \in seen'.heirs[r]
    BY <2>3, <2>4 DEF CInv, CountOK
  <2>11. ASSUME NEW r \in Procs, proc'[r].state # "UNUSED", NEW c \in Calls
         PROVE  proc'[r].counts[c] = CallsOf(seen'.heirs[r], seen'.made, c)
    <3>1. CASE r = q
      <4> DEFINE made == seen'.made
      <4>1. made[nextpid][c] = 0 /\ made[nextpid][c] \in Int
        BY <2>6, <2>7
      <4> HIDE DEF made
      <4>2. CallsOf({nextpid}, made, c) = made[nextpid][c]
        BY <4>1, SumOne
      <4> QED  BY <2>3, <2>4, <2>7, <3>1, <4>1, <4>2 DEF made
    <3>2. CASE r # q
      <4>1. proc'[r].counts[c] = CallsOf(seen.heirs[r], seen.made, c)
        BY <2>3, <2>11, <3>2 DEF CInv, CountOK, CountsExact
      <4>2. IsFiniteSet(seen.heirs[r]) /\ \A x \in seen.heirs[r] : seen.made[x][c] \in Int /\ seen'.made[x][c] = seen.made[x][c]
        BY <2>6, CNow, HeirsFact
      <4>3. CallsOf(seen.heirs[r], seen'.made, c) = CallsOf(seen.heirs[r], seen.made, c)
        BY <4>2, SumSame
      <4> QED  BY <2>4, <3>2, <4>1, <4>3
    <3> QED  BY <3>1, <3>2
  <2>12. CountsExact'
    BY <2>11 DEF CountsExact, Procs, Calls
  <2> QED  BY <2>8, <2>9, <2>10, <2>12 DEF CountOK, Slots, Slot, Procs, Calls
<1> QED  BY <1>1, <1>2

LEMMA ForkRunCounts == ASSUME CInv, NEW h \in Harts, NEW p \in Procs, ForkRun(h, p) PROVE PastOK' /\ CountOK'
<1>1. SameSeen /\ Forking(p)
  BY CNow DEF ForkRun, SameSeen, PastOK, In, Forking
<1>2. PICK q \in Procs : q = kern[p].child /\ proc[q].state = "USED"
  BY <1>1, CNow DEF IInv, ForkOK
<1> DEFINE born == [proc EXCEPT ![q].parent = p, ![q].tickets = proc[p].tickets, ![q].state = "RUNNABLE"]
<1>3. /\ DOMAIN born = Procs /\ \A r \in Procs \ {q} : born[r] = proc[r]
      /\ DOMAIN born[q] = DOMAIN proc[q] /\ born[q].pid = proc[q].pid /\ born[q].counts = proc[q].counts
      /\ born[q].state = "RUNNABLE"
  BY CNow DEF Slots, Slot
<1>4. proc' = Returned(born, p, proc[q].pid)
  BY <1>2 DEF ForkRun
<1> HIDE DEF born
<1>5. Alike(born, proc)
  BY <1>2, <1>3, CNow, OneAlike
<1>6. Alike(proc', born)
  <2>1. Slots(born)
    BY <1>5 DEF Alike
  <2> QED  BY <1>4, <2>1, ReturnedAlike
<1> QED  BY <1>1, <1>5, <1>6, AlikeTwice, AlikeStep

LEMMA ExitCounts == ASSUME CInv, NEW h \in Harts, NEW p \in Procs, SysExit(h, p) PROVE PastOK' /\ CountOK'
<1>1. SameSeen /\ Runs(h, p)
  BY CNow DEF SysExit, SameSeen, PastOK, In
<1> DEFINE orphans == [q \in Procs |-> IF q \in Children(p) THEN [proc[q] EXCEPT !.parent = InitProc] ELSE proc[q]]
           adopted == IF Children(p) = {} THEN orphans ELSE Woken(orphans, InitProc)
           heard == Woken(adopted, proc[p].parent)
<1>2. Alike(orphans, proc)
  <2>1. ASSUME NEW q \in Procs
        PROVE  /\ Slot(orphans, q) /\ orphans[q].pid = proc[q].pid /\ orphans[q].counts = proc[q].counts
               /\ orphans[q].state = proc[q].state
    <3>1. orphans[q] = proc[q] \/ orphans[q] = [proc[q] EXCEPT !.parent = InitProc]
      OBVIOUS
    <3> HIDE DEF orphans
    <3> QED  BY <3>1, CNow DEF Slots, Slot
  <2>2. DOMAIN orphans = Procs
    OBVIOUS
  <2> HIDE DEF orphans
  <2> QED  BY <2>1, <2>2 DEF Alike, Slots
<1>3. proc' = [heard EXCEPT ![p].state = "ZOMBIE", ![p].xstate = kern[p].n, ![p].etime = ticks]
  BY DEF SysExit
<1> HIDE DEF orphans
<1>4. Alike(adopted, proc)
  <2>1. Slots(orphans)
    BY <1>2 DEF Alike
  <2>2. Alike(Woken(orphans, InitProc), orphans)
    BY <2>1, WokenAlike
  <2> QED  BY <1>2, <2>2, AlikeTwice
<1> HIDE DEF adopted
<1>5. Alike(heard, proc)
  <2>1. Slots(adopted)
    BY <1>4 DEF Alike
  <2>2. Alike(Woken(adopted, proc[p].parent), adopted)
    BY <2>1, WokenAlike
  <2> QED  BY <1>4, <2>2, AlikeTwice
<1> HIDE DEF heard
<1>6. proc[p].state = "RUNNING" /\ Slots(heard) /\ heard[p].state # "UNUSED"
  BY <1>1, <1>5, CNow, RunsFact DEF Alike
<1>7. /\ DOMAIN proc' = Procs /\ \A q \in Procs \ {p} : proc'[q] = heard[q]
      /\ DOMAIN proc'[p] = DOMAIN heard[p] /\ proc'[p].pid = heard[p].pid /\ proc'[p].counts = heard[p].counts
      /\ proc'[p].state = "ZOMBIE"
  BY <1>3, <1>6 DEF Slots, Slot
<1>8. Alike(proc', heard)
  BY <1>6, <1>7, OneAlike
<1> QED  BY <1>1, <1>5, <1>8, AlikeTwice, AlikeStep

LEMMA SleepsCounts ==
  ASSUME CInv, NEW h \in Harts, NEW p \in Procs, Runs(h, p), NEW chan, Sleeps(h, p, chan), SameSeen
  PROVE  PastOK' /\ CountOK'
<1>1. proc[p].state = "RUNNING"
  BY CNow, RunsFact
<1>2. /\ DOMAIN proc' = Procs /\ \A q \in Procs \ {p} : proc'[q] = proc[q]
      /\ DOMAIN proc'[p] = DOMAIN proc[p] /\ proc'[p].pid = proc[p].pid /\ proc'[p].counts = proc[p].counts
      /\ proc'[p].state = "SLEEPING"
  BY CNow DEF Sleeps, Slots, Slot
<1>3. Alike(proc', proc)
  BY <1>1, <1>2, CNow, OneAlike
<1> QED  BY <1>3, AlikeStep

LEMMA SleepCounts == ASSUME CInv, NEW h \in Harts, NEW p \in Procs, SysSleep(h, p) PROVE PastOK' /\ CountOK'
<1>1. SameSeen /\ Runs(h, p)
  BY CNow DEF SysSleep, SameSeen, PastOK
<1>2. (\E v : proc' = Returned(proc, p, v)) \/ \E chan : Sleeps(h, p, chan)
  BY DEF SysSleep
<1>3. ASSUME NEW v, proc' = Returned(proc, p, v) PROVE PastOK' /\ CountOK'
  <2>1. Alike(proc', proc)
    BY <1>3, CNow, ReturnedAlike
  <2> QED  BY <1>1, <2>1, AlikeStep
<1> QED  BY <1>1, <1>2, <1>3, SleepsCounts

LEMMA SumNone == ASSUME NEW m, NEW c PROVE CallsOf({}, m, c) = 0
<1> DEFINE g == [s \in SUBSET {} |-> 0]
<1>1. Sums(m, c, {}, g)
  BY DEF Sums
<1>2. IsFiniteSet({}) /\ g[{}] = 0
  BY FS_EmptySet
<1> HIDE DEF g
<1> QED  BY <1>1, <1>2, SumIs

\* The slot q is freed, and p accounts for more: the pids of G.
LEMMA ReapStep ==
  ASSUME CInv, NEW p \in Procs, NEW q \in Procs, p # q, proc[p].state # "UNUSED", nextpid' = nextpid,
         Slots(proc'), \A r \in Procs \ {p, q} : proc'[r] = proc[r],
         proc'[q].state = "UNUSED", proc'[p].pid = proc[p].pid,
         {"made", "heirs"} \subseteq DOMAIN seen', seen'.made = seen.made, DOMAIN seen'.heirs = Procs,
         NEW G \in {{}, seen.heirs[q]}, seen'.heirs[p] = seen.heirs[p] \cup G, seen'.heirs[q] = {},
         \A r \in Procs \ {p, q} : seen'.heirs[r] = seen.heirs[r],
         \A c \in Calls : proc'[p].counts[c] = proc[p].counts[c] + CallsOf(G, seen.made, c)
  PROVE  PastOK' /\ CountOK'
<1>1. G \subseteq seen.heirs[q] /\ G \subseteq Pids /\ IsFiniteSet(G) /\ seen.heirs[p] \cap G = {}
  <2>1. seen.heirs[p] \cap seen.heirs[q] = {}
    BY CNow DEF PastOK
  <2> QED  BY <2>1, CNow, HeirsFact, FS_EmptySet
<1>2. PastOK'
  <2>1. Pids' = Pids
    BY DEF Pids
  <2>2. \A r \in Procs : seen'.heirs[r] \subseteq Pids
    BY <1>1, CNow DEF PastOK
  <2>3. \A r, s \in Procs : r # s => seen'.heirs[r] \cap seen'.heirs[s] = {}
    <3>1. \A r, s \in Procs : r # s => seen.heirs[r] \cap seen.heirs[s] = {}
      BY CNow DEF PastOK
    <3>2. \A r \in Procs \ {p} : seen'.heirs[r] \subseteq seen.heirs[r] /\ seen'.heirs[r] \cap G = {}
      BY <1>1, <3>1
    <3>3. \A r \in Procs \ {p} : seen'.heirs[p] \cap seen'.heirs[r] = {}
      BY <3>1, <3>2
    <3> QED  BY <3>1, <3>2, <3>3
  <2> QED  BY <2>1, <2>2, <2>3, CNow DEF PastOK, Procs, Calls
<1>3. \A r \in Procs : proc'[r].state # "UNUSED" => proc'[r].pid \in seen'.heirs[r]
  BY DEF CInv, CountOK
<1>4. ASSUME NEW r \in Procs, proc'[r].state # "UNUSED", NEW c \in Calls
      PROVE  proc'[r].counts[c] = CallsOf(seen'.heirs[r], seen'.made, c)
  <2>1. CASE r = p
    <3>1. IsFiniteSet(seen.heirs[p]) /\ seen.heirs[p] \subseteq Pids
      BY CNow, HeirsFact
    <3>2. \A x \in seen.heirs[p] \cup G : seen.made[x][c] \in Int
      BY <1>1, <3>1, CNow DEF PastOK
    <3>3. CallsOf(seen.heirs[p] \cup G, seen.made, c) = CallsOf(seen.heirs[p], seen.made, c) + CallsOf(G, seen.made, c)
      BY <1>1, <3>1, <3>2, SumBoth
    <3>4. proc[p].counts[c] = CallsOf(seen.heirs[p], seen.made, c)
      BY DEF CInv, CountOK, CountsExact
    <3> QED  BY <2>1, <3>3, <3>4
  <2>2. CASE r # p
    BY <1>4, <2>2 DEF CInv, CountOK, CountsExact
  <2> QED  BY <2>1, <2>2
<1>5. CountsExact'
  BY <1>4 DEF CountsExact, Procs, Calls
<1> QED  BY <1>2, <1>3, <1>5 DEF CountOK, Slots, Slot, Procs, Calls

LEMMA FreedFact ==
  ASSUME CInv, NEW p \in Procs, NEW q \in Procs, p # q
  PROVE  LET f == [proc EXCEPT ![q] = Freed(@)]
         IN  /\ Slots(f) /\ f[q].state = "UNUSED" /\ \A r \in Procs \ {q} : f[r] = proc[r]
<1> DEFINE f == [proc EXCEPT ![q] = Freed(@)]
<1>1. /\ DOMAIN f = Procs /\ f[q].state = "UNUSED" /\ \A r \in Procs \ {q} : f[r] = proc[r]
      /\ DOMAIN f[q] = DOMAIN proc[q] /\ f[q].counts = NoCounts
  BY CNow DEF Slots, Slot, Freed
<1> HIDE DEF f
<1>2. \A r \in Procs : Slot(f, r)
  BY <1>1, CNow DEF Slots, Slot, NoCounts
<1> QED  BY <1>1, <1>2 DEF Slots, f

\* wait() gives the caller the counts of the child, waitx() drops them.
LEMMA WaitCounts == ASSUME CInv, NEW h \in Harts, NEW p \in Procs, SysWait(h, p) PROVE PastOK' /\ CountOK'
<1>1. nextpid' = nextpid /\ Runs(h, p) /\ proc[p].state = "RUNNING"
  <2>1. nextpid' = nextpid /\ Runs(h, p)
    BY DEF SysWait
  <2> QED  BY <2>1, CNow, RunsFact
<1>2. CASE Zombies(p) # {}
  <2>1. PICK q \in Procs : q = Min(Zombies(p)) /\ proc[q].state = "ZOMBIE"
    BY <1>2, MinFact DEF Zombies, Children
  <2> DEFINE f == [proc EXCEPT ![q] = Freed(@)]
             g == Reaped(p, q)
  <2>2. \/ /\ proc' = Returned(g, p, proc[q].pid)
           /\ seen' = [seen EXCEPT !.heirs[p] = @ \cup seen.heirs[q], !.heirs[q] = {}]
        \/ /\ proc' = Returned(f, p, proc[q].pid)
           /\ seen' = [seen EXCEPT !.heirs[q] = {}]
    <3>1. Children(p) # {}
      BY <1>2 DEF Zombies
    <3> QED  BY <1>2, <2>1, <3>1 DEF SysWait
  <2>3. p # q
    BY <1>1, <2>1
  <2>4. Slots(f) /\ f[q].state = "UNUSED" /\ \A r \in Procs \ {q} : f[r] = proc[r]
    BY <2>3, FreedFact
  <2>5. /\ Slots(g) /\ g[q].state = "UNUSED" /\ \A r \in Procs \ {p, q} : g[r] = proc[r]
        /\ g[p].pid = proc[p].pid /\ \A c \in Calls : g[p].counts[c] = proc[p].counts[c] + proc[q].counts[c]
    <3>1. g = [f EXCEPT ![p].counts = [c \in Calls |-> f[p].counts[c] + proc[q].counts[c]]]
      BY <2>3, CNow DEF Reaped, Slots
    <3> HIDE DEF f, g
    <3>2. /\ DOMAIN g = Procs /\ \A r \in Procs \ {p} : g[r] = f[r]
          /\ DOMAIN g[p] = DOMAIN f[p] /\ g[p].pid = f[p].pid
          /\ g[p].counts = [c \in Calls |-> proc[p].counts[c] + proc[q].counts[c]]
      BY <2>3, <2>4, <3>1 DEF Slots, Slot
    <3>3. \A r \in Procs : Slot(g, r)
      BY <2>4, <3>2, CNow DEF Slots, Slot
    <3> QED  BY <2>3, <2>4, <3>2, <3>3 DEF Slots
  <2> HIDE DEF f, g
  <2>6. {"made", "heirs"} \subseteq DOMAIN seen /\ DOMAIN seen.heirs = Procs
    BY CNow DEF PastOK
  <2>7. CASE /\ proc' = Returned(g, p, proc[q].pid)
             /\ seen' = [seen EXCEPT !.heirs[p] = @ \cup seen.heirs[q], !.heirs[q] = {}]
    <3>1. Alike(proc', g) /\ \A r \in Procs \ {p} : proc'[r] = g[r]
      BY <2>5, <2>7, ReturnedAlike DEF Returned, Slots
    <3>2. \A c \in Calls : proc[q].counts[c] = CallsOf(seen.heirs[q], seen.made, c)
      BY <2>1 DEF CInv, CountOK, CountsExact
    <3>3. /\ Slots(proc') /\ proc'[q].state = "UNUSED" /\ proc'[p].pid = proc[p].pid
          /\ \A c \in Calls : proc'[p].counts[c] = proc[p].counts[c] + CallsOf(seen.heirs[q], seen.made, c)
          /\ \A r \in Procs \ {p, q} : proc'[r] = proc[r]
      BY <2>3, <2>5, <3>1, <3>2 DEF Alike
    <3>4. /\ {"made", "heirs"} \subseteq DOMAIN seen' /\ seen'.made = seen.made /\ DOMAIN seen'.heirs = Procs
          /\ seen'.heirs[p] = seen.heirs[p] \cup seen.heirs[q] /\ seen'.heirs[q] = {}
          /\ \A r \in Procs \ {p, q} : seen'.heirs[r] = seen.heirs[r]
      BY <2>3, <2>6, <2>7
    <3> QED  BY <1>1, <2>3, <3>3, <3>4, ReapStep
  <2>8. CASE /\ proc' = Returned(f, p, proc[q].pid)
             /\ seen' = [seen EXCEPT !.heirs[q] = {}]
    <3>1. Alike(proc', f) /\ \A r \in Procs \ {p} : proc'[r] = f[r]
      BY <2>4, <2>8, ReturnedAlike DEF Returned, Slots
    <3>2. \A c \in Calls : CallsOf({}, seen.made, c) = 0 /\ proc[p].counts[c] \in Nat
      BY SumNone, CNow DEF Slots, Slot
    <3>3. /\ Slots(proc') /\ proc'[q].state = "UNUSED" /\ proc'[p].pid = proc[p].pid
          /\ \A c \in Calls : proc'[p].counts[c] = proc[p].counts[c] + CallsOf({}, seen.made, c)
          /\ \A r \in Procs \ {p, q} : proc'[r] = proc[r]
      BY <2>3, <2>4, <3>1, <3>2 DEF Alike
    <3>4. /\ {"made", "heirs"} \subseteq DOMAIN seen' /\ seen'.made = seen.made /\ DOMAIN seen'.heirs = Procs
          /\ seen'.heirs[p] = seen.heirs[p] \cup {} /\ seen'.heirs[q] = {}
          /\ \A r \in Procs \ {p, q} : seen'.heirs[r] = seen.heirs[r]
      BY <2>3, <2>6, <2>8
    <3> QED  BY <1>1, <2>3, <3>3, <3>4, ReapStep
  <2> QED  BY <2>2, <2>7, <2>8
<1>3. CASE Zombies(p) = {}
  <2>1. (\E v : proc' = Returned(proc, p, v)) \/ Sleeps(h, p, p)
    BY <1>3 DEF SysWait
  <2>2. SameSeen
    BY <1>3, CNow DEF SysWait, SameSeen, PastOK
  <2>3. ASSUME NEW v, proc' = Returned(proc, p, v) PROVE PastOK' /\ CountOK'
    <3>1. Alike(proc', proc)
      BY <2>3, CNow, ReturnedAlike
    <3> QED  BY <2>2, <3>1, AlikeStep
  <2> QED  BY <1>1, <2>1, <2>2, <2>3, SleepsCounts
<1> QED  BY <1>2, <1>3

LEMMA InitCInv == Init => CInv
<1> SUFFICES ASSUME Init PROVE CInv
  OBVIOUS
<1>1. /\ proc = [p \in Procs |-> IF p = InitProc THEN [Unused EXCEPT !.state = "RUNNABLE", !.pid = 1] ELSE Unused]
      /\ nextpid = 2 /\ seen = SeenInit
  BY DEF Init
<1>2. \A c \in Calls : NoCounts[c] = 0
  BY DEF NoCounts
<1>3. \A p \in Procs : /\ {"state", "pid", "counts"} \subseteq DOMAIN proc[p] /\ proc[p].counts = NoCounts
                       /\ proc[p].state # "UNUSED" => p = InitProc /\ proc[p].pid = 1
  BY <1>1 DEF Unused
<1>4. Slots(proc)
  BY <1>1, <1>2, <1>3 DEF Slots, Slot, NoCounts
<1>5. /\ {"made", "heirs"} \subseteq DOMAIN seen
      /\ seen.made = [pid \in {1} |-> NoCounts]
      /\ seen.heirs = [p \in Procs |-> IF p = InitProc THEN {1} ELSE {}]
  BY <1>1 DEF SeenInit
<1>6. PastOK
  <2>1. Pids = {1}
    BY <1>1 DEF Pids
  <2> QED  BY <1>1, <1>2, <1>5, <2>1 DEF PastOK, NoCounts
<1>7. ASSUME NEW p \in Procs, proc[p].state # "UNUSED"
      PROVE  proc[p].pid \in seen.heirs[p] /\ \A c \in Calls : proc[p].counts[c] = CallsOf(seen.heirs[p], seen.made, c)
  <2>1. proc[p].pid = 1 /\ seen.heirs[p] = {1} /\ seen.made[1] = NoCounts /\ proc[p].counts = NoCounts
    BY <1>3, <1>5, <1>7
  <2>2. ASSUME NEW c \in Calls PROVE CallsOf({1}, seen.made, c) = 0
    <3>1. seen.made[1][c] = 0 /\ seen.made[1][c] \in Int
      BY <1>2, <2>1
    <3> QED  BY <3>1, SumOne
  <2> QED  BY <1>2, <2>1, <2>2
<1> QED  BY <1>4, <1>6, <1>7, InitIInv DEF CInv, CountOK, CountsExact

LEMMA StepCounts == ASSUME CInv, [Next]_vars PROVE CInv'
<1>1. IInv'
  BY CNow, StepKeeps
<1>2. ASSUME UNCHANGED vars PROVE PastOK' /\ CountOK'
  <2>1. SameSeen /\ proc' = proc
    BY <1>2, CNow DEF vars, SameSeen, PastOK
  <2> QED  BY <2>1, CNow, AlikeStep
<1>3. ASSUME NEW h \in Harts, NEW p \in Procs, Process(h, p) PROVE PastOK' /\ CountOK'
  BY <1>3, EntersCounts, AloneCounts, ForkAllocCounts, ForkRunCounts, ExitCounts, WaitCounts, SleepCounts DEF Process
<1>4. ASSUME NEW h \in Harts, Total(h) \/ Draw(h) \/ Take(h) PROVE PastOK' /\ CountOK'
  BY <1>4, ScanCounts
<1>5. ASSUME Late \/ Tick \/ UpdateTime \/ ClockEnd \/ \E h \in Harts : OtherTick(h) PROVE PastOK' /\ CountOK'
  BY <1>5, ClockCounts
<1> QED  BY <1>1, <1>2, <1>3, <1>4, <1>5 DEF Next, CInv

\* getSysCount() counts every call once, whatever harts do at the same time: those of
\* the process and of the children it has waited for, theirs included, and none of an
\* earlier process of the slot (syscall.c:150, proc.c:220, proc.c:255, proc.c:516).
THEOREM CountsAlwaysExact == Spec => []CountsExact
<1>1. CInv => CountsExact
  BY DEF CInv, CountOK
<1>2. CInv /\ [Next]_vars => CInv'
  BY StepCounts
<1> QED  BY <1>1, <1>2, InitCInv, PTL DEF Spec

-----------------------------------------------------------------------------
(* The programs.                                                           *)

\* A line control may reach other than by the return of fork().
Plain(code, n) == n \in DOMAIN code /\ code[n].op # "child"
MainLine(prog, code, n) ==
  \E i \in {code[n]} :
  /\ i.op \in {"ecall", "zero", "count", "adds", "until", "jump", "goto", "child", "li", "passes"}
  /\ i.op = "ecall" =>
       /\ i.call \in Calls \ {"sigreturn"}
       /\ i.call \notin {"exit", "exec"} => n + 1 \in DOMAIN code
       /\ i.call \notin {"exit", "exec", "fork"} => code[n + 1].op # "child"
       /\ i.call = "exec" => i.prog \in Mains \ {"test2child"}
       /\ i.call = "sigalarm" => \/ i.n = 0
                                 \/ i.handler \in {"periodic", "dummy_handler"}
                                 \/ prog = "test2child" /\ n = 2 /\ i.handler = "slow_handler"
  /\ i.op = "jump" => \A t \in i.to : Plain(code, t)
  /\ i.op = "until" => Plain(code, i.to)
  /\ i.op \in {"goto", "child"} => i.prog \in Mains
  /\ i.op = "goto" => i.prog # "test2child"
  /\ i.op \notin {"ecall", "jump", "goto"} => Plain(code, n + 1)
Sound(prog, code) == Plain(code, 1) /\ \A n \in DOMAIN code : n \in Int /\ MainLine(prog, code, n)

LEMMA SoundMains == ASSUME NEW prog \in Mains PROVE Sound(prog, Programs[prog])
<1> DEFINE code == Programs[prog]
<1> USE DEF Sound, MainLine, Plain, Calls, Mains, Ecall, Write, Fork, Wait, Waitx, Sigalarm, Sleep, Exit, Exec,
            GetSysCount, SetTickets, Zero, Adds, Until, Jump, Goto, InChild, Li, Passes
<1>1. Sound("test0", test0)
  BY DEF test0
<1>2. Sound("test1", test1)
  BY DEF test1
<1>3. Sound("test2", test2)
  BY DEF test2
<1>4. Sound("test2child", test2child)
  BY DEF test2child
<1>5. Sound("test3", test3)
  BY DEF test3
<1>6. Sound("syscount", syscount)
  BY DEF syscount
<1>7. Sound("exec", execs)
  BY DEF execs
<1>8. Sound("command", command)
  BY DEF command
<1>9. Sound("writer", writer)
  BY DEF writer
<1>10. Sound("schedulertest", schedulertest)
  BY DEF schedulertest
<1>11. Sound("io", io)
  BY DEF io
<1>12. Sound("cpu", cpu)
  BY DEF cpu
<1>13. Sound("raffle", raffle)
  BY DEF raffle
<1>14. Sound("poor", poor)
  BY DEF poor
<1> QED
  <2> HIDE DEF Sound, MainLine, Plain, Calls, Ecall, Write, Fork, Wait, Waitx, Sigalarm, Sleep, Exit, Exec,
              GetSysCount, SetTickets, Zero, Adds, Until, Jump, Goto, InChild, Li, Passes
  <2>1. prog \in Mains \cup Handlers
    OBVIOUS
  <2> QED  BY <2>1, <1>1, <1>2, <1>3, <1>4, <1>5, <1>6, <1>7, <1>8, <1>9, <1>10, <1>11, <1>12, <1>13, <1>14
           DEF Programs, Mains

LEMMA SoundInit == ASSUME NEW progs \in Seq(Mains) PROVE Sound("init", InitCode(progs))
<1> DEFINE code == InitCode(progs)
<1>1. PICK n \in Nat : n = Len(progs)
  OBVIOUS
<1>2. /\ DOMAIN code = 1..(3 * n + 1)
      /\ code[3 * n + 1] = Jump({3 * n + 1})
      /\ \A i \in 1..(3 * n) : code[i] = (CASE i % 3 = 1 -> Fork
            [] i % 3 = 2 -> InChild(progs[(i + 1) \div 3])
            [] OTHER -> Wait)
  BY <1>1 DEF InitCode
<1> HIDE DEF code
<1>3. ASSUME NEW i \in 1..(3 * n)
      PROVE  /\ i % 3 = 1 => code[i] = Fork /\ i + 1 \in 1..(3 * n) /\ (i + 1) % 3 = 2
             /\ i % 3 = 2 => code[i] = InChild(progs[(i + 1) \div 3]) /\ progs[(i + 1) \div 3] \in Mains
                             /\ i + 1 \in 1..(3 * n) /\ (i + 1) % 3 = 0
             /\ i % 3 = 0 => code[i] = Wait
             /\ i % 3 \in {0, 1, 2} /\ (i < 3 * n /\ i % 3 = 0 => (i + 1) % 3 = 1)
  <2>1. /\ i % 3 = 1 => i + 1 \in 1..(3 * n) /\ (i + 1) % 3 = 2
        /\ i % 3 = 2 => i + 1 \in 1..(3 * n) /\ (i + 1) % 3 = 0 /\ (i + 1) \div 3 \in 1..n
        /\ i % 3 \in {0, 1, 2} /\ (i < 3 * n /\ i % 3 = 0 => (i + 1) % 3 = 1)
    OBVIOUS
  <2>2. /\ i % 3 = 1 => code[i] = Fork
        /\ i % 3 = 2 => code[i] = InChild(progs[(i + 1) \div 3])
        /\ i % 3 = 0 => code[i] = Wait
    BY <1>2
  <2>3. \A j \in 1..n : progs[j] \in Mains
    BY <1>1
  <2> QED  BY <2>1, <2>2, <2>3
<1>4. PICK m \in Nat : m = 3 * n /\ m % 3 = 0
  BY <1>1
<1>5. DOMAIN code = 1..(m + 1) /\ code[m + 1].op = "jump" /\ code[m + 1].to = {m + 1}
  BY <1>2, <1>4 DEF Jump
<1>6. \A i \in 1..m : i % 3 = 0 => Plain(code, i + 1)
  <2> TAKE i \in 1..m
  <2>1. CASE i = m
    BY <1>5, <2>1 DEF Plain
  <2>2. CASE i # m /\ i % 3 = 0
    <3>1. i + 1 \in 1..m /\ (i + 1) % 3 = 1
      BY <1>3, <1>4, <2>2
    <3>2. code[i + 1] = Fork
      BY <1>3, <1>4, <3>1
    <3> QED  BY <1>5, <3>1, <3>2 DEF Plain, Fork, Ecall
  <2> QED  BY <2>1, <2>2
<1>7. ASSUME NEW i \in 1..m PROVE MainLine("init", code, i)
  <2>1. i + 1 \in DOMAIN code
    BY <1>5
  <2>2. CASE i % 3 = 1
    <3>1. code[i] = Fork
      BY <1>3, <1>4, <2>2
    <3> QED  BY <2>1, <3>1 DEF MainLine, Fork, Ecall, Calls
  <2>3. CASE i % 3 = 2
    <3>1. code[i] = InChild(progs[(i + 1) \div 3]) /\ progs[(i + 1) \div 3] \in Mains
      BY <1>3, <1>4, <2>3
    <3>2. code[i + 1] = Wait
      BY <1>3, <1>4, <2>3
    <3> QED  BY <2>1, <3>1, <3>2 DEF MainLine, InChild, Wait, Ecall, Plain
  <2>4. CASE i % 3 = 0
    <3>1. code[i] = Wait
      BY <1>3, <1>4, <2>4
    <3> QED  BY <1>6, <2>1, <2>4, <3>1 DEF MainLine, Wait, Ecall, Calls, Plain
  <2> QED  BY <1>3, <1>4, <2>2, <2>3, <2>4
<1>8. MainLine("init", code, m + 1)
  BY <1>5 DEF MainLine, Plain
<1>9. Plain(code, 1)
  <2>1. CASE m = 0
    BY <1>5, <2>1 DEF Plain
  <2>2. CASE m # 0
    <3>1. 1 \in 1..m /\ 1 % 3 = 1
      BY <2>2
    <3>2. code[1] = Fork
      BY <1>3, <1>4, <3>1
    <3> QED  BY <1>5, <3>1, <3>2 DEF Plain, Fork, Ecall
  <2> QED  BY <2>1, <2>2
<1>10. \A i \in DOMAIN code : MainLine("init", code, i)
  <2> TAKE i \in DOMAIN code
  <2>1. i \in 1..m \/ i = m + 1
    BY <1>5
  <2> QED  BY <1>7, <1>8, <2>1
<1> QED  BY <1>9, <1>10 DEF Sound, code

-----------------------------------------------------------------------------
(* Alarms.                                                                 *)

Ordinary == Mains \cup {"init"}
Here(tf) == Code(tf.pc[1])[tf.pc[2]]
Last(tf) == Code(tf.pc[1])[tf.pc[2] - 1]
AtLine(tf) == tf.pc[1] \in Ordinary /\ tf.pc[2] \in DOMAIN Code(tf.pc[1])
Regs(tf) == {"pc", "a0"} \subseteq DOMAIN tf /\ {1, 2} \subseteq DOMAIN tf.pc /\ tf.pc[2] \in Int
Shape(r) ==
  /\ {"state", "tf", "alarm", "alarmticks", "tickcounter", "handler", "savedtf"} \subseteq DOMAIN r
  /\ r.alarm \in BOOLEAN /\ Regs(r.tf)

\* The call k is what i asked for.
Begun(k, i) ==
  /\ i.op = "ecall"
  /\ \/ k = i
     \/ i.call = "fork" /\ k.call = "forking"
     \/ i.call = "sleep" /\ k.call = "sleeping"

\* A process in an ordinary program, in the call k, with n alarms counted: its code,
\* that a child of fork() has no alarm, which handler is armed, and what comes before
\* the alarm of test2child().
InProgram(tf, alarm, k) ==
  /\ tf.pc[1] \in Ordinary
  /\ k = NoCall => AtLine(tf) /\ (Here(tf).op = "child" /\ tf.a0 = 0 => alarm = FALSE)
  /\ k # NoCall => tf.pc[2] - 1 \in DOMAIN Code(tf.pc[1]) /\ Begun(k, Last(tf))
Fits(handler, prog, n) ==
  \/ handler \in {"periodic", "dummy_handler"}
  \/ handler = "slow_handler" /\ prog = "test2child" /\ n = 0
Fresh(tf, alarm, k, n) ==
  tf.pc[1] = "test2child" /\ (tf.pc[2] \in {1, 2} \/ (tf.pc[2] = 3 /\ k # NoCall)) =>
    alarm = FALSE /\ (tf.pc[2] # 1 => n = 0)
Outside(r, k, n) ==
  /\ InProgram(r.tf, r.alarm, k)
  /\ r.alarm = TRUE /\ r.alarmticks > 0 => Fits(r.handler, r.tf.pc[1], n)
  /\ Fresh(r.tf, r.alarm, k, n)

\* A process in a handler which interrupted it at cut.
Cut(tf) ==
  /\ Regs(tf) /\ AtLine(tf) /\ (Here(tf).op = "child" => tf.a0 # 0)
  /\ tf.pc[1] = "test2child" => tf.pc[2] > 2
InPeriodic(r, k) ==
  /\ r.tf.pc[1] = "periodic" /\ r.handler = "periodic"
  /\ \/ k = NoCall /\ r.tf.pc[2] \in 1..3
     \/ k = Write /\ r.tf.pc[2] = 3
     \/ k = Sigreturn /\ r.tf.pc[2] = 4
InDummy(r, k) ==
  /\ r.tf.pc[1] = "dummy_handler"
  /\ \/ k = NoCall /\ r.tf.pc[2] = 1
     \/ k = Sigalarm(0, "none") /\ r.tf.pc[2] = 2
     \/ k = NoCall /\ r.tf.pc[2] = 2 /\ r.alarmticks = 0
     \/ k = Sigreturn /\ r.tf.pc[2] = 3 /\ r.alarmticks = 0
InSlow(r, k, n, cut) ==
  /\ r.tf.pc[1] = "slow_handler" /\ cut.pc[1] = "test2child"
  /\ \/ k = NoCall /\ r.tf.pc[2] = 1 /\ n = 0
     \/ k = NoCall /\ r.tf.pc[2] \in 2..4 /\ n = 1
     \/ k = Write /\ r.tf.pc[2] = 3 /\ n = 1
     \/ k = Sigalarm(0, "none") /\ r.tf.pc[2] = 5 /\ n = 1
     \/ k = NoCall /\ r.tf.pc[2] = 5 /\ r.alarmticks = 0
     \/ k = Sigreturn /\ r.tf.pc[2] = 6 /\ r.alarmticks = 0
Inside(r, k, n, cut) ==
  /\ Cut(cut) /\ ~(r.alarm = TRUE /\ r.alarmticks > 0)
  /\ InPeriodic(r, k) \/ InDummy(r, k) \/ InSlow(r, k, n, cut)

Tame(r, k, n, cut) ==
  /\ Shape(r)
  /\ r.state = "UNUSED" => k = NoCall
  /\ r.state \in {"UNUSED", "ZOMBIE"} => cut = NoCall
  /\ r.state # "UNUSED" /\ cut = NoCall => Outside(r, k, n)
  /\ cut # NoCall => Inside(r, k, n, cut)
TamePast ==
  /\ work \in Works /\ DOMAIN mem = Procs /\ DOMAIN page = Pages
  /\ \A p \in Procs : {"count", "drift", "status"} \subseteq DOMAIN mem[p]
  /\ "cut" \in DOMAIN seen /\ DOMAIN seen.cut = Procs
AlarmOK == \A p \in Procs : Tame(proc[p], kern[p], mem[p].count, seen.cut[p])
\* A page holds what one handler interrupted, or nothing.
PagesOK ==
  /\ \A p \in InHandler : proc[p].savedtf \in Pages /\ page[proc[p].savedtf] = seen.cut[p]
  /\ \A p, q \in InHandler : proc[p].savedtf = proc[q].savedtf => p = q
  /\ \A g \in Pages : page[g] # NoCall => \E p \in InHandler : proc[p].savedtf = g

AOK == TamePast /\ AlarmOK /\ PagesOK
AInv == CInv /\ AOK

LEMMA Sounds == ASSUME AInv, NEW prog \in Ordinary PROVE Sound(prog, Code(prog))
<1>1. work.progs \in Seq(Mains)
  BY ProcAssumption DEF AInv, AOK, TamePast
<1>2. "init" \notin Mains
  BY DEF Mains
<1> QED  BY <1>1, <1>2, SoundInit, SoundMains DEF Code, Ordinary

LEMMA CodeFact ==
  /\ Code("test2child") = test2child /\ Code("periodic") = periodic
  /\ Code("dummy_handler") = dummy_handler /\ Code("slow_handler") = slow_handler
BY DEF Code, Programs, Mains, Handlers

\* What a step leaves of a process that it does not touch otherwise.
Untouched(r, s) ==
  /\ Shape(r) /\ r.tf = s.tf /\ r.alarm = s.alarm /\ r.alarmticks = s.alarmticks
  /\ r.handler = s.handler /\ r.savedtf = s.savedtf
  /\ r.state = "UNUSED" <=> s.state = "UNUSED"
  /\ r.state = "ZOMBIE" <=> s.state = "ZOMBIE"

LEMMA UntouchedTame ==
  ASSUME NEW r, NEW s, NEW k, NEW n, NEW cut, Tame(s, k, n, cut), Untouched(r, s)
  PROVE  Tame(r, k, n, cut)
BY DEF Tame, Untouched, Outside, Inside, InPeriodic, InDummy, InSlow

LEMMA TameSame ==
  ASSUME work' = work, \A p \in Procs : Tame(proc'[p], kern'[p], mem'[p].count, seen'.cut[p])
  PROVE  AlarmOK'
BY DEF AlarmOK, Tame, Outside, Inside, InProgram, Cut, AtLine, Here, Last, Code, Procs

LEMMA ANow ==
  ASSUME AInv
  PROVE  /\ CInv /\ IInv /\ TamePast /\ PagesOK /\ Slots(proc) /\ DOMAIN proc = Procs /\ DOMAIN kern = Procs
         /\ \A p \in Procs : Tame(proc[p], kern[p], mem[p].count, seen.cut[p]) /\ Shape(proc[p])
BY CNow DEF AInv, AOK, AlarmOK, Tame, Slots, IInv, TypeOK

\* A step that changes what the alarms are about for the processes of S at most.
LEMMA SomeStep ==
  ASSUME AInv, work' = work, NEW S \in SUBSET Procs,
         \A p \in Procs \ S : Untouched(proc'[p], proc[p]) /\ kern'[p] = kern[p] /\ mem'[p] = mem[p],
         \A p \in S : /\ Tame(proc'[p], kern'[p], mem'[p].count, seen'.cut[p])
                      /\ {"count", "drift", "status"} \subseteq DOMAIN mem'[p]
                      /\ seen.cut[p] # NoCall => proc'[p].savedtf = proc[p].savedtf,
         DOMAIN mem' = Procs, page' = page, "cut" \in DOMAIN seen', seen'.cut = seen.cut
  PROVE  AOK'
<1>1. ASSUME NEW p \in Procs
      PROVE  /\ Tame(proc'[p], kern'[p], mem'[p].count, seen'.cut[p])
             /\ {"count", "drift", "status"} \subseteq DOMAIN mem'[p]
             /\ seen.cut[p] # NoCall => proc'[p].savedtf = proc[p].savedtf
  <2>1. CASE p \in S
    BY <2>1
  <2>2. CASE p \notin S
    <3>1. Untouched(proc'[p], proc[p]) /\ kern'[p] = kern[p] /\ mem'[p] = mem[p] /\ seen'.cut[p] = seen.cut[p]
      BY <2>2
    <3>2. Tame(proc'[p], kern[p], mem[p].count, seen.cut[p])
      BY <3>1, ANow, UntouchedTame
    <3>3. proc'[p].savedtf = proc[p].savedtf
      BY <3>1 DEF Untouched
    <3> QED  BY <3>1, <3>2, <3>3, ANow DEF TamePast
  <2> QED  BY <2>1, <2>2
<1>2. AlarmOK'
  BY <1>1, TameSame
<1>3. TamePast'
  BY <1>1, ANow DEF TamePast, Procs
<1>4. InHandler' = InHandler
  BY DEF InHandler, Procs
<1>5. PagesOK'
  BY <1>1, <1>4, ANow DEF PagesOK, InHandler
<1> QED  BY <1>2, <1>3, <1>5 DEF AOK

LEMMA OneStep ==
  ASSUME AInv, work' = work, NEW p \in Procs,
         \A q \in Procs \ {p} : Untouched(proc'[q], proc[q]) /\ kern'[q] = kern[q] /\ mem'[q] = mem[q],
         Tame(proc'[p], kern'[p], mem'[p].count, seen.cut[p]),
         {"count", "drift", "status"} \subseteq DOMAIN mem'[p], proc'[p].savedtf = proc[p].savedtf,
         DOMAIN mem' = Procs, page' = page, "cut" \in DOMAIN seen', seen'.cut = seen.cut
  PROVE  AOK'
<1>1. {p} \in SUBSET Procs
  OBVIOUS
<1>2. \A q \in {p} : /\ Tame(proc'[q], kern'[q], mem'[q].count, seen'.cut[q])
                     /\ {"count", "drift", "status"} \subseteq DOMAIN mem'[q]
                     /\ seen.cut[q] # NoCall => proc'[q].savedtf = proc[q].savedtf
  OBVIOUS
<1> QED  BY <1>1, <1>2, SomeStep

LEMMA NobodyStep ==
  ASSUME AInv, work' = work, \A p \in Procs : Untouched(proc'[p], proc[p]), kern' = kern, mem' = mem, page' = page,
         seen' = seen
  PROVE  AOK'
<1>1. \A p \in Procs \ {} : Untouched(proc'[p], proc[p]) /\ kern'[p] = kern[p] /\ mem'[p] = mem[p]
  OBVIOUS
<1>2. {} \in SUBSET Procs /\ DOMAIN mem' = Procs /\ "cut" \in DOMAIN seen' /\ seen'.cut = seen.cut
  BY ANow DEF TamePast
<1> QED  BY <1>1, <1>2, SomeStep

LEMMA UntouchedSelf == ASSUME NEW r, Shape(r) PROVE Untouched(r, r)
BY DEF Untouched

LEMMA UntouchedTwice ==
  ASSUME NEW r, NEW s, NEW t, Untouched(r, s), Untouched(s, t)
  PROVE  Untouched(r, t)
BY DEF Untouched

LEMMA WokenUntouched ==
  ASSUME NEW procs, NEW chan, NEW p \in Procs, Shape(procs[p])
  PROVE  Untouched(Woken(procs, chan)[p], procs[p])
<1>1. PICK r : r = Woken(procs, chan)[p]
  OBVIOUS
<1>2. r = procs[p] \/ (procs[p].state = "SLEEPING" /\ r = [procs[p] EXCEPT !.state = "RUNNABLE"])
  BY <1>1 DEF Woken
<1>3. Untouched(r, procs[p])
  BY <1>2 DEF Untouched, Shape
<1> QED  BY <1>1, <1>3

LEMMA ScanAlarm == ASSUME AInv, NEW h \in Harts, Total(h) \/ Draw(h) \/ Take(h) PROVE AOK'
<1>1. \A p \in Procs : Untouched(proc'[p], proc[p])
  <2>1. CASE proc' = proc
    BY <2>1, ANow, UntouchedSelf
  <2>2. CASE proc' # proc
    <3>1. PICK p \in Procs : proc[p].state = "RUNNABLE" /\ proc' = [proc EXCEPT ![p].state = "RUNNING"]
      BY <2>2 DEF Total, Draw, Take, Ready
    <3> TAKE q \in Procs
    <3>2. Shape(proc[q])
      BY ANow
    <3>3. CASE q = p
      BY <3>1, <3>2, <3>3, ANow DEF Untouched, Shape
    <3>4. CASE q # p
      BY <3>1, <3>2, <3>4, UntouchedSelf
    <3> QED  BY <3>3, <3>4
  <2> QED  BY <2>1, <2>2
<1>2. work' = work /\ kern' = kern /\ mem' = mem /\ page' = page /\ seen' = seen
  BY DEF Total, Draw, Take
<1> QED  BY <1>1, <1>2, NobodyStep

\* An alarm rings: only in an ordinary program, where its handler is the right one.
LEMMA RingTame ==
  ASSUME AInv, NEW r, Shape(r), NEW k, NEW n, Tame(r, k, n, NoCall), r.state # "UNUSED", k = NoCall, Rings(r),
         NEW s, Shape(s), s.tf.pc = <<r.handler, 1>>, s.alarm = FALSE, s.handler = r.handler, s.state = "RUNNABLE"
  PROVE  Tame(s, k, n, r.tf) /\ r.tf # NoCall
<1>1. Outside(r, k, n) /\ r.alarm = TRUE /\ r.alarmticks > 0
  BY DEF Tame, Rings, Shape
<1>2. AtLine(r.tf) /\ Fits(r.handler, r.tf.pc[1], n) /\ (Here(r.tf).op = "child" => r.tf.a0 # 0)
  BY <1>1 DEF Outside, InProgram
<1>3. r.tf.pc[1] = "test2child" => r.tf.pc[2] > 2
  <2>1. r.tf.pc[1] = "test2child" => r.tf.pc[2] \in 1..5
    <3>1. DOMAIN test2child = 1..5
      BY DEF test2child
    <3> QED  BY <1>2, <3>1, CodeFact DEF AtLine
  <2> QED  BY <1>1, <2>1 DEF Outside, Fresh
<1>4. Cut(r.tf)
  BY <1>2, <1>3 DEF Cut, Shape
<1>5. r.tf # NoCall
  <2>1. "pc" \in DOMAIN r.tf /\ "pc" \notin DOMAIN NoCall
    BY DEF Shape, Regs, NoCall
  <2> QED  BY <2>1
<1>6. s.tf.pc[1] = r.handler /\ s.tf.pc[2] = 1
  OBVIOUS
<1>7. InPeriodic(s, k) \/ InDummy(s, k) \/ InSlow(s, k, n, r.tf)
  BY <1>2, <1>6 DEF Fits, InPeriodic, InDummy, InSlow
<1> QED  BY <1>4, <1>5, <1>7 DEF Tame, Inside

LEMMA TrapAlarm ==
  ASSUME AInv, NEW h \in Harts, NEW procs, DOMAIN procs = Procs, \A p \in Procs : Untouched(procs[p], proc[p]),
         TrapEnd(h, procs), work' = work, kern' = kern, mem' = mem
  PROVE  AOK'
<1>1. CASE hart[h].proc = None
  <2>1. proc' = procs /\ page' = page /\ seen' = seen
    BY <1>1 DEF TrapEnd
  <2> QED  BY <2>1, NobodyStep
<1>2. CASE hart[h].proc # None
  <2>1. PICK p \in Procs : p = hart[h].proc /\ proc[p].state = "RUNNING"
    BY <1>2, ANow DEF IInv, TypeOK, OneHart
  <2> DEFINE alone == [procs EXCEPT ![p].state = "RUNNABLE"]
  <2>2. /\ DOMAIN alone = Procs /\ \A q \in Procs \ {p} : alone[q] = procs[q]
        /\ alone[p] = [procs[p] EXCEPT !.state = "RUNNABLE"]
    OBVIOUS
  <2>3. \/ proc' = alone /\ page' = page /\ seen' = seen
        \/ proc' = [alone EXCEPT ![p].tickcounter = @ + 1] /\ page' = page /\ seen' = seen
        \/ /\ kern[p] = NoCall /\ Rings(proc[p])
           /\ \E g \in {x \in Pages : page[x] = NoCall} :
                proc' = [alone EXCEPT ![p] = Alarm(@, g)] /\ page' = [page EXCEPT ![g] = proc[p].tf]
           /\ seen' = [seen EXCEPT !.cut[p] = proc[p].tf]
    BY <1>2, <2>1 DEF TrapEnd
  <2> HIDE DEF alone
  <2>4. Shape(proc[p]) /\ Shape(procs[p]) /\ Untouched(procs[p], proc[p])
    BY ANow DEF Untouched
  <2>5. Untouched(alone[p], proc[p]) /\ alone[p].state = "RUNNABLE"
    BY <2>1, <2>2, <2>4 DEF Untouched, Shape
  <2>6. Shape(alone[p]) /\ alone[p].tf = proc[p].tf /\ alone[p].handler = proc[p].handler
    BY <2>5 DEF Untouched
  <2>7. CASE proc' = alone /\ page' = page /\ seen' = seen
    <3>1. \A q \in Procs : Untouched(proc'[q], proc[q])
      BY <2>2, <2>5, <2>7
    <3> QED  BY <2>7, <3>1, NobodyStep
  <2>8. CASE proc' = [alone EXCEPT ![p].tickcounter = @ + 1] /\ page' = page /\ seen' = seen
    <3>1. proc'[p] = [alone[p] EXCEPT !.tickcounter = @ + 1] /\ \A q \in Procs \ {p} : proc'[q] = procs[q]
      BY <2>2, <2>8
    <3>2. Untouched(proc'[p], alone[p])
      BY <2>6, <3>1 DEF Untouched, Shape
    <3>3. \A q \in Procs : Untouched(proc'[q], proc[q])
      BY <2>5, <3>1, <3>2, UntouchedTwice
    <3> QED  BY <2>8, <3>3, NobodyStep
  <2>9. ASSUME kern[p] = NoCall, Rings(proc[p]), NEW g \in Pages, page[g] = NoCall,
               proc' = [alone EXCEPT ![p] = Alarm(@, g)], page' = [page EXCEPT ![g] = proc[p].tf],
               seen' = [seen EXCEPT !.cut[p] = proc[p].tf]
        PROVE  AOK'
    <3>1. proc'[p] = Alarm(alone[p], g) /\ \A q \in Procs \ {p} : proc'[q] = procs[q]
      BY <2>2, <2>9
    <3>2. /\ Shape(proc'[p]) /\ proc'[p].tf.pc = <<proc[p].handler, 1>> /\ proc'[p].alarm = FALSE
          /\ proc'[p].handler = proc[p].handler /\ proc'[p].state = "RUNNABLE" /\ proc'[p].savedtf = g
      BY <2>5, <2>6, <3>1 DEF Alarm, Shape, Regs
    <3>3. seen.cut[p] = NoCall
      <4>1. Tame(proc[p], kern[p], mem[p].count, seen.cut[p])
        BY ANow
      <4>2. proc[p].alarm = TRUE /\ proc[p].alarmticks > 0
        BY <2>4, <2>9 DEF Rings, Shape
      <4> QED  BY <4>1, <4>2 DEF Tame, Inside
    <3>4. /\ "cut" \in DOMAIN seen' /\ DOMAIN seen'.cut = Procs /\ seen'.cut[p] = proc[p].tf
          /\ \A q \in Procs \ {p} : seen'.cut[q] = seen.cut[q]
      BY <2>9, ANow DEF TamePast
    <3>5. Tame(proc'[p], kern'[p], mem'[p].count, seen'.cut[p]) /\ proc[p].tf # NoCall
      <4>1. Tame(proc[p], kern[p], mem[p].count, NoCall)
        BY <3>3, ANow
      <4> QED  BY <2>1, <2>4, <2>9, <3>2, <3>4, <4>1, RingTame
    <3>6. AlarmOK'
      <4>1. \A q \in Procs \ {p} : Tame(proc'[q], kern'[q], mem'[q].count, seen'.cut[q])
        BY <3>1, <3>4, ANow, UntouchedTame
      <4> QED  BY <3>5, <4>1, TameSame
    <3>7. DOMAIN page' = Pages /\ page'[g] = proc[p].tf /\ \A x \in Pages \ {g} : page'[x] = page[x]
      BY <2>9, ANow DEF TamePast
    <3>8. TamePast'
      BY <3>4, <3>7, ANow DEF TamePast, Procs
    <3>9. InHandler' = InHandler \cup {p} /\ p \notin InHandler
      BY <3>3, <3>4, <3>5 DEF InHandler, Procs
    <3>10. \A q \in InHandler : /\ q # p /\ seen'.cut[q] = seen.cut[q] /\ proc'[q].savedtf = proc[q].savedtf
                                /\ proc[q].savedtf # g
      <4> TAKE q \in InHandler
      <4>1. q \in Procs /\ q # p /\ seen.cut[q] # NoCall
        BY <3>9 DEF InHandler
      <4>2. page[proc[q].savedtf] = seen.cut[q]
        BY ANow DEF PagesOK
      <4>3. proc'[q].savedtf = proc[q].savedtf
        BY <3>1, <4>1 DEF Untouched
      <4> QED  BY <2>9, <3>4, <4>1, <4>2, <4>3
    <3>11. PagesOK'
      BY <3>2, <3>4, <3>7, <3>9, <3>10, ANow DEF PagesOK
    <3> QED  BY <3>6, <3>8, <3>11 DEF AOK
  <2> QED  BY <2>3, <2>7, <2>8, <2>9
<1> QED  BY <1>1, <1>2

LEMMA ClockAlarm ==
  ASSUME AInv, Late \/ Tick \/ UpdateTime \/ ClockEnd \/ \E h \in Harts : OtherTick(h)
  PROVE  AOK'
<1>1. ASSUME Late \/ Tick PROVE AOK'
  <2>1. proc' = proc /\ work' = work /\ kern' = kern /\ mem' = mem /\ page' = page /\ seen' = seen
    BY <1>1 DEF Late, Tick, vars
  <2> QED  BY <2>1, ANow, UntouchedSelf, NobodyStep
<1>2. CASE UpdateTime
  <2>1. PICK last : proc' = [p \in Procs |-> IF p \in clk..last /\ proc[p].state = "RUNNING"
                                            THEN [proc[p] EXCEPT !.rtime = @ + 1] ELSE proc[p]]
    BY <1>2 DEF UpdateTime
  <2>2. ASSUME NEW p \in Procs PROVE Untouched(proc'[p], proc[p])
    <3>1. proc'[p] = proc[p] \/ proc'[p] = [proc[p] EXCEPT !.rtime = @ + 1]
      BY <2>1
    <3>2. Shape(proc[p])
      BY ANow
    <3> QED  BY <3>1, <3>2 DEF Untouched, Shape
  <2>3. work' = work /\ kern' = kern /\ mem' = mem /\ page' = page /\ seen' = seen
    BY <1>2 DEF UpdateTime
  <2> QED  BY <2>2, <2>3, NobodyStep
<1>3. CASE ClockEnd
  <2>1. TrapEnd(1, Woken(proc, TicksChan)) /\ 1 \in Harts /\ work' = work /\ kern' = kern /\ mem' = mem
    BY <1>3, ANow DEF ClockEnd, IInv, TypeOK
  <2>2. DOMAIN Woken(proc, TicksChan) = Procs /\ \A p \in Procs : Untouched(Woken(proc, TicksChan)[p], proc[p])
    <3>1. DOMAIN Woken(proc, TicksChan) = Procs
      BY DEF Woken
    <3> QED  BY <3>1, ANow, WokenUntouched
  <2> QED  BY <2>1, <2>2, TrapAlarm
<1>4. ASSUME NEW h \in Harts, OtherTick(h) PROVE AOK'
  <2>1. TrapEnd(h, proc) /\ work' = work /\ kern' = kern /\ mem' = mem
    BY <1>4 DEF OtherTick
  <2> QED  BY <2>1, ANow, UntouchedSelf, TrapAlarm
<1> QED  BY <1>1, <1>2, <1>3, <1>4

-----------------------------------------------------------------------------
\* The line a call comes from.
LEMMA CallLine ==
  ASSUME AInv, NEW r, NEW k, NEW n, Shape(r), Outside(r, k, n), k # NoCall
  PROVE  /\ MainLine(r.tf.pc[1], Code(r.tf.pc[1]), r.tf.pc[2] - 1) /\ Begun(k, Last(r.tf))
         /\ r.tf.pc[1] = "test2child" => r.tf.pc[2] \in {3, 6}
<1>1. r.tf.pc[1] \in Ordinary /\ r.tf.pc[2] - 1 \in DOMAIN Code(r.tf.pc[1]) /\ Begun(k, Last(r.tf)) /\ r.tf.pc[2] \in Int
  BY DEF Outside, InProgram, Shape, Regs
<1>2. MainLine(r.tf.pc[1], Code(r.tf.pc[1]), r.tf.pc[2] - 1)
  BY <1>1, Sounds DEF Sound
<1>3. ASSUME r.tf.pc[1] = "test2child" PROVE r.tf.pc[2] \in {3, 6}
  <2>1. DOMAIN test2child = 1..5
    BY DEF test2child
  <2>2. test2child[1].op # "ecall" /\ test2child[3].op # "ecall" /\ test2child[4].op # "ecall"
    BY DEF test2child, Zero, Until, Jump
  <2>3. r.tf.pc[2] - 1 \in 1..5 /\ test2child[r.tf.pc[2] - 1].op = "ecall"
    BY <1>1, <1>3, <2>1, CodeFact DEF Begun, Last
  <2> QED  BY <1>1, <2>2, <2>3
<1> QED  BY <1>1, <1>2, <1>3

\* Calls a handler does not make.
LEMMA CallerOutside ==
  ASSUME AInv, NEW p \in Procs, kern[p].call \notin {"none", "write", "sigalarm", "sigreturn"}
  PROVE  /\ seen.cut[p] = NoCall /\ proc[p].state # "UNUSED" /\ Outside(proc[p], kern[p], mem[p].count)
         /\ kern[p] # NoCall
<1>1. Tame(proc[p], kern[p], mem[p].count, seen.cut[p])
  BY ANow
<1>2. kern[p] # NoCall
  BY DEF NoCall
<1>3. ~Inside(proc[p], kern[p], mem[p].count, seen.cut[p])
  BY <1>2 DEF Inside, InPeriodic, InDummy, InSlow, Write, Sigalarm, Sigreturn, Ecall
<1> QED  BY <1>1, <1>2, <1>3 DEF Tame

\* A call returns to an ordinary program.
LEMMA ReturnTame ==
  ASSUME AInv, NEW r, NEW k, NEW n, Shape(r), Outside(r, k, n), k # NoCall, Last(r.tf).call \notin {"exit", "exec"},
         NEW s, Shape(s), s.state \notin {"UNUSED", "ZOMBIE"}, s.tf.pc = r.tf.pc,
         Last(r.tf).call = "fork" => s.tf.a0 # 0 \/ s.alarm = FALSE,
         s.alarm = TRUE /\ s.alarmticks > 0 => Fits(s.handler, r.tf.pc[1], n)
  PROVE  Tame(s, NoCall, n, NoCall)
<1>1. /\ MainLine(r.tf.pc[1], Code(r.tf.pc[1]), r.tf.pc[2] - 1) /\ Begun(k, Last(r.tf))
      /\ r.tf.pc[1] = "test2child" => r.tf.pc[2] \in {3, 6}
  BY CallLine
<1>2. (r.tf.pc[2] - 1) + 1 = r.tf.pc[2] /\ r.tf.pc[1] \in Ordinary
  BY DEF Shape, Regs, Outside, InProgram
<1>3. AtLine(s.tf) /\ (Last(r.tf).call = "fork" \/ Here(s.tf).op # "child")
  BY <1>1, <1>2 DEF MainLine, Begun, Last, AtLine, Here
<1>4. InProgram(s.tf, s.alarm, NoCall)
  BY <1>2, <1>3 DEF InProgram, Shape
<1>5. Fresh(s.tf, s.alarm, NoCall, n)
  BY <1>1 DEF Fresh
<1> QED  BY <1>4, <1>5 DEF Tame, Outside

LEMMA EntersTame ==
  ASSUME AInv, NEW r, NEW n, NEW cut, Tame(r, NoCall, n, cut), r.state \notin {"UNUSED", "ZOMBIE"},
         NEW i, i = Here(r.tf), i.op = "ecall", i.call \in Calls,
         NEW s, Shape(s), s.state = r.state, s.tf.pc[1] = r.tf.pc[1], s.tf.pc[2] = r.tf.pc[2] + 1,
         s.alarm = r.alarm, s.alarmticks = r.alarmticks, s.handler = r.handler
  PROVE  Tame(s, i, n, cut)
<1>1. i # NoCall
  BY DEF NoCall, Calls
<1>2. ASSUME cut = NoCall PROVE Outside(s, i, n)
  <2>1. Outside(r, NoCall, n) /\ r.tf.pc[2] \in Int /\ (r.tf.pc[2] + 1) - 1 = r.tf.pc[2]
    BY <1>2 DEF Tame, Shape, Regs
  <2>2. InProgram(s.tf, s.alarm, i)
    BY <1>1, <2>1 DEF Outside, InProgram, AtLine, Begun, Last, Here
  <2>3. ASSUME s.tf.pc[1] = "test2child" PROVE r.tf.pc[2] \in 2..5
    <3>1. DOMAIN test2child = 1..5 /\ test2child[1].op # "ecall"
      BY DEF test2child, Zero
    <3>2. r.tf.pc[2] \in 1..5 /\ test2child[r.tf.pc[2]].op = "ecall"
      BY <2>1, <2>3, <3>1, CodeFact DEF Outside, InProgram, AtLine, Here
    <3> QED  BY <3>1, <3>2
  <2>4. Fresh(s.tf, s.alarm, i, n)
    <3>1. SUFFICES ASSUME s.tf.pc[1] = "test2child", s.tf.pc[2] \in {1, 2, 3} PROVE s.alarm = FALSE /\ n = 0
      BY DEF Fresh
    <3>2. r.tf.pc[2] = 2
      BY <2>1, <2>3, <3>1
    <3>3. Fresh(r.tf, r.alarm, NoCall, n)
      BY <2>1 DEF Outside
    <3> QED  BY <3>1, <3>2, <3>3 DEF Fresh
  <2> QED  BY <2>1, <2>2, <2>4 DEF Outside
<1>3. ASSUME cut # NoCall PROVE Inside(s, i, n, cut)
  <2>1. Inside(r, NoCall, n, cut)
    BY <1>3 DEF Tame
  <2>2. CASE InPeriodic(r, NoCall)
    <3>1. r.tf.pc[2] \in 1..3 /\ i = periodic[r.tf.pc[2]]
      BY <2>2, CodeFact DEF InPeriodic, Here, NoCall, Write, Sigreturn, Ecall
    <3>2. periodic[1].op # "ecall" /\ periodic[2] = Write /\ periodic[3] = Sigreturn
      BY DEF periodic, Count
    <3>3. InPeriodic(s, i)
      BY <2>2, <3>1, <3>2 DEF InPeriodic
    <3> QED  BY <2>1, <3>3 DEF Inside
  <2>3. CASE InDummy(r, NoCall)
    <3>1. /\ r.tf.pc[2] = 1 \/ (r.tf.pc[2] = 2 /\ r.alarmticks = 0)
          /\ i = dummy_handler[r.tf.pc[2]]
      BY <2>3, CodeFact DEF InDummy, Here, NoCall, Sigalarm, Sigreturn, Ecall
    <3>2. dummy_handler[1] = Sigalarm(0, "none") /\ dummy_handler[2] = Sigreturn
      BY DEF dummy_handler
    <3>3. InDummy(s, i)
      BY <2>3, <3>1, <3>2 DEF InDummy
    <3> QED  BY <2>1, <3>3 DEF Inside
  <2>4. CASE InSlow(r, NoCall, n, cut)
    <3>1. /\ \/ r.tf.pc[2] = 1 /\ n = 0
             \/ r.tf.pc[2] \in 2..4 /\ n = 1
             \/ r.tf.pc[2] = 5 /\ r.alarmticks = 0
          /\ i = slow_handler[r.tf.pc[2]]
      BY <2>4, CodeFact DEF InSlow, Here, NoCall, Sigalarm, Sigreturn, Write, Ecall
    <3>2. /\ slow_handler[1].op # "ecall" /\ slow_handler[2] = Write /\ slow_handler[3].op # "ecall"
          /\ slow_handler[4] = Sigalarm(0, "none") /\ slow_handler[5] = Sigreturn
      BY DEF slow_handler, Count, Until
    <3>3. InSlow(s, i, n, cut)
      BY <2>4, <3>1, <3>2 DEF InSlow
    <3> QED  BY <2>1, <3>3 DEF Inside
  <2> QED  BY <2>1, <2>2, <2>3, <2>4 DEF Inside
<1> QED  BY <1>2, <1>3 DEF Tame

LEMMA EntersAlarm == ASSUME AInv, NEW h \in Harts, NEW p \in Procs, Enters(h, p) PROVE AOK'
<1>1. PICK i : i = Here(proc[p].tf) /\ i.op = "ecall" /\ i.call \in Calls
  BY DEF Enters, Instruction, Here
<1>2. /\ kern[p] = NoCall /\ kern' = [kern EXCEPT ![p] = i] /\ Runs(h, p)
      /\ proc' = [proc EXCEPT ![p].tf.pc[2] = @ + 1, ![p].counts[i.call] = @ + 1]
      /\ work' = work /\ mem' = mem /\ page' = page
  BY <1>1 DEF Enters, Instruction, Here
<1>3. Shape(proc[p]) /\ proc[p].state = "RUNNING" /\ Tame(proc[p], NoCall, mem[p].count, seen.cut[p])
  BY <1>2, ANow, RunsFact
<1>4. /\ Shape(proc'[p]) /\ proc'[p].state = proc[p].state /\ proc'[p].tf.pc[1] = proc[p].tf.pc[1]
      /\ proc'[p].tf.pc[2] = proc[p].tf.pc[2] + 1 /\ proc'[p].alarm = proc[p].alarm
      /\ proc'[p].alarmticks = proc[p].alarmticks /\ proc'[p].handler = proc[p].handler
      /\ proc'[p].savedtf = proc[p].savedtf
  BY <1>2, <1>3, ANow DEF Shape, Regs
<1>5. Tame(proc'[p], i, mem[p].count, seen.cut[p])
  BY <1>1, <1>3, <1>4, EntersTame
<1>6. "cut" \in DOMAIN seen' /\ seen'.cut = seen.cut
  BY ANow DEF Enters, TamePast
<1>7. \A q \in Procs \ {p} : Untouched(proc'[q], proc[q]) /\ kern'[q] = kern[q] /\ mem'[q] = mem[q]
  BY <1>2, ANow, UntouchedSelf
<1>8. kern'[p] = i /\ mem'[p] = mem[p] /\ {"count", "drift", "status"} \subseteq DOMAIN mem'[p] /\ DOMAIN mem' = Procs
  BY <1>2, ANow DEF TamePast
<1>9. Tame(proc'[p], kern'[p], mem'[p].count, seen.cut[p])
  BY <1>5, <1>8
<1> QED  BY <1>2, <1>4, <1>6, <1>7, <1>8, <1>9, OneStep

\* An instruction in user mode leads to the next, to another line of the code or to
\* the first of another program.
LEMMA ComputesTame ==
  ASSUME AInv, NEW r, NEW n, NEW cut, Tame(r, NoCall, n, cut), r.state \notin {"UNUSED", "ZOMBIE"},
         NEW i, i = Here(r.tf), i.op # "ecall",
         NEW s, Shape(s), s.state = r.state,
         s.alarm = r.alarm, s.alarmticks = r.alarmticks, s.handler = r.handler,
         \/ i.op = "jump" /\ s.tf.pc[1] = r.tf.pc[1] /\ s.tf.pc[2] \in i.to
         \/ i.op = "until" /\ n >= i.n /\ s.tf.pc[1] = r.tf.pc[1] /\ s.tf.pc[2] = i.to
         \/ i.op = "goto" /\ s.tf.pc[1] = i.prog /\ s.tf.pc[2] = 1
         \/ i.op = "child" /\ r.tf.a0 = 0 /\ s.tf.pc[1] = i.prog /\ s.tf.pc[2] = 1
         \/ i.op \notin {"jump", "goto"} /\ s.tf.pc[1] = r.tf.pc[1] /\ s.tf.pc[2] = r.tf.pc[2] + 1,
         NEW m, m = (CASE i.op = "zero" -> 0 [] i.op = "count" -> n + 1 [] OTHER -> n)
  PROVE  Tame(s, NoCall, m, cut)
<1>1. ASSUME cut = NoCall PROVE Outside(s, NoCall, m)
  <2>1. Outside(r, NoCall, n)
    BY <1>1 DEF Tame
  <2>2. PICK prog, line : /\ prog \in Ordinary /\ prog = r.tf.pc[1] /\ line = r.tf.pc[2]
                          /\ line \in DOMAIN Code(prog) /\ i = Code(prog)[line]
    BY <2>1 DEF Outside, InProgram, AtLine, Here
  <2>3. MainLine(prog, Code(prog), line)
    BY <2>2, Sounds DEF Sound
  <2>4. \A q \in Mains : Plain(Code(q), 1)
    BY Sounds DEF Sound, Ordinary
  <2>5. CASE i.op \in {"goto", "child"} /\ s.tf.pc[1] = i.prog /\ s.tf.pc[2] = 1 /\ (i.op = "child" => r.tf.a0 = 0)
    <3>1. i.prog \in Mains /\ (i.op = "goto" => i.prog # "test2child")
      BY <2>2, <2>3, <2>5 DEF MainLine
    <3>2. AtLine(s.tf) /\ Here(s.tf).op # "child"
      BY <2>4, <2>5, <3>1 DEF AtLine, Here, Plain, Ordinary
    <3>3. i.op = "child" => s.alarm = FALSE
      BY <2>1, <2>5 DEF Outside, InProgram
    <3>4. prog # "test2child"
      <4>1. DOMAIN test2child = 1..5 /\ \A k \in 1..5 : test2child[k].op \notin {"goto", "child"}
        BY DEF test2child, Zero, Until, Jump, Sigalarm, Exit
      <4> QED  BY <2>2, <2>5, <4>1, CodeFact
    <3>5. s.alarm = TRUE /\ s.alarmticks > 0 => Fits(s.handler, s.tf.pc[1], m)
      BY <2>1, <2>2, <3>4 DEF Outside, Fits
    <3>6. Fresh(s.tf, s.alarm, NoCall, m)
      BY <2>5, <3>1, <3>3 DEF Fresh
    <3>7. InProgram(s.tf, s.alarm, NoCall)
      BY <3>2 DEF InProgram, AtLine
    <3> QED  BY <3>5, <3>6, <3>7 DEF Outside
  <2>6. CASE /\ s.tf.pc[1] = r.tf.pc[1]
             /\ \/ i.op = "jump" /\ s.tf.pc[2] \in i.to
                \/ i.op = "until" /\ s.tf.pc[2] = i.to
                \/ i.op \notin {"jump", "goto"} /\ s.tf.pc[2] = r.tf.pc[2] + 1
    <3>1. Plain(Code(prog), s.tf.pc[2])
      BY <2>2, <2>3, <2>6 DEF MainLine
    <3>2. InProgram(s.tf, s.alarm, NoCall)
      BY <2>2, <2>6, <3>1 DEF InProgram, AtLine, Here, Plain
    <3>3. ASSUME prog = "test2child"
          PROVE  /\ m \in {0, n}
                 /\ s.tf.pc[2] \in {1, 2} => s.tf.pc[2] = 2 /\ r.tf.pc[2] = 1 /\ m = 0
      <4>1. /\ DOMAIN test2child = 1..5 /\ test2child[1].op = "zero" /\ test2child[2].op = "ecall"
            /\ test2child[3].op = "until" /\ test2child[3].to = 5
            /\ test2child[4].op = "jump" /\ test2child[4].to = {3} /\ test2child[5].op = "ecall"
        BY DEF test2child, Zero, Until, Jump, Sigalarm, Exit, Ecall
      <4>2. line \in {1, 3, 4} /\ i = test2child[line]
        BY <2>2, <3>3, <4>1, CodeFact
      <4>3. CASE line = 1
        BY <2>2, <2>6, <4>1, <4>2, <4>3
      <4>4. CASE line = 3
        BY <2>2, <2>6, <4>1, <4>2, <4>4
      <4>5. CASE line = 4
        BY <2>2, <2>6, <4>1, <4>2, <4>5
      <4> QED  BY <4>2, <4>3, <4>4, <4>5
    <3>4. s.alarm = TRUE /\ s.alarmticks > 0 => Fits(s.handler, s.tf.pc[1], m)
      BY <2>1, <2>2, <2>6, <3>3 DEF Outside, Fits
    <3>5. Fresh(s.tf, s.alarm, NoCall, m)
      BY <2>1, <2>2, <2>6, <3>3 DEF Outside, Fresh
    <3> QED  BY <3>2, <3>4, <3>5 DEF Outside
  <2> QED  BY <2>5, <2>6
<1>2. ASSUME cut # NoCall PROVE Inside(s, NoCall, m, cut)
  <2>1. Inside(r, NoCall, n, cut)
    BY <1>2 DEF Tame
  <2>2. CASE InPeriodic(r, NoCall)
    <3>1. r.tf.pc[2] \in 1..3 /\ i = periodic[r.tf.pc[2]]
      BY <2>2, CodeFact DEF InPeriodic, Here, NoCall, Write, Sigreturn, Ecall
    <3>2. periodic[1].op = "count" /\ periodic[2].op = "ecall" /\ periodic[3].op = "ecall"
      BY DEF periodic, Count, Write, Sigreturn, Ecall
    <3>3. InPeriodic(s, NoCall)
      BY <2>2, <3>1, <3>2 DEF InPeriodic
    <3> QED  BY <2>1, <3>3 DEF Inside
  <2>3. CASE InDummy(r, NoCall)
    <3>1. r.tf.pc[2] \in 1..2 /\ i = dummy_handler[r.tf.pc[2]]
      BY <2>3, CodeFact DEF InDummy, Here, NoCall, Sigalarm, Sigreturn, Ecall
    <3>2. dummy_handler[1].op = "ecall" /\ dummy_handler[2].op = "ecall"
      BY DEF dummy_handler, Sigalarm, Sigreturn, Ecall
    <3> QED  BY <3>1, <3>2
  <2>4. CASE InSlow(r, NoCall, n, cut)
    <3>1. /\ \/ r.tf.pc[2] = 1 /\ n = 0
             \/ r.tf.pc[2] \in 2..4 /\ n = 1
             \/ r.tf.pc[2] = 5
          /\ i = slow_handler[r.tf.pc[2]]
      BY <2>4, CodeFact DEF InSlow, Here, NoCall, Sigalarm, Sigreturn, Write, Ecall
    <3>2. /\ slow_handler[1].op = "count" /\ slow_handler[2].op = "ecall" /\ slow_handler[3].op = "until"
          /\ slow_handler[3].n = 2 /\ slow_handler[4].op = "ecall" /\ slow_handler[5].op = "ecall"
      BY DEF slow_handler, Count, Until, Write, Sigalarm, Sigreturn, Ecall
    <3>3. s.tf.pc[1] = r.tf.pc[1] /\ s.tf.pc[1] = "slow_handler" /\ cut.pc[1] = "test2child"
      BY <2>4, <3>1, <3>2 DEF InSlow
    <3>4. r.tf.pc[2] \notin {2, 4, 5}
      BY <3>1, <3>2
    <3>5. InSlow(s, NoCall, m, cut)
      <4>1. CASE r.tf.pc[2] = 1 /\ n = 0
        <5>1. m = 1 /\ s.tf.pc[2] = 2
          BY <3>1, <3>2, <4>1
        <5> QED  BY <3>3, <5>1 DEF InSlow
      <4>2. CASE r.tf.pc[2] = 3 /\ n = 1
        <5>1. m = 1 /\ s.tf.pc[2] = 4
          BY <3>1, <3>2, <4>2
        <5> QED  BY <3>3, <5>1 DEF InSlow
      <4> QED  BY <3>1, <3>4, <4>1, <4>2
    <3> QED  BY <2>1, <3>5 DEF Inside
  <2> QED  BY <2>1, <2>2, <2>3, <2>4 DEF Inside
<1> QED  BY <1>1, <1>2 DEF Tame

LEMMA ComputesAlarm == ASSUME AInv, NEW h \in Harts, NEW p \in Procs, Computes(h, p) PROVE AOK'
<1>1. PICK i \in {Instruction(p)}, pc \in {proc[p].tf.pc} :
       /\ \E next \in CASE i.op = "jump" -> {Line(pc, n) : n \in i.to}
                        [] i.op = "until" /\ mem[p].count >= i.n -> {Line(pc, i.to)}
                        [] i.op = "goto" \/ (i.op = "child" /\ proc[p].tf.a0 = 0) -> {<<i.prog, 1>>}
                        [] OTHER -> {Line(pc, pc[2] + 1)} :
            proc' = [proc EXCEPT ![p].tf = [pc |-> next, a0 |-> IF i.op = "li" THEN i.v ELSE @.a0]]
       /\ mem' = CASE i.op = "zero" -> [mem EXCEPT ![p].count = 0, ![p].drift = 0]
                   [] i.op = "count" -> [mem EXCEPT ![p].count = @ + 1]
                   [] i.op = "adds" -> [mem EXCEPT ![p].drift = @ + i.n]
                   [] OTHER -> mem
       /\ seen' = IF i.op = "passes" /\ ~Met(p, i) THEN [seen EXCEPT !.failed = @ \cup {pc[1]}] ELSE seen
  BY DEF Computes
<1> DEFINE n == mem[p].count
<1>3. PICK next, a0 :
        /\ next \in CASE i.op = "jump" -> {Line(pc, t) : t \in i.to}
                      [] i.op = "until" /\ n >= i.n -> {Line(pc, i.to)}
                      [] i.op = "goto" \/ (i.op = "child" /\ proc[p].tf.a0 = 0) -> {<<i.prog, 1>>}
                      [] OTHER -> {Line(pc, pc[2] + 1)}
        /\ proc' = [proc EXCEPT ![p].tf = [pc |-> next, a0 |-> a0]]
  BY <1>1
<1>4. i = Instruction(p) /\ pc = proc[p].tf.pc /\ i = Here(proc[p].tf)
  BY DEF Instruction, Here
<1>5. /\ kern[p] = NoCall /\ kern' = kern /\ Runs(h, p) /\ i.op # "ecall" /\ work' = work /\ page' = page
      /\ mem' = CASE i.op = "zero" -> [mem EXCEPT ![p].count = 0, ![p].drift = 0]
                  [] i.op = "count" -> [mem EXCEPT ![p].count = @ + 1]
                  [] i.op = "adds" -> [mem EXCEPT ![p].drift = @ + i.n]
                  [] OTHER -> mem
  <2>1. kern[p] = NoCall /\ kern' = kern /\ Runs(h, p) /\ Instruction(p).op # "ecall" /\ work' = work /\ page' = page
    BY DEF Computes
  <2> QED  BY <1>1, <1>4, <2>1
<1>0. n = mem[p].count
  OBVIOUS
<1> HIDE DEF n
<1>6. Shape(proc[p]) /\ proc[p].state = "RUNNING" /\ Tame(proc[p], NoCall, n, seen.cut[p])
  BY <1>0, <1>5, ANow, RunsFact
<1>7. {1, 2} \subseteq DOMAIN pc /\ pc[2] \in Int
  BY <1>4, <1>6 DEF Shape, Regs
<1>8. \A t : DOMAIN Line(pc, t) = DOMAIN pc /\ Line(pc, t)[1] = pc[1] /\ Line(pc, t)[2] = t
  BY <1>7 DEF Line
<1>9. /\ {1, 2} \subseteq DOMAIN next
      /\ \/ i.op = "jump" /\ next[1] = pc[1] /\ next[2] \in i.to
         \/ i.op = "until" /\ n >= i.n /\ next[1] = pc[1] /\ next[2] = i.to
         \/ i.op = "goto" /\ next[1] = i.prog /\ next[2] = 1
         \/ i.op = "child" /\ proc[p].tf.a0 = 0 /\ next[1] = i.prog /\ next[2] = 1
         \/ i.op \notin {"jump", "goto"} /\ next[1] = pc[1] /\ next[2] = pc[2] + 1
  <2>1. CASE i.op = "jump"
    BY <1>3, <1>7, <1>8, <2>1
  <2>2. CASE i.op = "until" /\ n >= i.n
    BY <1>3, <1>7, <1>8, <2>2
  <2>3. CASE i.op = "goto" \/ (i.op = "child" /\ proc[p].tf.a0 = 0)
    <3>1. next = <<i.prog, 1>>
      BY <1>3, <2>3
    <3> QED  BY <2>3, <3>1
  <2>4. CASE /\ i.op \notin {"jump", "goto"} /\ ~(i.op = "until" /\ n >= i.n)
             /\ ~(i.op = "child" /\ proc[p].tf.a0 = 0)
    <3>1. next = Line(pc, pc[2] + 1)
      BY <1>3, <2>4
    <3> QED  BY <1>7, <1>8, <2>4, <3>1
  <2> QED  BY <2>1, <2>2, <2>3, <2>4
<1>10. /\ DOMAIN proc'[p] = DOMAIN proc[p] /\ proc'[p].tf = [pc |-> next, a0 |-> a0]
       /\ proc'[p].state = proc[p].state /\ proc'[p].alarm = proc[p].alarm
       /\ proc'[p].alarmticks = proc[p].alarmticks /\ proc'[p].handler = proc[p].handler
       /\ proc'[p].savedtf = proc[p].savedtf
  BY <1>3, <1>6, ANow DEF Shape
<1>11. proc'[p].tf.pc = next
  BY <1>10
<1>12. PICK m : m = (CASE i.op = "zero" -> 0 [] i.op = "count" -> n + 1 [] OTHER -> n)
  OBVIOUS
<1>13. /\ mem'[p].count = m /\ \A q \in Procs \ {p} : mem'[q] = mem[q]
       /\ DOMAIN mem' = Procs /\ {"count", "drift", "status"} \subseteq DOMAIN mem'[p]
  <2>1. DOMAIN mem = Procs /\ {"count", "drift", "status"} \subseteq DOMAIN mem[p]
    BY ANow DEF TamePast
  <2>2. CASE i.op = "zero"
    BY <1>5, <1>12, <2>1, <2>2
  <2>3. CASE i.op = "count"
    BY <1>0, <1>5, <1>12, <2>1, <2>3
  <2>4. CASE i.op = "adds"
    BY <1>0, <1>5, <1>12, <2>1, <2>4
  <2>5. CASE i.op \notin {"zero", "count", "adds"}
    BY <1>0, <1>5, <1>12, <2>1, <2>5
  <2> QED  BY <2>2, <2>3, <2>4, <2>5
<1>14. next[2] \in Int
  <2>1. CASE seen.cut[p] = NoCall
    <3>1. Outside(proc[p], NoCall, n)
      BY <1>6, <2>1 DEF Tame
    <3>2. pc[1] \in Ordinary /\ pc[2] \in DOMAIN Code(pc[1]) /\ i = Code(pc[1])[pc[2]]
      BY <1>0, <1>4, <3>1 DEF Outside, InProgram, AtLine, Here
    <3>3. MainLine(pc[1], Code(pc[1]), pc[2]) /\ \A t \in DOMAIN Code(pc[1]) : t \in Int
      BY <3>2, Sounds DEF Sound
    <3>4. /\ i.op = "jump" => \A t \in i.to : t \in DOMAIN Code(pc[1])
          /\ i.op = "until" => i.to \in DOMAIN Code(pc[1])
      BY <3>2, <3>3 DEF MainLine, Plain
    <3> QED  BY <1>7, <1>9, <3>3, <3>4
  <2>2. CASE seen.cut[p] # NoCall
    <3>1. \/ InPeriodic(proc[p], NoCall) \/ InDummy(proc[p], NoCall)
          \/ InSlow(proc[p], NoCall, n, seen.cut[p])
      BY <1>6, <2>2 DEF Tame, Inside
    <3>2. \/ pc[1] = "periodic" /\ pc[2] \in 1..3
          \/ pc[1] = "dummy_handler" /\ pc[2] \in 1..2
          \/ pc[1] = "slow_handler" /\ pc[2] \in 1..5
      BY <1>4, <3>1 DEF InPeriodic, InDummy, InSlow, NoCall, Write, Sigalarm, Sigreturn, Ecall
    <3>3. i.op # "jump" /\ (i.op = "until" => i.to = 6)
      <4>1. /\ \A k \in 1..3 : periodic[k].op \notin {"jump", "until"}
            /\ \A k \in 1..2 : dummy_handler[k].op \notin {"jump", "until"}
            /\ \A k \in 1..5 : slow_handler[k].op # "jump" /\ (slow_handler[k].op = "until" => slow_handler[k].to = 6)
        BY DEF periodic, dummy_handler, slow_handler, Count, Until, Write, Sigalarm, Sigreturn, Ecall
      <4>2. i = Code(pc[1])[pc[2]]
        BY <1>4 DEF Here
      <4> QED  BY <3>2, <4>1, <4>2, CodeFact
    <3> QED  BY <1>7, <1>9, <3>3
  <2> QED  BY <2>1, <2>2
<1>15. Shape(proc'[p])
  BY <1>6, <1>9, <1>10, <1>14 DEF Shape, Regs
<1>16. Tame(proc'[p], NoCall, m, seen.cut[p])
  BY <1>0, <1>4, <1>5, <1>6, <1>9, <1>10, <1>11, <1>12, <1>15, ComputesTame
<1>17. Tame(proc'[p], kern'[p], mem'[p].count, seen.cut[p])
  BY <1>5, <1>13, <1>16
<1>18. "cut" \in DOMAIN seen' /\ seen'.cut = seen.cut
  BY ANow DEF Computes, TamePast
<1>19. \A q \in Procs \ {p} : Untouched(proc'[q], proc[q]) /\ kern'[q] = kern[q] /\ mem'[q] = mem[q]
  BY <1>3, <1>5, <1>13, ANow, UntouchedSelf
<1> QED  BY <1>5, <1>10, <1>13, <1>17, <1>18, <1>19, OneStep

\* The caller alone is touched, and its call is over.
LEMMA CallerStep ==
  ASSUME AInv, work' = work, NEW p \in Procs, Leaves(p), page' = page, seen' = seen,
         mem' = mem, DOMAIN proc' = Procs, \A q \in Procs \ {p} : proc'[q] = proc[q],
         Tame(proc'[p], NoCall, mem[p].count, seen.cut[p]), proc'[p].savedtf = proc[p].savedtf
  PROVE  AOK'
<1>1. \A q \in Procs \ {p} : Untouched(proc'[q], proc[q]) /\ kern'[q] = kern[q] /\ mem'[q] = mem[q]
  BY ANow, UntouchedSelf DEF Leaves
<1>2. Tame(proc'[p], kern'[p], mem'[p].count, seen.cut[p])
  BY ANow DEF Leaves
<1>3. /\ {"count", "drift", "status"} \subseteq DOMAIN mem'[p] /\ DOMAIN mem' = Procs
      /\ "cut" \in DOMAIN seen' /\ seen'.cut = seen.cut
  BY ANow DEF TamePast
<1> QED  BY <1>1, <1>2, <1>3, OneStep

LEMMA ReturnedShape ==
  ASSUME NEW procs, DOMAIN procs = Procs, NEW p \in Procs, Shape(procs[p]), NEW v
  PROVE  LET r == Returned(procs, p, v)
         IN  /\ DOMAIN r = Procs /\ \A q \in Procs \ {p} : r[q] = procs[q]
             /\ Shape(r[p]) /\ r[p].tf.pc = procs[p].tf.pc /\ r[p].tf.a0 = v /\ r[p].state = procs[p].state
             /\ r[p].alarm = procs[p].alarm /\ r[p].alarmticks = procs[p].alarmticks
             /\ r[p].handler = procs[p].handler /\ r[p].savedtf = procs[p].savedtf
BY DEF Returned, Shape, Regs

\* sigalarm() arms the handler the program has for it; in a handler it disarms.
LEMMA SimpleTame ==
  ASSUME AInv, NEW r, NEW k, NEW n, NEW cut, Tame(r, k, n, cut), r.state \notin {"UNUSED", "ZOMBIE"},
         k.call \in {"write", "sigalarm", "settickets", "getSysCount"},
         NEW s, Shape(s), s.state = r.state, s.tf.pc = r.tf.pc,
         \/ k.call = "sigalarm" /\ s.alarm = TRUE /\ s.alarmticks = k.n /\ s.handler = k.handler
         \/ k.call # "sigalarm" /\ s.alarm = r.alarm /\ s.alarmticks = r.alarmticks /\ s.handler = r.handler
  PROVE  Tame(s, NoCall, n, cut)
<1>1. k # NoCall
  BY DEF NoCall
<1>2. CASE cut = NoCall
  <2>1. Outside(r, k, n) /\ Shape(r)
    BY <1>2 DEF Tame
  <2>2. /\ MainLine(r.tf.pc[1], Code(r.tf.pc[1]), r.tf.pc[2] - 1) /\ Begun(k, Last(r.tf))
        /\ r.tf.pc[1] = "test2child" => r.tf.pc[2] \in {3, 6}
    BY <1>1, <2>1, CallLine
  <2>3. k = Last(r.tf) /\ k.op = "ecall"
    BY <2>2 DEF Begun
  <2>4. s.alarm = TRUE /\ s.alarmticks > 0 => Fits(s.handler, r.tf.pc[1], n)
    <3>1. CASE k.call = "sigalarm"
      <4>1. \/ k.n = 0
            \/ k.handler \in {"periodic", "dummy_handler"}
            \/ r.tf.pc[1] = "test2child" /\ r.tf.pc[2] - 1 = 2 /\ k.handler = "slow_handler"
        BY <2>2, <2>3, <3>1 DEF MainLine, Last
      <4>2. r.tf.pc[1] = "test2child" /\ r.tf.pc[2] - 1 = 2 => n = 0
        BY <1>1, <2>1, <2>2 DEF Outside, Fresh
      <4> QED  BY <3>1, <4>1, <4>2 DEF Fits
    <3>2. CASE k.call # "sigalarm"
      BY <2>1, <3>2 DEF Outside
    <3> QED  BY <3>1, <3>2
  <2>5. Tame(s, NoCall, n, NoCall)
    BY <1>1, <2>1, <2>3, <2>4, ReturnTame
  <2> QED  BY <1>2, <2>5
<1>3. CASE cut # NoCall
  <2>1. Inside(r, k, n, cut)
    BY <1>3 DEF Tame
  <2>2. CASE InPeriodic(r, k)
    <3>1. k = Write /\ r.tf.pc[2] = 3
      BY <1>1, <2>2 DEF InPeriodic, Sigreturn, Ecall
    <3>2. k.call # "sigalarm"
      BY <3>1 DEF Write, Ecall
    <3>3. InPeriodic(s, NoCall) /\ ~(s.alarm = TRUE /\ s.alarmticks > 0)
      BY <2>1, <2>2, <3>1, <3>2 DEF InPeriodic, Inside
    <3> QED  BY <1>3, <2>1, <3>3 DEF Tame, Inside
  <2>3. CASE InDummy(r, k)
    <3>1. k = Sigalarm(0, "none") /\ r.tf.pc[2] = 2
      BY <1>1, <2>3 DEF InDummy, Sigreturn, Ecall
    <3>2. k.call = "sigalarm" /\ k.n = 0
      BY <3>1 DEF Sigalarm
    <3>3. InDummy(s, NoCall) /\ ~(s.alarm = TRUE /\ s.alarmticks > 0)
      BY <2>3, <3>1, <3>2 DEF InDummy
    <3> QED  BY <1>3, <2>1, <3>3 DEF Tame, Inside
  <2>4. CASE InSlow(r, k, n, cut)
    <3>1. r.tf.pc[1] = "slow_handler" /\ cut.pc[1] = "test2child"
      BY <2>4 DEF InSlow
    <3>2. CASE k = Write /\ r.tf.pc[2] = 3 /\ n = 1
      <4>1. k.call # "sigalarm"
        BY <3>2 DEF Write, Ecall
      <4>2. InSlow(s, NoCall, n, cut) /\ ~(s.alarm = TRUE /\ s.alarmticks > 0)
        BY <2>1, <3>1, <3>2, <4>1 DEF InSlow, Inside
      <4> QED  BY <1>3, <2>1, <4>2 DEF Tame, Inside
    <3>3. CASE k = Sigalarm(0, "none") /\ r.tf.pc[2] = 5
      <4>1. k.call = "sigalarm" /\ k.n = 0
        BY <3>3 DEF Sigalarm
      <4>2. InSlow(s, NoCall, n, cut) /\ ~(s.alarm = TRUE /\ s.alarmticks > 0)
        BY <3>1, <3>3, <4>1 DEF InSlow
      <4> QED  BY <1>3, <2>1, <4>2 DEF Tame, Inside
    <3> QED  BY <1>1, <2>4, <3>2, <3>3 DEF InSlow, Sigreturn, Ecall
  <2> QED  BY <2>1, <2>2, <2>3, <2>4 DEF Inside
<1> QED  BY <1>2, <1>3

LEMMA SimpleAlarm == ASSUME AInv, NEW h \in Harts, NEW p \in Procs, SysSimple(h, p) PROVE AOK'
<1>1. /\ Runs(h, p) /\ kern[p].call \in {"write", "sigalarm", "settickets", "getSysCount"} /\ proc' = Simple(p)
      /\ Leaves(p) /\ work' = work /\ mem' = mem /\ page' = page /\ seen' = seen
  BY DEF SysSimple
<1>2. Shape(proc[p]) /\ proc[p].state = "RUNNING" /\ Tame(proc[p], kern[p], mem[p].count, seen.cut[p])
  BY <1>1, ANow, RunsFact
<1> DEFINE armed == [proc EXCEPT ![p].alarm = TRUE, ![p].alarmticks = kern[p].n, ![p].handler = kern[p].handler]
           given == [proc EXCEPT ![p].tickets = kern[p].n]
<1>3. \E v : \/ kern[p].call = "sigalarm" /\ proc' = Returned(armed, p, v)
             \/ kern[p].call # "sigalarm" /\ (proc' = Returned(proc, p, v) \/ proc' = Returned(given, p, v))
  BY <1>1 DEF Simple
<1>4. /\ DOMAIN armed = Procs /\ \A q \in Procs \ {p} : armed[q] = proc[q]
      /\ Shape(armed[p]) /\ armed[p].tf = proc[p].tf /\ armed[p].state = proc[p].state
      /\ armed[p].savedtf = proc[p].savedtf
      /\ armed[p].alarm = TRUE /\ armed[p].alarmticks = kern[p].n /\ armed[p].handler = kern[p].handler
  BY <1>2, ANow DEF Shape, Regs
<1>5. /\ DOMAIN given = Procs /\ \A q \in Procs \ {p} : given[q] = proc[q]
      /\ Shape(given[p]) /\ given[p].tf = proc[p].tf /\ given[p].state = proc[p].state
      /\ given[p].savedtf = proc[p].savedtf
      /\ given[p].alarm = proc[p].alarm /\ given[p].alarmticks = proc[p].alarmticks
      /\ given[p].handler = proc[p].handler
  BY <1>2, ANow DEF Shape, Regs
<1> HIDE DEF armed, given
<1>6. /\ DOMAIN proc' = Procs /\ \A q \in Procs \ {p} : proc'[q] = proc[q]
      /\ Shape(proc'[p]) /\ proc'[p].tf.pc = proc[p].tf.pc /\ proc'[p].state = proc[p].state
      /\ proc'[p].savedtf = proc[p].savedtf
      /\ \/ /\ kern[p].call = "sigalarm" /\ proc'[p].alarm = TRUE
            /\ proc'[p].alarmticks = kern[p].n /\ proc'[p].handler = kern[p].handler
         \/ /\ kern[p].call # "sigalarm" /\ proc'[p].alarm = proc[p].alarm
            /\ proc'[p].alarmticks = proc[p].alarmticks /\ proc'[p].handler = proc[p].handler
  <2>1. ASSUME NEW v, kern[p].call = "sigalarm", proc' = Returned(armed, p, v)
        PROVE  /\ DOMAIN proc' = Procs /\ \A q \in Procs \ {p} : proc'[q] = proc[q]
               /\ Shape(proc'[p]) /\ proc'[p].tf.pc = proc[p].tf.pc /\ proc'[p].state = proc[p].state
               /\ proc'[p].savedtf = proc[p].savedtf /\ proc'[p].alarm = TRUE
               /\ proc'[p].alarmticks = kern[p].n /\ proc'[p].handler = kern[p].handler
    BY <1>4, <2>1, ReturnedShape
  <2>2. ASSUME NEW v, NEW f \in {proc, given}, proc' = Returned(f, p, v)
        PROVE  /\ DOMAIN proc' = Procs /\ \A q \in Procs \ {p} : proc'[q] = proc[q]
               /\ Shape(proc'[p]) /\ proc'[p].tf.pc = proc[p].tf.pc /\ proc'[p].state = proc[p].state
               /\ proc'[p].savedtf = proc[p].savedtf /\ proc'[p].alarm = proc[p].alarm
               /\ proc'[p].alarmticks = proc[p].alarmticks /\ proc'[p].handler = proc[p].handler
    <3>1. CASE f = proc
      BY <1>2, <2>2, <3>1, ANow, ReturnedShape
    <3>2. CASE f = given
      BY <1>5, <2>2, <3>2, ReturnedShape
    <3> QED  BY <3>1, <3>2
  <2> QED  BY <1>3, <2>1, <2>2
<1>7. Tame(proc'[p], NoCall, mem[p].count, seen.cut[p])
  BY <1>1, <1>2, <1>6, SimpleTame
<1> QED  BY <1>1, <1>6, <1>7, CallerStep

LEMMA ExecAlarm == ASSUME AInv, NEW h \in Harts, NEW p \in Procs, SysExec(h, p) PROVE AOK'
<1>1. /\ Runs(h, p) /\ kern[p].call = "exec" /\ Leaves(p) /\ work' = work /\ page' = page /\ seen' = seen
      /\ proc' = [proc EXCEPT ![p].tf = Context(kern[p].prog, 1)] /\ mem' = [mem EXCEPT ![p] = Memory]
  BY DEF SysExec, In
<1>2. Shape(proc[p]) /\ proc[p].state = "RUNNING"
  BY <1>1, ANow, RunsFact
<1>3. seen.cut[p] = NoCall /\ Outside(proc[p], kern[p], mem[p].count) /\ kern[p] # NoCall
  BY <1>1, CallerOutside
<1>4. PICK tf : tf = proc[p].tf
  OBVIOUS
<1>5. /\ MainLine(tf.pc[1], Code(tf.pc[1]), tf.pc[2] - 1) /\ Begun(kern[p], Last(tf))
      /\ tf.pc[1] = "test2child" => tf.pc[2] \in {3, 6}
  BY <1>2, <1>3, <1>4, CallLine
<1>6. kern[p] = Last(tf)
  BY <1>1, <1>5 DEF Begun
<1>7. kern[p].prog \in Mains \ {"test2child"}
  BY <1>1, <1>5, <1>6 DEF MainLine, Begun, Last
<1>8. tf.pc[1] # "test2child"
  <2>1. SUFFICES ASSUME tf.pc[1] = "test2child" PROVE FALSE
    OBVIOUS
  <2>2. tf.pc[2] - 1 \in {2, 5}
    BY <1>5, <2>1
  <2>3. test2child[2].call # "exec" /\ test2child[5].call # "exec"
    BY DEF test2child, Sigalarm, Exit
  <2>4. kern[p] = test2child[tf.pc[2] - 1]
    BY <1>6, <2>1, CodeFact DEF Last
  <2> QED  BY <1>1, <2>2, <2>3, <2>4
<1>9. /\ DOMAIN proc' = Procs /\ \A q \in Procs \ {p} : proc'[q] = proc[q]
      /\ Shape(proc'[p]) /\ proc'[p].tf = Context(kern[p].prog, 1) /\ proc'[p].state = "RUNNING"
      /\ proc'[p].savedtf = proc[p].savedtf
      /\ proc'[p].alarm = proc[p].alarm /\ proc'[p].alarmticks = proc[p].alarmticks
      /\ proc'[p].handler = proc[p].handler
  <2>1. Regs(Context(kern[p].prog, 1))
    BY DEF Regs, Context
  <2> QED  BY <1>1, <1>2, <2>1, ANow DEF Shape
<1>10. proc'[p].tf.pc[1] = kern[p].prog /\ proc'[p].tf.pc[2] = 1
  BY <1>9 DEF Context
<1>11. Plain(Code(kern[p].prog), 1)
  BY <1>7, Sounds DEF Sound, Ordinary
<1>12. InProgram(proc'[p].tf, proc'[p].alarm, NoCall)
  BY <1>7, <1>10, <1>11 DEF InProgram, AtLine, Here, Plain, Ordinary
<1>13. proc[p].alarm = TRUE /\ proc[p].alarmticks > 0 => proc[p].handler \in {"periodic", "dummy_handler"}
  BY <1>3, <1>4, <1>8 DEF Outside, Fits
<1>14. Tame(proc'[p], NoCall, 0, NoCall)
  BY <1>7, <1>9, <1>10, <1>12, <1>13 DEF Tame, Outside, Fits, Fresh
<1>15. /\ \A q \in Procs \ {p} : Untouched(proc'[q], proc[q]) /\ kern'[q] = kern[q] /\ mem'[q] = mem[q]
       /\ kern'[p] = NoCall /\ mem'[p] = Memory /\ DOMAIN mem' = Procs
  BY <1>1, <1>9, ANow, UntouchedSelf DEF Leaves, TamePast
<1>16. mem'[p].count = 0 /\ {"count", "drift", "status"} \subseteq DOMAIN mem'[p]
  BY <1>15 DEF Memory
<1>17. Tame(proc'[p], kern'[p], mem'[p].count, seen.cut[p])
  BY <1>3, <1>14, <1>15, <1>16
<1>18. "cut" \in DOMAIN seen' /\ seen'.cut = seen.cut
  BY <1>1, ANow DEF TamePast
<1> QED  BY <1>1, <1>9, <1>15, <1>16, <1>17, <1>18, OneStep

\* sigreturn() finds in the page what the alarm interrupted.
LEMMA SigreturnAlarm == ASSUME AInv, NEW h \in Harts, NEW p \in Procs, SysSigreturn(h, p) PROVE AOK'
<1>1. /\ Runs(h, p) /\ kern[p].call = "sigreturn" /\ Leaves(p) /\ work' = work /\ mem' = mem
      /\ proc' = [proc EXCEPT ![p] = Restored(@)] /\ page' = [page EXCEPT ![proc[p].savedtf] = NoCall]
      /\ seen' = [seen EXCEPT !.cut[p] = NoCall]
  BY DEF SysSigreturn, In
<1>2. Shape(proc[p]) /\ proc[p].state = "RUNNING" /\ Tame(proc[p], kern[p], mem[p].count, seen.cut[p])
  BY <1>1, ANow, RunsFact
<1>3. kern[p] # NoCall
  BY <1>1 DEF NoCall
<1>4. seen.cut[p] # NoCall
  <2>1. SUFFICES ASSUME Outside(proc[p], kern[p], mem[p].count) PROVE FALSE
    BY <1>2 DEF Tame
  <2>2. /\ MainLine(proc[p].tf.pc[1], Code(proc[p].tf.pc[1]), proc[p].tf.pc[2] - 1)
        /\ Begun(kern[p], Last(proc[p].tf))
    BY <1>2, <1>3, <2>1, CallLine
  <2> QED  BY <1>1, <2>2 DEF MainLine, Begun, Last
<1> DEFINE cut == seen.cut[p]
           g == proc[p].savedtf
<1>5. p \in InHandler /\ g \in Pages /\ page[g] = cut
  BY <1>4, ANow DEF InHandler, PagesOK
<1>6. Inside(proc[p], kern[p], mem[p].count, cut)
  BY <1>2, <1>4 DEF Tame
<1>7. Cut(cut) /\ (proc[p].alarmticks > 0 => proc[p].handler = "periodic")
  <2>1. CASE InPeriodic(proc[p], kern[p])
    BY <1>6, <2>1 DEF Inside, InPeriodic
  <2>2. CASE InDummy(proc[p], kern[p])
    BY <1>1, <1>3, <1>6, <2>2 DEF Inside, InDummy, Sigalarm
  <2>3. CASE InSlow(proc[p], kern[p], mem[p].count, cut)
    BY <1>1, <1>3, <1>6, <2>3 DEF Inside, InSlow, Sigalarm, Write, Ecall
  <2> QED  BY <1>6, <2>1, <2>2, <2>3 DEF Inside
<1>8. /\ DOMAIN proc' = Procs /\ \A q \in Procs \ {p} : proc'[q] = proc[q]
      /\ proc'[p] = Restored(proc[p])
  BY <1>1, ANow
<1>9. /\ DOMAIN proc'[p] = DOMAIN proc[p] /\ proc'[p].tf = cut /\ proc'[p].state = "RUNNING"
      /\ proc'[p].alarm = TRUE /\ proc'[p].alarmticks = proc[p].alarmticks /\ proc'[p].handler = proc[p].handler
  BY <1>2, <1>5, <1>8 DEF Restored, Shape
<1>10. /\ "cut" \in DOMAIN seen' /\ DOMAIN seen'.cut = Procs /\ seen'.cut[p] = NoCall
       /\ \A q \in Procs \ {p} : seen'.cut[q] = seen.cut[q]
  BY <1>1, ANow DEF TamePast
<1>11. /\ DOMAIN page' = Pages /\ page'[g] = NoCall /\ \A x \in Pages \ {g} : page'[x] = page[x]
  BY <1>1, <1>5, ANow DEF TamePast
<1>12. kern'[p] = NoCall /\ \A q \in Procs \ {p} : kern'[q] = kern[q]
  BY <1>1, ANow DEF Leaves
<1> HIDE DEF cut, g
<1>13. Shape(proc'[p])
  BY <1>2, <1>7, <1>9 DEF Shape, Cut
<1>14. Tame(proc'[p], NoCall, mem[p].count, NoCall)
  <2>1. InProgram(cut, TRUE, NoCall)
    BY <1>7 DEF InProgram, Cut, AtLine
  <2>2. Fresh(cut, TRUE, NoCall, mem[p].count)
    BY <1>7 DEF Fresh, Cut
  <2>3. Outside(proc'[p], NoCall, mem[p].count)
    BY <1>7, <1>9, <2>1, <2>2 DEF Outside, Fits
  <2> QED  BY <1>9, <1>13, <2>3 DEF Tame
<1>15. AlarmOK'
  <2>1. \A q \in Procs : Tame(proc'[q], kern'[q], mem'[q].count, seen'.cut[q])
    <3> TAKE q \in Procs
    <3>1. CASE q = p
      BY <1>1, <1>10, <1>12, <1>14, <3>1
    <3>2. CASE q # p
      BY <1>1, <1>8, <1>10, <1>12, <3>2, ANow
    <3> QED  BY <3>1, <3>2
  <2> QED  BY <1>1, <2>1, TameSame
<1>16. TamePast'
  BY <1>1, <1>10, <1>11, ANow DEF TamePast, Procs
<1>17. InHandler' = InHandler \ {p}
  BY <1>10 DEF InHandler, Procs
<1>18. \A q \in InHandler \ {p} : /\ proc'[q] = proc[q] /\ seen'.cut[q] = seen.cut[q] /\ proc[q].savedtf # g
                                  /\ proc[q].savedtf \in Pages /\ page[proc[q].savedtf] = seen.cut[q]
  BY <1>5, <1>8, <1>10, ANow DEF PagesOK, InHandler, g
<1>19. ASSUME NEW x \in Pages, page'[x] # NoCall PROVE \E q \in InHandler \ {p} : proc'[q].savedtf = x
  <2>1. x # g /\ page[x] # NoCall
    BY <1>11, <1>19
  <2>2. PICK q \in InHandler : proc[q].savedtf = x
    BY <2>1, ANow DEF PagesOK
  <2>3. q # p
    BY <2>1, <2>2 DEF g
  <2> QED  BY <1>18, <2>2, <2>3
<1>20. PagesOK'
  <2>1. \A q \in InHandler \ {p} : proc'[q].savedtf \in Pages /\ page'[proc'[q].savedtf] = seen'.cut[q]
    BY <1>11, <1>18
  <2>2. \A q, r \in InHandler \ {p} : proc'[q].savedtf = proc'[r].savedtf => q = r
    BY <1>18, ANow DEF PagesOK
  <2> QED  BY <1>17, <1>19, <2>1, <2>2 DEF PagesOK
<1> QED  BY <1>15, <1>16, <1>20 DEF AOK

LEMMA ForkAllocAlarm == ASSUME AInv, NEW h \in Harts, NEW p \in Procs, ForkAlloc(h, p) PROVE AOK'
<1> DEFINE unused == {q \in Procs : proc[q].state = "UNUSED"}
<1>1. Runs(h, p) /\ kern[p].call = "fork" /\ work' = work /\ page' = page
  BY DEF ForkAlloc, In
<1>2. Shape(proc[p]) /\ proc[p].state = "RUNNING"
  BY <1>1, ANow, RunsFact
<1>3. seen.cut[p] = NoCall /\ Outside(proc[p], kern[p], mem[p].count) /\ kern[p] # NoCall
  BY <1>1, CallerOutside
<1>4. Begun(kern[p], Last(proc[p].tf))
  BY <1>2, <1>3, CallLine
<1>5. kern[p] = Last(proc[p].tf) /\ Last(proc[p].tf).call = "fork" /\ Last(proc[p].tf).op = "ecall"
  BY <1>1, <1>4 DEF Begun
<1>6. CASE unused = {}
  <2>1. proc' = Returned(proc, p, -1) /\ Leaves(p) /\ mem' = mem /\ seen' = seen
    BY <1>6 DEF ForkAlloc
  <2>2. /\ DOMAIN proc' = Procs /\ \A q \in Procs \ {p} : proc'[q] = proc[q]
        /\ Shape(proc'[p]) /\ proc'[p].tf.pc = proc[p].tf.pc /\ proc'[p].tf.a0 = -1
        /\ proc'[p].state = proc[p].state /\ proc'[p].alarm = proc[p].alarm
        /\ proc'[p].alarmticks = proc[p].alarmticks /\ proc'[p].handler = proc[p].handler
        /\ proc'[p].savedtf = proc[p].savedtf
    BY <1>2, <2>1, ANow, ReturnedShape
  <2>3. Tame(proc'[p], NoCall, mem[p].count, NoCall)
    <3>1. proc[p].alarm = TRUE /\ proc[p].alarmticks > 0 => Fits(proc[p].handler, proc[p].tf.pc[1], mem[p].count)
      BY <1>3 DEF Outside
    <3>2. proc'[p].tf.a0 # 0
      BY <2>2
    <3>3. proc'[p].state \notin {"UNUSED", "ZOMBIE"} /\ Last(proc[p].tf).call \notin {"exit", "exec"}
      BY <1>2, <1>5, <2>2
    <3>4. proc'[p].alarm = TRUE /\ proc'[p].alarmticks > 0 => Fits(proc'[p].handler, proc[p].tf.pc[1], mem[p].count)
      BY <2>2, <3>1
    <3>5. PICK s : s = proc'[p]
      OBVIOUS
    <3>6. /\ Shape(s) /\ s.state \notin {"UNUSED", "ZOMBIE"} /\ s.tf.pc = proc[p].tf.pc /\ s.tf.a0 # 0
          /\ s.alarm = TRUE /\ s.alarmticks > 0 => Fits(s.handler, proc[p].tf.pc[1], mem[p].count)
      BY <2>2, <3>2, <3>3, <3>4, <3>5
    <3>7. Tame(s, NoCall, mem[p].count, NoCall)
      BY <1>2, <1>3, <3>3, <3>6, ReturnTame
    <3> QED  BY <3>5, <3>7
  <2> QED  BY <1>1, <1>3, <2>1, <2>2, <2>3, CallerStep
<1>7. CASE unused # {}
  <2>1. PICK q \in Procs : q = Min(unused) /\ proc[q].state = "UNUSED"
    BY <1>7, MinFact
  <2>2. /\ proc' = [proc EXCEPT ![q] = [Allocated(@) EXCEPT !.tf = [proc[p].tf EXCEPT !.a0 = 0]]]
        /\ mem' = [mem EXCEPT ![q] = mem[p]]
        /\ kern' = [kern EXCEPT ![p] = [call |-> "forking", child |-> q]]
        /\ seen' = [seen EXCEPT !.heirs[q] = {nextpid},
                                   !.made = [pid \in 1..nextpid |-> IF pid = nextpid THEN NoCounts ELSE @[pid]]]
    BY <1>7, <2>1 DEF ForkAlloc
  <2> HIDE DEF unused
  <2>3. p # q /\ Tame(proc[q], kern[q], mem[q].count, seen.cut[q]) /\ Shape(proc[q])
    BY <1>2, <2>1, ANow
  <2>4. kern[q] = NoCall /\ seen.cut[q] = NoCall
    BY <2>1, <2>3 DEF Tame
  <2> DEFINE k == [call |-> "forking", child |-> q]
  <2>5. /\ \A r \in Procs \ {q} : proc'[r] = proc[r] /\ mem'[r] = mem[r]
        /\ \A r \in Procs \ {p} : kern'[r] = kern[r]
        /\ kern'[p] = k /\ mem'[q] = mem[p] /\ DOMAIN mem' = Procs
        /\ proc'[q] = [Allocated(proc[q]) EXCEPT !.tf = [proc[p].tf EXCEPT !.a0 = 0]]
    BY <2>2, ANow DEF TamePast
  <2>6. "cut" \in DOMAIN seen' /\ seen'.cut = seen.cut
    BY <2>2, ANow DEF TamePast
  <2>7. k # NoCall /\ k.call = "forking"
    BY DEF NoCall
  <2> HIDE DEF k
  <2>8. /\ Shape(proc'[q]) /\ proc'[q].state = "USED" /\ proc'[q].alarm = FALSE
        /\ proc'[q].tf.pc = proc[p].tf.pc /\ proc'[q].tf.a0 = 0
    <3>1. PICK tf : tf = [proc[p].tf EXCEPT !.a0 = 0]
      OBVIOUS
    <3>2. Regs(tf) /\ tf.pc = proc[p].tf.pc /\ tf.a0 = 0
      BY <1>2, <3>1 DEF Shape, Regs
    <3>3. PICK r : r = Allocated(proc[q])
      OBVIOUS
    <3>4. DOMAIN r = DOMAIN proc[q] /\ r.state = "USED" /\ r.alarm = FALSE
      BY <2>3, <3>3 DEF Allocated, Shape
    <3>5. proc'[q] = [r EXCEPT !.tf = tf]
      BY <2>5, <3>1, <3>3
    <3>6. DOMAIN proc'[q] = DOMAIN r /\ proc'[q].tf = tf /\ proc'[q].state = "USED" /\ proc'[q].alarm = FALSE
      BY <2>3, <3>4, <3>5 DEF Shape
    <3>7. Shape(proc'[q])
      BY <2>3, <3>2, <3>4, <3>6 DEF Shape
    <3> QED  BY <3>2, <3>6, <3>7
  <2>9. Tame(proc'[q], NoCall, mem[p].count, NoCall)
    BY <1>2, <1>3, <1>5, <2>8, ReturnTame
  <2>10. Tame(proc[p], k, mem[p].count, NoCall)
    <3>1. InProgram(proc[p].tf, proc[p].alarm, k)
      BY <1>3, <1>5, <2>7 DEF Outside, InProgram, Begun
    <3>2. Fresh(proc[p].tf, proc[p].alarm, k, mem[p].count)
      BY <1>3 DEF Outside, Fresh
    <3>3. Outside(proc[p], k, mem[p].count)
      BY <1>3, <3>1, <3>2 DEF Outside
    <3> QED  BY <1>2, <3>3 DEF Tame
  <2>11. \A r \in Procs \ {p, q} : Untouched(proc'[r], proc[r]) /\ kern'[r] = kern[r] /\ mem'[r] = mem[r]
    BY <2>5, ANow, UntouchedSelf
  <2>12. \A r \in {p, q} : /\ Tame(proc'[r], kern'[r], mem'[r].count, seen'.cut[r])
                           /\ {"count", "drift", "status"} \subseteq DOMAIN mem'[r]
                           /\ seen.cut[r] # NoCall => proc'[r].savedtf = proc[r].savedtf
    <3> TAKE r \in {p, q}
    <3>1. CASE r = p
      BY <1>3, <2>3, <2>5, <2>6, <2>10, <3>1, ANow DEF TamePast
    <3>2. CASE r = q
      BY <2>3, <2>4, <2>5, <2>6, <2>9, <3>2, ANow DEF TamePast
    <3> QED  BY <3>1, <3>2
  <2>13. {p, q} \in SUBSET Procs
    OBVIOUS
  <2> QED  BY <1>1, <2>5, <2>6, <2>11, <2>12, <2>13, SomeStep
<1> QED  BY <1>6, <1>7

LEMMA ForkRunAlarm == ASSUME AInv, NEW h \in Harts, NEW p \in Procs, ForkRun(h, p) PROVE AOK'
<1>1. Runs(h, p) /\ Forking(p) /\ Leaves(p) /\ work' = work /\ mem' = mem /\ page' = page /\ seen' = seen
  BY DEF ForkRun, In, Forking
<1>2. PICK q \in Procs : q = kern[p].child /\ proc[q].state = "USED"
  BY <1>1, ANow DEF IInv, ForkOK
<1>3. Shape(proc[p]) /\ Shape(proc[q]) /\ proc[p].state = "RUNNING" /\ p # q
  BY <1>1, <1>2, ANow, RunsFact
<1>4. seen.cut[p] = NoCall /\ Outside(proc[p], kern[p], mem[p].count) /\ kern[p] # NoCall
  BY <1>1, CallerOutside DEF Forking
<1>5. Begun(kern[p], Last(proc[p].tf))
  BY <1>3, <1>4, CallLine
<1>6. Last(proc[p].tf).call = "fork" \/ Last(proc[p].tf) = kern[p]
  BY <1>1, <1>5 DEF Begun, Forking
<1> DEFINE born == [proc EXCEPT ![q].parent = p, ![q].tickets = proc[p].tickets, ![q].state = "RUNNABLE"]
<1>7. /\ DOMAIN born = Procs /\ \A r \in Procs \ {q} : born[r] = proc[r]
      /\ Untouched(born[q], proc[q])
  BY <1>2, <1>3, ANow DEF Untouched, Shape
<1>8. proc' = Returned(born, p, proc[q].pid)
  BY <1>2 DEF ForkRun
<1> HIDE DEF born
<1>9. proc[q].pid # 0
  <2>1. proc[q].pid \in seen.heirs[q]
    BY <1>2, ANow DEF CInv, CountOK
  <2> QED  BY <2>1, ANow DEF CInv, PastOK, Pids
<1>10. /\ DOMAIN proc' = Procs /\ \A r \in Procs \ {p} : proc'[r] = born[r]
       /\ Shape(proc'[p]) /\ proc'[p].tf.pc = proc[p].tf.pc /\ proc'[p].tf.a0 = proc[q].pid
       /\ proc'[p].state = proc[p].state /\ proc'[p].alarm = proc[p].alarm
       /\ proc'[p].alarmticks = proc[p].alarmticks /\ proc'[p].handler = proc[p].handler
       /\ proc'[p].savedtf = proc[p].savedtf
  BY <1>3, <1>7, <1>8, ReturnedShape
<1>11. Tame(proc'[p], NoCall, mem[p].count, seen.cut[p])
  <2>1. proc[p].alarm = TRUE /\ proc[p].alarmticks > 0 => Fits(proc[p].handler, proc[p].tf.pc[1], mem[p].count)
    BY <1>4 DEF Outside
  <2>2. Last(proc[p].tf).call \notin {"exit", "exec"}
    BY <1>1, <1>6 DEF Forking
  <2> QED  BY <1>3, <1>4, <1>9, <1>10, <2>1, <2>2, ReturnTame
<1>12. \A r \in Procs \ {p} : Untouched(proc'[r], proc[r]) /\ kern'[r] = kern[r] /\ mem'[r] = mem[r]
  <2> TAKE r \in Procs \ {p}
  <2>1. Untouched(proc'[r], proc[r])
    <3>1. CASE r = q
      BY <1>3, <1>7, <1>10, <3>1
    <3>2. CASE r # q
      BY <1>7, <1>10, <3>2, ANow, UntouchedSelf
    <3> QED  BY <3>1, <3>2
  <2> QED  BY <1>1, <2>1, ANow DEF Leaves
<1>13. /\ kern'[p] = NoCall /\ mem'[p] = mem[p] /\ {"count", "drift", "status"} \subseteq DOMAIN mem'[p]
       /\ DOMAIN mem' = Procs /\ "cut" \in DOMAIN seen' /\ seen'.cut = seen.cut
  BY <1>1, ANow DEF Leaves, TamePast
<1>14. Tame(proc'[p], kern'[p], mem'[p].count, seen.cut[p])
  BY <1>11, <1>13
<1> QED  BY <1>1, <1>10, <1>12, <1>13, <1>14, OneStep

\* Nobody exits in a handler.
LEMMA ExitAlarm == ASSUME AInv, NEW h \in Harts, NEW p \in Procs, SysExit(h, p) PROVE AOK'
<1>1. /\ Runs(h, p) /\ kern[p].call = "exit" /\ work' = work /\ kern' = kern /\ mem' = mem /\ page' = page
      /\ seen' = seen
  BY DEF SysExit, In
<1>2. Shape(proc[p]) /\ proc[p].state = "RUNNING" /\ Tame(proc[p], kern[p], mem[p].count, seen.cut[p])
  BY <1>1, ANow, RunsFact
<1>3. seen.cut[p] = NoCall /\ Outside(proc[p], kern[p], mem[p].count)
  BY <1>1, CallerOutside
<1> DEFINE orphans == [q \in Procs |-> IF q \in Children(p) THEN [proc[q] EXCEPT !.parent = InitProc] ELSE proc[q]]
           adopted == IF Children(p) = {} THEN orphans ELSE Woken(orphans, InitProc)
           heard == Woken(adopted, proc[p].parent)
<1>4. \A q \in Procs : Untouched(orphans[q], proc[q])
  <2> TAKE q \in Procs
  <2>1. orphans[q] = proc[q] \/ orphans[q] = [proc[q] EXCEPT !.parent = InitProc]
    OBVIOUS
  <2> HIDE DEF orphans
  <2>2. Shape(proc[q])
    BY ANow
  <2> QED  BY <2>1, <2>2 DEF Untouched, Shape
<1>5. proc' = [heard EXCEPT ![p].state = "ZOMBIE", ![p].xstate = kern[p].n, ![p].etime = ticks]
  BY DEF SysExit
<1> HIDE DEF orphans
<1>6. \A q \in Procs : Untouched(adopted[q], proc[q])
  <2> TAKE q \in Procs
  <2>1. Shape(orphans[q])
    BY <1>4 DEF Untouched
  <2>2. Untouched(Woken(orphans, InitProc)[q], orphans[q])
    BY <2>1, WokenUntouched
  <2>3. adopted[q] = orphans[q] \/ adopted[q] = Woken(orphans, InitProc)[q]
    OBVIOUS
  <2> QED  BY <1>4, <2>2, <2>3, UntouchedTwice
<1> HIDE DEF adopted
<1>7. DOMAIN heard = Procs /\ \A q \in Procs : Untouched(heard[q], proc[q])
  <2>1. DOMAIN heard = Procs
    BY DEF Woken
  <2>2. ASSUME NEW q \in Procs PROVE Untouched(heard[q], proc[q])
    <3>1. Shape(adopted[q])
      BY <1>6 DEF Untouched
    <3>2. Untouched(Woken(adopted, proc[p].parent)[q], adopted[q])
      BY <3>1, WokenUntouched
    <3> QED  BY <1>6, <3>2, UntouchedTwice
  <2> QED  BY <2>1, <2>2
<1> HIDE DEF heard
<1>8. Shape(heard[p])
  BY <1>7 DEF Untouched
<1>9. /\ DOMAIN proc' = Procs /\ \A q \in Procs \ {p} : proc'[q] = heard[q]
      /\ DOMAIN proc'[p] = DOMAIN heard[p] /\ proc'[p].state = "ZOMBIE" /\ proc'[p].tf = heard[p].tf
      /\ proc'[p].alarm = heard[p].alarm /\ proc'[p].alarmticks = heard[p].alarmticks
      /\ proc'[p].handler = heard[p].handler /\ proc'[p].savedtf = heard[p].savedtf
  BY <1>5, <1>7, <1>8 DEF Shape
<1>10. /\ Shape(proc'[p]) /\ proc'[p].tf = proc[p].tf /\ proc'[p].alarm = proc[p].alarm
       /\ proc'[p].alarmticks = proc[p].alarmticks /\ proc'[p].handler = proc[p].handler
       /\ proc'[p].savedtf = proc[p].savedtf
  BY <1>7, <1>8, <1>9 DEF Untouched, Shape
<1>11. Tame(proc'[p], kern'[p], mem'[p].count, seen.cut[p])
  <2>1. Outside(proc'[p], kern[p], mem[p].count)
    BY <1>3, <1>10 DEF Outside
  <2> QED  BY <1>1, <1>3, <1>9, <1>10, <2>1 DEF Tame
<1>12. \A q \in Procs \ {p} : Untouched(proc'[q], proc[q]) /\ kern'[q] = kern[q] /\ mem'[q] = mem[q]
  BY <1>1, <1>7, <1>9
<1>13. /\ {"count", "drift", "status"} \subseteq DOMAIN mem'[p] /\ DOMAIN mem' = Procs
       /\ "cut" \in DOMAIN seen' /\ seen'.cut = seen.cut
  BY <1>1, ANow DEF TamePast
<1> QED  BY <1>1, <1>10, <1>11, <1>12, <1>13, OneStep

LEMMA SleepsUntouched ==
  ASSUME AInv, NEW h \in Harts, NEW p \in Procs, proc[p].state = "RUNNING", NEW chan, Sleeps(h, p, chan)
  PROVE  /\ DOMAIN proc' = Procs /\ proc'[p].state = "SLEEPING"
         /\ \A q \in Procs : Untouched(proc'[q], proc[q])
<1>1. proc' = [proc EXCEPT ![p].state = "SLEEPING", ![p].chan = chan]
  BY DEF Sleeps
<1>2. Shape(proc[p])
  BY ANow
<1>3. /\ DOMAIN proc' = Procs /\ \A q \in Procs \ {p} : proc'[q] = proc[q]
      /\ DOMAIN proc'[p] = DOMAIN proc[p] /\ proc'[p].state = "SLEEPING" /\ proc'[p].tf = proc[p].tf
      /\ proc'[p].alarm = proc[p].alarm /\ proc'[p].alarmticks = proc[p].alarmticks
      /\ proc'[p].handler = proc[p].handler /\ proc'[p].savedtf = proc[p].savedtf
  BY <1>1, <1>2, ANow DEF Shape
<1>4. Untouched(proc'[p], proc[p])
  BY <1>2, <1>3 DEF Untouched, Shape
<1> QED  BY <1>3, <1>4, ANow, UntouchedSelf

LEMMA FreedShape ==
  ASSUME NEW r, Shape(r)
  PROVE  Shape(Freed(r)) /\ Freed(r).state = "UNUSED" /\ Freed(r).savedtf = r.savedtf
BY DEF Freed, Shape

\* What wait() and waitx() make of a child, the status aside.
LEMMA ReapedShape ==
  ASSUME AInv, NEW p \in Procs, NEW q \in Procs, p # q, NEW procs, procs \in {Reaped(p, q), [proc EXCEPT ![q] = Freed(@)]}
  PROVE  /\ DOMAIN procs = Procs /\ procs[q] = Freed(proc[q]) /\ Shape(procs[p])
         /\ \A r \in Procs \ {p, q} : procs[r] = proc[r]
         /\ procs[p].tf = proc[p].tf /\ procs[p].state = proc[p].state /\ procs[p].alarm = proc[p].alarm
         /\ procs[p].alarmticks = proc[p].alarmticks /\ procs[p].handler = proc[p].handler
         /\ procs[p].savedtf = proc[p].savedtf
<1>1. Shape(proc[p]) /\ DOMAIN proc = Procs
  BY ANow
<1>2. CASE procs = Reaped(p, q)
  <2>1. PICK counts : procs = [proc EXCEPT ![q] = Freed(@), ![p].counts = counts]
    <3>1. \E counts \in {[c \in Calls |-> proc[p].counts[c] + proc[q].counts[c]]} :
             procs = [proc EXCEPT ![q] = Freed(@), ![p].counts = counts]
      BY <1>2 DEF Reaped
    <3> QED  BY <3>1
  <2>2. procs[p] = [proc[p] EXCEPT !.counts = counts] /\ procs[q] = Freed(proc[q])
    BY <1>1, <2>1
  <2> QED  BY <1>1, <2>1, <2>2 DEF Shape
<1>3. CASE procs = [proc EXCEPT ![q] = Freed(@)]
  BY <1>1, <1>3
<1> QED  BY <1>2, <1>3

\* A child that exited was in no handler.
LEMMA ReapAlarm ==
  ASSUME AInv, NEW h \in Harts, NEW p \in Procs, SysWait(h, p), Zombies(p) # {}
  PROVE  AOK'
<1>1. Runs(h, p) /\ kern[p].call \in {"wait", "waitx"} /\ work' = work /\ page' = page
  BY DEF SysWait
<1>2. Zombies(p) \subseteq Procs /\ \A r \in Zombies(p) : proc[r].state = "ZOMBIE"
  BY DEF Zombies, Children
<1>3. PICK q \in Procs : q = Min(Zombies(p)) /\ proc[q].state = "ZOMBIE"
  BY <1>2, MinFact
<1>4. /\ mem' = [mem EXCEPT ![p].status = proc[q].xstate]
      /\ \/ /\ proc' = Returned(Reaped(p, q), p, proc[q].pid)
            /\ seen' = [seen EXCEPT !.heirs[p] = @ \cup seen.heirs[q], !.heirs[q] = {}]
         \/ /\ proc' = Returned([proc EXCEPT ![q] = Freed(@)], p, proc[q].pid)
            /\ seen' = [seen EXCEPT !.heirs[q] = {}]
      /\ kern' = [kern EXCEPT ![p] = NoCall, ![q] = NoCall]
  <2>1. Children(p) # {}
    BY DEF Zombies
  <2> QED  BY <1>3, <2>1 DEF SysWait
<1>5. Shape(proc[p]) /\ Shape(proc[q]) /\ proc[p].state = "RUNNING" /\ p # q
  BY <1>1, <1>3, ANow, RunsFact
<1>6. seen.cut[p] = NoCall /\ Outside(proc[p], kern[p], mem[p].count) /\ kern[p] # NoCall
  BY <1>1, CallerOutside
<1>7. Last(proc[p].tf).call \notin {"exit", "exec", "fork"}
  <2>1. Begun(kern[p], Last(proc[p].tf))
    BY <1>5, <1>6, CallLine
  <2> QED  BY <1>1, <2>1 DEF Begun
<1>8. PICK procs, v : procs \in {Reaped(p, q), [proc EXCEPT ![q] = Freed(@)]} /\ proc' = Returned(procs, p, v)
  BY <1>4
<1>9. /\ DOMAIN procs = Procs /\ procs[q] = Freed(proc[q]) /\ Shape(procs[p])
      /\ \A r \in Procs \ {p, q} : procs[r] = proc[r]
      /\ procs[p].tf = proc[p].tf /\ procs[p].state = proc[p].state /\ procs[p].alarm = proc[p].alarm
      /\ procs[p].alarmticks = proc[p].alarmticks /\ procs[p].handler = proc[p].handler
      /\ procs[p].savedtf = proc[p].savedtf
  BY <1>5, <1>8, ReapedShape
<1>10. /\ \A r \in Procs \ {p} : proc'[r] = procs[r]
       /\ Shape(proc'[p]) /\ proc'[p].tf.pc = procs[p].tf.pc /\ proc'[p].state = procs[p].state
       /\ proc'[p].alarm = procs[p].alarm /\ proc'[p].alarmticks = procs[p].alarmticks
       /\ proc'[p].handler = procs[p].handler /\ proc'[p].savedtf = procs[p].savedtf
  BY <1>8, <1>9, ReturnedShape
<1>11. /\ \A r \in Procs \ {p, q} : proc'[r] = proc[r]
       /\ proc'[q] = Freed(proc[q]) /\ Shape(proc'[p])
       /\ proc'[p].tf.pc = proc[p].tf.pc /\ proc'[p].state = "RUNNING"
       /\ proc'[p].alarm = proc[p].alarm /\ proc'[p].alarmticks = proc[p].alarmticks
       /\ proc'[p].handler = proc[p].handler /\ proc'[p].savedtf = proc[p].savedtf
  BY <1>5, <1>9, <1>10
<1>12. Tame(proc'[p], NoCall, mem[p].count, NoCall)
  <2>1. proc[p].alarm = TRUE /\ proc[p].alarmticks > 0 => Fits(proc[p].handler, proc[p].tf.pc[1], mem[p].count)
    BY <1>6 DEF Outside
  <2> QED  BY <1>5, <1>6, <1>7, <1>11, <2>1, ReturnTame
<1>13. seen.cut[q] = NoCall
  <2>1. Tame(proc[q], kern[q], mem[q].count, seen.cut[q])
    BY ANow
  <2> QED  BY <1>3, <2>1 DEF Tame
<1>14. \A n : Tame(proc'[q], NoCall, n, NoCall)
  BY <1>5, <1>11, FreedShape DEF Tame
<1>15. /\ kern'[p] = NoCall /\ kern'[q] = NoCall /\ \A r \in Procs \ {p, q} : kern'[r] = kern[r]
       /\ \A r \in Procs \ {p} : mem'[r] = mem[r]
       /\ DOMAIN mem' = Procs /\ mem'[p].count = mem[p].count
       /\ \A r \in Procs : {"count", "drift", "status"} \subseteq DOMAIN mem'[r]
  BY <1>4, ANow DEF TamePast
<1>16. "cut" \in DOMAIN seen' /\ seen'.cut = seen.cut
  BY <1>4, ANow DEF TamePast
<1>17. \A r \in Procs \ {p, q} : Untouched(proc'[r], proc[r]) /\ kern'[r] = kern[r] /\ mem'[r] = mem[r]
  BY <1>11, <1>15, ANow, UntouchedSelf
<1>18. \A r \in {p, q} : /\ Tame(proc'[r], kern'[r], mem'[r].count, seen'.cut[r])
                         /\ {"count", "drift", "status"} \subseteq DOMAIN mem'[r]
                         /\ seen.cut[r] # NoCall => proc'[r].savedtf = proc[r].savedtf
  <2> TAKE r \in {p, q}
  <2>1. CASE r = p
    BY <1>6, <1>11, <1>12, <1>15, <1>16, <2>1
  <2>2. CASE r = q
    BY <1>13, <1>14, <1>15, <1>16, <2>2
  <2> QED  BY <2>1, <2>2
<1>19. {p, q} \in SUBSET Procs
  OBVIOUS
<1> QED  BY <1>1, <1>15, <1>16, <1>17, <1>18, <1>19, SomeStep

LEMMA WaitAlarm == ASSUME AInv, NEW h \in Harts, NEW p \in Procs, SysWait(h, p) PROVE AOK'
<1>1. Runs(h, p) /\ kern[p].call \in {"wait", "waitx"} /\ work' = work /\ page' = page
  BY DEF SysWait
<1>2. Shape(proc[p]) /\ proc[p].state = "RUNNING"
  BY <1>1, ANow, RunsFact
<1>3. CASE Zombies(p) # {}
  BY <1>3, ReapAlarm
<1>4. CASE Zombies(p) = {} /\ Children(p) = {}
  <2>1. proc' = Returned(proc, p, -1) /\ Leaves(p) /\ mem' = mem /\ seen' = seen
    BY <1>4 DEF SysWait
  <2>2. seen.cut[p] = NoCall /\ Outside(proc[p], kern[p], mem[p].count) /\ kern[p] # NoCall
    BY <1>1, CallerOutside
  <2>3. Last(proc[p].tf).call \notin {"exit", "exec", "fork"}
    <3>1. Begun(kern[p], Last(proc[p].tf))
      BY <1>2, <2>2, CallLine
    <3> QED  BY <1>1, <3>1 DEF Begun
  <2>4. /\ DOMAIN proc' = Procs /\ \A q \in Procs \ {p} : proc'[q] = proc[q]
        /\ Shape(proc'[p]) /\ proc'[p].tf.pc = proc[p].tf.pc
        /\ proc'[p].state = proc[p].state /\ proc'[p].alarm = proc[p].alarm
        /\ proc'[p].alarmticks = proc[p].alarmticks /\ proc'[p].handler = proc[p].handler
        /\ proc'[p].savedtf = proc[p].savedtf
    BY <1>2, <2>1, ANow, ReturnedShape
  <2>5. Tame(proc'[p], NoCall, mem[p].count, NoCall)
    <3>1. proc[p].alarm = TRUE /\ proc[p].alarmticks > 0 => Fits(proc[p].handler, proc[p].tf.pc[1], mem[p].count)
      BY <2>2 DEF Outside
    <3> QED  BY <1>2, <2>2, <2>3, <2>4, <3>1, ReturnTame
  <2> QED  BY <1>1, <2>1, <2>2, <2>4, <2>5, CallerStep
<1>5. CASE Zombies(p) = {} /\ Children(p) # {}
  <2>1. Sleeps(h, p, p) /\ kern' = kern /\ mem' = mem /\ seen' = seen
    BY <1>5 DEF SysWait
  <2>2. \A q \in Procs : Untouched(proc'[q], proc[q])
    BY <1>2, <2>1, SleepsUntouched
  <2> QED  BY <1>1, <2>1, <2>2, NobodyStep
<1> QED  BY <1>3, <1>4, <1>5

LEMMA SleepAlarm == ASSUME AInv, NEW h \in Harts, NEW p \in Procs, SysSleep(h, p) PROVE AOK'
<1>1. /\ Runs(h, p) /\ kern[p].call \in {"sleep", "sleeping"} /\ work' = work /\ page' = page /\ mem' = mem
      /\ seen' = seen
  BY DEF SysSleep
<1>2. Shape(proc[p]) /\ proc[p].state = "RUNNING"
  BY <1>1, ANow, RunsFact
<1>3. seen.cut[p] = NoCall /\ Outside(proc[p], kern[p], mem[p].count) /\ kern[p] # NoCall
  BY <1>1, CallerOutside
<1>4. Last(proc[p].tf).op = "ecall" /\ Last(proc[p].tf).call = "sleep"
  <2>1. /\ MainLine(proc[p].tf.pc[1], Code(proc[p].tf.pc[1]), proc[p].tf.pc[2] - 1)
        /\ Begun(kern[p], Last(proc[p].tf))
    BY <1>2, <1>3, CallLine
  <2>2. Last(proc[p].tf).op = "ecall" => Last(proc[p].tf).call \in Calls
    BY <2>1 DEF MainLine, Last
  <2> QED  BY <1>1, <2>1, <2>2 DEF Begun, Calls
<1>5. CASE proc' = Returned(proc, p, 0) /\ Leaves(p)
  <2>1. /\ DOMAIN proc' = Procs /\ \A q \in Procs \ {p} : proc'[q] = proc[q]
        /\ Shape(proc'[p]) /\ proc'[p].tf.pc = proc[p].tf.pc
        /\ proc'[p].state = proc[p].state /\ proc'[p].alarm = proc[p].alarm
        /\ proc'[p].alarmticks = proc[p].alarmticks /\ proc'[p].handler = proc[p].handler
        /\ proc'[p].savedtf = proc[p].savedtf
    BY <1>2, <1>5, ANow, ReturnedShape
  <2>2. Tame(proc'[p], NoCall, mem[p].count, NoCall)
    <3>1. proc[p].alarm = TRUE /\ proc[p].alarmticks > 0 => Fits(proc[p].handler, proc[p].tf.pc[1], mem[p].count)
      BY <1>3 DEF Outside
    <3>2. Last(proc[p].tf).call \notin {"exit", "exec", "fork"}
      BY <1>4
    <3> QED  BY <1>2, <1>3, <2>1, <3>1, <3>2, ReturnTame
  <2> QED  BY <1>1, <1>3, <1>5, <2>1, <2>2, CallerStep
<1>6. ASSUME NEW k, k.call = "sleeping", kern' = [kern EXCEPT ![p] = k], Sleeps(h, p, TicksChan)
      PROVE  AOK'
  <2>1. /\ DOMAIN proc' = Procs /\ proc'[p].state = "SLEEPING"
        /\ \A q \in Procs : Untouched(proc'[q], proc[q])
    BY <1>2, <1>6, SleepsUntouched
  <2>2. k # NoCall
    BY <1>6 DEF NoCall
  <2>3. Tame(proc[p], k, mem[p].count, NoCall)
    <3>1. InProgram(proc[p].tf, proc[p].alarm, k)
      BY <1>3, <1>4, <1>6, <2>2 DEF Outside, InProgram, Begun
    <3>2. Fresh(proc[p].tf, proc[p].alarm, k, mem[p].count)
      BY <1>3, <2>2 DEF Outside, Fresh
    <3>3. Outside(proc[p], k, mem[p].count)
      BY <1>3, <3>1, <3>2 DEF Outside
    <3> QED  BY <1>2, <3>3 DEF Tame
  <2>4. Tame(proc'[p], k, mem[p].count, NoCall)
    BY <2>1, <2>3, UntouchedTame
  <2>5. /\ kern'[p] = k /\ mem'[p] = mem[p] /\ \A q \in Procs \ {p} : kern'[q] = kern[q] /\ mem'[q] = mem[q]
        /\ {"count", "drift", "status"} \subseteq DOMAIN mem'[p] /\ DOMAIN mem' = Procs
        /\ "cut" \in DOMAIN seen' /\ seen'.cut = seen.cut
    BY <1>1, <1>6, ANow DEF TamePast
  <2>6. Tame(proc'[p], kern'[p], mem'[p].count, seen.cut[p])
    BY <1>3, <2>4, <2>5
  <2>7. proc'[p].savedtf = proc[p].savedtf
    BY <2>1 DEF Untouched
  <2> QED  BY <1>1, <2>1, <2>5, <2>6, <2>7, OneStep
<1>7. \/ proc' = Returned(proc, p, 0) /\ Leaves(p)
      \/ \E k : k.call = "sleeping" /\ kern' = [kern EXCEPT ![p] = k] /\ Sleeps(h, p, TicksChan)
  <2>1. PICK since \in {IF kern[p].call = "sleep" THEN ticks ELSE kern[p].since} :
          \/ ticks - since >= kern[p].n /\ proc' = Returned(proc, p, 0) /\ Leaves(p) /\ UNCHANGED hart
          \/ /\ ticks - since < kern[p].n
             /\ Sleeps(h, p, TicksChan)
             /\ kern' = [kern EXCEPT ![p] = [call |-> "sleeping", n |-> kern[p].n, since |-> since]]
    BY DEF SysSleep
  <2>2. [call |-> "sleeping", n |-> kern[p].n, since |-> since].call = "sleeping"
    OBVIOUS
  <2> QED  BY <2>1, <2>2
<1> QED  BY <1>5, <1>6, <1>7

-----------------------------------------------------------------------------
LEMMA InitAlarm == Init => AOK
<1> SUFFICES ASSUME Init PROVE AOK
  OBVIOUS
<1>1. /\ proc = [p \in Procs |-> IF p = InitProc THEN [Unused EXCEPT !.state = "RUNNABLE", !.pid = 1] ELSE Unused]
      /\ kern = [p \in Procs |-> NoCall] /\ mem = [p \in Procs |-> Memory] /\ page = [g \in Pages |-> NoCall]
      /\ seen = SeenInit /\ work \in Works
  BY DEF Init
<1>2. TamePast
  BY <1>1 DEF TamePast, Memory, SeenInit
<1>3. \A p \in Procs : seen.cut[p] = NoCall
  BY <1>1 DEF SeenInit
<1>4. InHandler = {}
  BY <1>3 DEF InHandler
<1>5. PagesOK
  BY <1>1, <1>4 DEF PagesOK
<1>6. Plain(Code("init"), 1)
  <2>1. work.progs \in Seq(Mains)
    BY <1>1, ProcAssumption
  <2> QED  BY <2>1, SoundInit DEF Sound, Code
<1>7. ASSUME NEW p \in Procs PROVE Tame(proc[p], NoCall, mem[p].count, NoCall)
  <2>1. /\ Shape(proc[p]) /\ proc[p].tf.pc[1] = "init" /\ proc[p].tf.pc[2] = 1 /\ proc[p].alarm = FALSE
        /\ proc[p].state \in {"UNUSED", "RUNNABLE"}
    <3>1. Shape(Unused) /\ Unused.tf = Context("init", 0) /\ Unused.alarm = FALSE /\ Unused.state = "UNUSED"
      BY DEF Unused, Shape, Regs, Context
    <3>2. PICK r : r = Unused
      OBVIOUS
    <3>3. proc[p] = r \/ proc[p] = [r EXCEPT !.state = "RUNNABLE", !.pid = 1]
      BY <1>1, <3>2
    <3>4. Shape(r) /\ r.tf = Context("init", 0) /\ r.alarm = FALSE /\ r.state = "UNUSED"
      BY <3>1, <3>2
    <3>5. /\ Shape(proc[p]) /\ proc[p].tf = Context("init", 0) /\ proc[p].alarm = FALSE
          /\ proc[p].state \in {"UNUSED", "RUNNABLE"}
      BY <3>3, <3>4 DEF Shape
    <3> QED  BY <3>5 DEF Context
  <2>2. InProgram(proc[p].tf, proc[p].alarm, NoCall)
    BY <1>6, <2>1 DEF InProgram, AtLine, Here, Plain, Ordinary
  <2>3. Fresh(proc[p].tf, proc[p].alarm, NoCall, mem[p].count)
    BY <2>1 DEF Fresh
  <2>4. Outside(proc[p], NoCall, mem[p].count)
    BY <2>1, <2>2, <2>3 DEF Outside
  <2> QED  BY <2>1, <2>4 DEF Tame
<1>8. AlarmOK
  BY <1>1, <1>3, <1>7 DEF AlarmOK
<1> QED  BY <1>2, <1>5, <1>8 DEF AOK

LEMMA StepAlarm == ASSUME AInv, [Next]_vars PROVE AInv'
<1>1. CInv'
  BY ANow, StepCounts
<1>2. ASSUME UNCHANGED vars PROVE AOK'
  <2>1. work' = work /\ proc' = proc /\ kern' = kern /\ mem' = mem /\ page' = page /\ seen' = seen
    BY <1>2 DEF vars
  <2> QED  BY <2>1, ANow, UntouchedSelf, NobodyStep
<1>3. ASSUME NEW h \in Harts, NEW p \in Procs, Process(h, p) PROVE AOK'
  BY <1>3, EntersAlarm, ComputesAlarm, SimpleAlarm, ExecAlarm, SigreturnAlarm, ForkAllocAlarm, ForkRunAlarm,
     ExitAlarm, WaitAlarm, SleepAlarm DEF Process
<1>4. ASSUME NEW h \in Harts, Total(h) \/ Draw(h) \/ Take(h) PROVE AOK'
  BY <1>4, ScanAlarm
<1>5. ASSUME Late \/ Tick \/ UpdateTime \/ ClockEnd \/ \E h \in Harts : OtherTick(h) PROVE AOK'
  BY <1>5, ClockAlarm
<1> QED  BY <1>1, <1>2, <1>3, <1>4, <1>5 DEF Next, AInv

LEMMA PagesCounted == ASSUME AInv PROVE SavedExact
<1> DEFINE used == {g \in Pages : page[g] # NoCall}
<1>1. \A p \in InHandler : proc[p].savedtf \in used /\ proc[p].savedtf # None /\ page[proc[p].savedtf] = seen.cut[p]
  <2> TAKE p \in InHandler
  <2>1. proc[p].savedtf \in Pages /\ page[proc[p].savedtf] = seen.cut[p] /\ seen.cut[p] # NoCall
    BY ANow DEF PagesOK, InHandler
  <2> QED  BY <2>1, ProcAssumption DEF None
<1>2. IsFiniteSet(InHandler)
  <2>1. IsFiniteSet(Procs)
    BY ProcAssumption, FS_Interval DEF Procs
  <2> QED  BY <2>1, FS_Subset DEF InHandler
<1>3. Cardinality(used) = Cardinality(InHandler)
  <2> DEFINE f == [p \in InHandler |-> proc[p].savedtf]
  <2>1. f \in Bijection(InHandler, used)
    <3>1. f \in [InHandler -> used]
      BY <1>1
    <3>2. \A p, q \in InHandler : f[p] = f[q] => p = q
      BY ANow DEF PagesOK
    <3>3. \A g \in used : \E p \in InHandler : f[p] = g
      BY ANow DEF PagesOK
    <3> QED  BY <3>1, <3>2, <3>3 DEF Bijection, Injection, Surjection, IsInjective
  <2>2. Cardinality(InHandler) = Cardinality(used)
    BY <1>2, <2>1, FS_Bijection DEF ExistsBijection
  <2> QED  BY <2>2
<1> QED  BY <1>1, <1>3 DEF SavedExact

\* Whichever of the programs run and whenever the clock interrupts them, a process in
\* the handler of an alarm finds in its page the context the alarm interrupted, no
\* other process uses that page, and sigreturn() leaves none allocated (trap.c:79,
\* sysproc.c:152, alarmtest.c:113).
THEOREM SavedAlwaysExact == Spec => []SavedExact
<1>1. AInv => SavedExact
  BY PagesCounted
<1>2. Init => AInv
  BY InitAlarm, InitCInv DEF AInv
<1>3. AInv /\ [Next]_vars => AInv'
  BY StepAlarm
<1> QED  BY <1>1, <1>2, <1>3, PTL DEF Spec
=============================================================================
