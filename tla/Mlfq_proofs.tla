---------------------------- MODULE Mlfq_proofs ----------------------------
(***************************************************************************)
(* Proofs about Mlfq for every number of slots and queues, all time slices *)
(* and every boost period.                                                 *)
(***************************************************************************)
EXTENDS Mlfq, FiniteSetTheorems, TLAPS

-----------------------------------------------------------------------------
(* Numbers.                                                                *)

LEMMA LeastNat ==
  ASSUME NEW S, S \subseteq Nat, S # {}
  PROVE  \E x \in S : \A y \in S : x <= y
<1> DEFINE R == OpToRel(<, Nat)
<1>1. \A x, y \in Nat : <<y, x>> \in R <=> y < x
  BY DEF OpToRel
<1>2. IsWellFoundedOn(R, Nat)
  BY NatLessThanWellFounded
<1> HIDE DEF R
<1>3. PICK x \in S : \A y \in S : ~(<<y, x>> \in R)
  BY <1>2, WFMin
<1>4. ASSUME NEW y \in S PROVE x <= y
  <2>1. x \in Nat /\ y \in Nat  OBVIOUS
  <2>2. ~(y < x)  BY <1>1, <1>3, <2>1
  <2> QED  BY <2>1, <2>2
<1> QED  BY <1>4

LEMMA FirstFact == ASSUME NEW S, S \subseteq Procs, S # {} PROVE FirstOf(S) \in S
<1>1. S \subseteq Nat
  BY MlfqAssumption DEF Procs
<1>2. \E x \in S : \A y \in S : x <= y
  BY <1>1, LeastNat
<1> QED  BY <1>2 DEF FirstOf

-----------------------------------------------------------------------------
(* The operations on one queue.                                            *)

QueueType == [slot : [Procs -> Procs \cup {None}], size : 0..NPROC]

\* The slots in use hold processes, no one twice; none is left behind them.
Sound(r) == \A i, j \in 1..r.size :
  r.slot[i] \in Procs /\ (r.slot[i] = r.slot[j] => i = j)
Clear(r) == \A i \in Procs : i > r.size => r.slot[i] = None
Has(r, p) == \E i \in 1..r.size : r.slot[i] = p

\* A queue without repetition that is full holds everybody: enqueue() has no reason to
\* panic.
LEMMA FullHasAll ==
  ASSUME NEW r \in QueueType, Sound(r), NEW p \in Procs, r.size = NPROC
  PROVE  Present(r, p)
<1>1. 1..r.size = Procs /\ IsFiniteSet(Procs)
  BY FS_Interval, MlfqAssumption DEF Procs
<1>2. r.slot \in [Procs -> Procs]
  BY <1>1 DEF QueueType, Sound
<1>3. r.slot \in Injection(Procs, Procs)
  BY <1>1, <1>2 DEF Sound, Injection, IsInjective
<1>4. r.slot \in Surjection(Procs, Procs)
  BY <1>1, <1>3, FS_Injection
<1> QED  BY <1>4 DEF Surjection, Present

LEMMA EnqueueFact ==
  ASSUME NEW r \in QueueType, Sound(r), NEW p \in Procs
  PROVE  LET e == Enqueued(r, p) IN
         /\ e \in QueueType /\ Sound(e) /\ r.size <= e.size
         /\ Clear(r) => Clear(e) /\ Has(e, p)
         /\ \A q \in Procs : Has(r, q) => Has(e, q)
<1> DEFINE e == Enqueued(r, p)
<1>0. r.slot \in [Procs -> Procs \cup {None}] /\ r.size \in 0..NPROC /\ NPROC \in Nat
  BY MlfqAssumption DEF QueueType
<1>1. CASE Present(r, p)
  <2>1. e = r  BY <1>1 DEF Enqueued
  <2>2. Clear(r) => Has(r, p)
    BY <1>0, <1>1, MlfqAssumption DEF Clear, Present, Has, Procs
  <2> QED  BY <1>0, <2>1, <2>2
<1>2. CASE ~Present(r, p)
  <2>1. r.size + 1 \in Procs
    BY <1>0, <1>2, FullHasAll, MlfqAssumption DEF Procs
  <2>2. e = [slot |-> [r.slot EXCEPT ![r.size + 1] = p], size |-> r.size + 1]
    BY <1>2 DEF Enqueued
  <2> DEFINE s == [r.slot EXCEPT ![r.size + 1] = p]
  <2>3. /\ e.slot = s /\ e.size = r.size + 1 /\ s \in [Procs -> Procs \cup {None}]
        /\ s[r.size + 1] = p /\ \A i \in Procs : i # r.size + 1 => s[i] = r.slot[i]
    BY <1>0, <2>1, <2>2
  <2> HIDE DEF s, e
  <2>4. \A i \in 1..e.size : i \in Procs /\ (i \in 1..r.size \/ i = r.size + 1)
    BY <1>0, <2>1, <2>3 DEF Procs
  <2>5. e \in QueueType
    BY <1>0, <2>1, <2>2, <2>3 DEF QueueType, s, e, Procs
  <2>6. Sound(e)
    <3>1. \A i \in 1..r.size : i \in Procs /\ i # r.size + 1 /\ r.slot[i] # p
      BY <1>0, <1>2, <2>1 DEF Procs, Present
    <3>2. \A i \in 1..e.size : e.slot[i] = p \/ (i \in 1..r.size /\ e.slot[i] = r.slot[i])
      BY <2>3, <2>4, <3>1
    <3>3. \A i \in 1..e.size : e.slot[i] = p => i = r.size + 1
      BY <2>3, <2>4, <3>1
    <3> QED  BY <3>2, <3>3 DEF Sound
  <2>7. Clear(r) => Clear(e)
    BY <1>0, <2>3 DEF Clear, Procs
  <2>8. Has(e, p) /\ \A q \in Procs : Has(r, q) => Has(e, q)
    <3>1. \A i \in 1..r.size : i \in 1..e.size /\ i \in Procs /\ i # r.size + 1
      BY <1>0, <2>1, <2>3 DEF Procs
    <3>2. r.size + 1 \in 1..e.size
      BY <1>0, <2>3
    <3> QED  BY <2>3, <3>1, <3>2 DEF Has
  <2> QED  BY <1>0, <2>3, <2>5, <2>6, <2>7, <2>8 DEF e
<1> QED  BY <1>1, <1>2

\* n is the size dequeue() has read; the queue may have grown since.
LEMMA DequeueFact ==
  ASSUME NEW r \in QueueType, Sound(r), NEW p \in Procs, NEW n \in 0..r.size
  PROVE  LET d == Dequeued(r, p, n) IN
         /\ d \in QueueType /\ Sound(d)
         /\ n = r.size => /\ Clear(r) => Clear(d)
                          /\ \A q \in Procs \ {p} : Has(r, q) => Has(d, q)
<1> DEFINE d == Dequeued(r, p, n)
<1>0. /\ r.slot \in [Procs -> Procs \cup {None}] /\ r.size \in 0..NPROC
      /\ n \in Nat /\ n <= r.size /\ NPROC \in Nat
  BY MlfqAssumption DEF QueueType
<1>1. CASE Places(r, p, n) = {}
  BY <1>1 DEF Dequeued
<1>2. CASE Places(r, p, n) # {}
  <2>1. \A i \in Places(r, p, n) : i \in Procs /\ i \in 1..n /\ i \in 1..r.size /\ r.slot[i] = p
    BY <1>0 DEF Places, Procs
  <2>2. \E i \in Places(r, p, n) : \A j \in Places(r, p, n) : i <= j
    BY <1>2, <2>1, LeastNat, <1>0 DEF Procs
  <2> DEFINE at == CHOOSE i \in Places(r, p, n) : \A j \in Places(r, p, n) : i <= j
  <2>3. at \in 1..n /\ at \in Procs /\ r.slot[at] = p
    BY <2>1, <2>2
  <2> DEFINE s == [j \in Procs |-> IF j < at \/ j > n THEN r.slot[j]
                                   ELSE IF j = n THEN None ELSE r.slot[j + 1]]
  <2>4. d = [slot |-> s, size |-> n - 1]
    BY <1>2 DEF Dequeued
  <2> HIDE DEF at
  <2>5. \A j \in Procs : /\ j < at \/ j > n => s[j] = r.slot[j]
                         /\ j = n => s[j] = None
                         /\ at <= j /\ j < n => j + 1 \in Procs /\ s[j] = r.slot[j + 1]
    BY <1>0, <2>3 DEF Procs
  <2>6. s \in [Procs -> Procs \cup {None}]
    BY <1>0, <2>3 DEF Procs
  <2>7. d.slot = s /\ d.size = n - 1 /\ d \in QueueType
    BY <1>0, <2>3, <2>4, <2>6 DEF QueueType
  <2> HIDE DEF s, d
  <2>8. Sound(d)
    <3>1. ASSUME NEW i \in 1..d.size
          PROVE  \E k \in 1..r.size : /\ s[i] = r.slot[k]
                                      /\ k = IF i < at THEN i ELSE i + 1
      <4>1. i \in Procs /\ i < n /\ i \in 1..r.size /\ i + 1 \in 1..r.size
        BY <1>0, <2>3, <2>7 DEF Procs
      <4>2. CASE i < at  BY <2>5, <4>1, <4>2
      <4>3. CASE ~(i < at)
        <5>1. at <= i  BY <2>3, <4>1, <4>3 DEF Procs
        <5> QED  BY <2>5, <4>1, <4>3, <5>1
      <4> QED  BY <4>2, <4>3
    <3> SUFFICES ASSUME NEW i \in 1..d.size, NEW j \in 1..d.size
                 PROVE  s[i] \in Procs /\ (s[i] = s[j] => i = j)
      BY <2>7 DEF Sound
    <3>2. PICK k \in 1..r.size : s[i] = r.slot[k] /\ k = IF i < at THEN i ELSE i + 1
      BY <3>1
    <3>3. PICK l \in 1..r.size : s[j] = r.slot[l] /\ l = IF j < at THEN j ELSE j + 1
      BY <3>1
    <3>4. s[i] \in Procs /\ (s[i] = s[j] => k = l)
      BY <3>2, <3>3 DEF Sound
    <3>5. k = l => i = j
      BY <3>2, <3>3, <2>3, <2>7, <1>0
    <3> QED  BY <3>4, <3>5
  <2>9. ASSUME n = r.size, Clear(r) PROVE Clear(d)
    <3> SUFFICES ASSUME NEW i \in Procs, i > n - 1 PROVE s[i] = None
      BY <2>7 DEF Clear
    <3>1. CASE i = n  BY <2>5, <3>1
    <3>2. CASE i > n  BY <2>5, <2>9, <3>2 DEF Clear
    <3> QED  BY <1>0, <3>1, <3>2 DEF Procs
  <2>10. ASSUME n = r.size, NEW q \in Procs \ {p}, Has(r, q) PROVE Has(d, q)
    <3>1. PICK i \in 1..r.size : r.slot[i] = q
      BY <2>10 DEF Has
    <3>2. i \in Procs /\ i # at
      BY <1>0, <2>3, <3>1 DEF Procs
    <3>3. CASE i < at
      <4>1. i \in 1..(n - 1)  BY <1>0, <2>3, <3>3, <3>1
      <4> QED  BY <2>5, <2>7, <3>1, <3>2, <3>3, <4>1 DEF Has
    <3>4. CASE i > at
      <4>1. /\ i - 1 \in Procs /\ at <= i - 1 /\ i - 1 < n /\ i - 1 \in 1..(n - 1)
            /\ (i - 1) + 1 = i
        BY <1>0, <2>3, <2>10, <3>4, <3>1 DEF Procs
      <4>2. s[i - 1] = r.slot[i]
        BY <2>5, <4>1
      <4> QED  BY <2>7, <3>1, <4>1, <4>2 DEF Has
    <3> QED  BY <3>2, <3>3, <3>4, <2>3 DEF Procs
  <2> QED  BY <2>7, <2>8, <2>9, <2>10 DEF d
<1> QED  BY <1>1, <1>2

-----------------------------------------------------------------------------
(* The invariant.                                                          *)

\* Every queue is sound, and nothing stale lies behind the end of queue 0.
QueuesOK(qs) ==
  /\ qs \in [Queues -> QueueType]
  /\ \A q \in Queues : Sound(qs[q])
  /\ Clear(qs[0])

\* Whoever may run and has priority 0 is in queue 0, the running process included.
TopHeld == \A p \in Procs :
  state[p] \in {"RUNNABLE", "RUNNING"} /\ priority[p] = 0 => Has(queues[0], p)

\* What the scheduler's position says of its variables.
SchedState ==
  /\ sched \in {"acquire", "running"} => cur \in Procs
  /\ sched = "running" => state[cur] = "RUNNING"
  /\ \A p \in Procs : state[p] = "RUNNING" => sched = "running" /\ cur = p
  /\ sched = "shift" => priority[scan] # 0 /\ size <= queues[priority[scan]].size

\* Who has a parent, and who is being created.
Family ==
  /\ state[InitProc] \notin {"UNUSED", "USED", "ZOMBIE"}
  /\ \A p \in Procs : forking[p] # None =>
       state[forking[p]] = "USED" /\ state[p] \in {"RUNNABLE", "RUNNING"}
  /\ \A p, q \in Procs : forking[p] # None /\ forking[p] = forking[q] => p = q
  /\ \A p \in Procs : p # InitProc /\ state[p] \notin {"UNUSED", "USED"} => parent[p] \in Procs

IInv ==
  /\ TypeOK /\ QueuesOK(queues) /\ TopHeld /\ SliceKept /\ SchedState
  /\ Family /\ ZombieHeard

LEMMA Constants ==
  /\ NPROC \in Nat \ {0} /\ InitProc \in Procs /\ None \notin Procs
  /\ 0 \in Queues /\ Queues \subseteq Nat
  /\ TimeSlices \in [Queues -> Nat \ {0}]
BY MlfqAssumption DEF InitProc, Procs, Queues

-----------------------------------------------------------------------------
(* The operations on all queues.                                           *)

LEMMA EnqueueAt ==
  ASSUME NEW qs, QueuesOK(qs), NEW q \in Queues, NEW p \in Procs
  PROVE  LET e == [qs EXCEPT ![q] = Enqueued(@, p)] IN
         /\ QueuesOK(e)
         /\ \A k \in Queues : qs[k].size <= e[k].size
         /\ \A r \in Procs : Has(qs[0], r) => Has(e[0], r)
         /\ q = 0 => Has(e[0], p)
<1> DEFINE e == [qs EXCEPT ![q] = Enqueued(@, p)]
<1>1. \A k \in Queues : qs[k] \in QueueType /\ Sound(qs[k]) /\ qs[k].size \in Nat
  BY MlfqAssumption DEF QueuesOK, QueueType
<1>2. e[q] = Enqueued(qs[q], p) /\ \A k \in Queues : k # q => e[k] = qs[k]
  BY DEF QueuesOK
<1>3. /\ e[q] \in QueueType /\ Sound(e[q]) /\ qs[q].size <= e[q].size
      /\ Clear(qs[q]) => Clear(e[q]) /\ Has(e[q], p)
      /\ \A r \in Procs : Has(qs[q], r) => Has(e[q], r)
  BY <1>1, <1>2, EnqueueFact
<1>4. e \in [Queues -> QueueType]
  BY <1>1, <1>3 DEF QueuesOK
<1> HIDE DEF e
<1> QED  BY <1>1, <1>2, <1>3, <1>4, Constants DEF QueuesOK, e

LEMMA DequeueAt ==
  ASSUME NEW qs, QueuesOK(qs), NEW q \in Queues, NEW p \in Procs,
         NEW n \in 0..qs[q].size, q = 0 => n = qs[q].size
  PROVE  LET d == [qs EXCEPT ![q] = Dequeued(@, p, n)] IN
         /\ QueuesOK(d)
         /\ \A r \in Procs \ {p} : Has(qs[0], r) => Has(d[0], r)
         /\ q # 0 => d[0] = qs[0]
<1> DEFINE d == [qs EXCEPT ![q] = Dequeued(@, p, n)]
<1>1. \A k \in Queues : qs[k] \in QueueType /\ Sound(qs[k])
  BY DEF QueuesOK
<1>2. d[q] = Dequeued(qs[q], p, n) /\ \A k \in Queues : k # q => d[k] = qs[k]
  BY DEF QueuesOK
<1>3. /\ d[q] \in QueueType /\ Sound(d[q])
      /\ n = qs[q].size => /\ Clear(qs[q]) => Clear(d[q])
                           /\ \A r \in Procs \ {p} : Has(qs[q], r) => Has(d[q], r)
  BY <1>1, <1>2, DequeueFact
<1>4. d \in [Queues -> QueueType]
  BY <1>1, <1>3 DEF QueuesOK
<1> HIDE DEF d
<1> QED  BY <1>1, <1>2, <1>3, <1>4, Constants DEF QueuesOK, d

LEMMA ReadyFact ==
  ASSUME NEW qs, QueuesOK(qs), TypeOK, NEW p \in Procs
  PROVE  /\ QueuesOK(Ready(qs, p))
         /\ \A k \in Queues : qs[k].size <= Ready(qs, p)[k].size
         /\ \A r \in Procs : Has(qs[0], r) => Has(Ready(qs, p)[0], r)
         /\ priority[p] = 0 => Has(Ready(qs, p)[0], p)
<1>1. priority[p] \in Queues
  BY DEF TypeOK
<1> QED  BY <1>1, EnqueueAt DEF Ready

\* The end of a turn. ss is the state of the processes, qs the queues it leaves.
LEMMA SwitchFact ==
  ASSUME TypeOK, SliceKept, NEW p \in Procs, NEW ss \in [Procs -> States],
         NEW qs, QueuesOK(qs), SwitchBack(p, ss, qs),
         \A r \in Procs : ss[r] # "RUNNING",
         \A r \in Procs : (ss[r] = "RUNNABLE" \/ r = p) /\ priority[r] = 0 => Has(qs[0], r)
  PROVE  /\ priority' \in [Procs -> Queues] /\ ticksUsed' \in [Procs -> Nat]
         /\ QueuesOK(queues') /\ TopHeld' /\ SliceKept' /\ SchedState'
         /\ state' = ss /\ sched' = "top" /\ cur' = None
<1>1. /\ priority \in [Procs -> Queues] /\ ticksUsed \in [Procs -> Nat]
      /\ priority[p] \in Queues /\ Lower(p) \in Queues
  <2>1. priority \in [Procs -> Queues] /\ ticksUsed \in [Procs -> Nat] /\ priority[p] \in Queues
    BY DEF TypeOK
  <2>2. Lower(p) \in Queues
    BY <2>1, MlfqAssumption DEF Lower, Queues
  <2> QED  BY <2>1, <2>2
<1>2. /\ state' = ss /\ sched' = "top" /\ cur' = None
  BY DEF SwitchBack
<1>3. CASE SliceOver(p)
  <2>1. /\ priority' = [priority EXCEPT ![p] = Lower(p)]
        /\ ticksUsed' = [ticksUsed EXCEPT ![p] = 0]
        /\ queues' = Requeued(qs, p, Lower(p), ss[p])
    BY <1>3 DEF SwitchBack
  <2> DEFINE out == [qs EXCEPT ![priority[p]] = Dequeued(@, p, @.size)]
  <2>2. out = [qs EXCEPT ![priority[p]] = Dequeued(@, p, qs[priority[p]].size)]
    BY <1>1 DEF QueuesOK
  <2>3. qs[priority[p]].size \in 0..qs[priority[p]].size
    <3>1. qs[priority[p]] \in QueueType  BY <1>1 DEF QueuesOK
    <3> QED  BY <3>1, MlfqAssumption DEF QueueType
  <2>5. queues' = IF ss[p] = "RUNNABLE" THEN [out EXCEPT ![Lower(p)] = Enqueued(@, p)] ELSE out
    BY <2>1 DEF Requeued
  <2> HIDE DEF out
  <2>4. QueuesOK(out) /\ \A r \in Procs \ {p} : Has(qs[0], r) => Has(out[0], r)
    BY <1>1, <2>2, <2>3, DequeueAt
  <2>6. /\ QueuesOK(queues')
        /\ \A r \in Procs \ {p} : Has(qs[0], r) => Has(queues'[0], r)
        /\ ss[p] = "RUNNABLE" /\ Lower(p) = 0 => Has(queues'[0], p)
    BY <1>1, <2>4, <2>5, EnqueueAt
  <2>7. TopHeld'
    <3> SUFFICES ASSUME NEW r \in Procs, ss[r] = "RUNNABLE", priority'[r] = 0
                 PROVE  Has(queues'[0], r)
      BY <1>2 DEF TopHeld, Has
    <3>1. CASE r = p  BY <1>1, <2>1, <2>6, <3>1
    <3>2. CASE r # p  BY <1>1, <2>1, <2>6, <3>2
    <3> QED  BY <3>1, <3>2
  <2>8. SliceKept'
    <3> SUFFICES ASSUME NEW r \in Procs PROVE ticksUsed'[r] < TimeSlices[priority'[r]]
      BY DEF SliceKept
    <3>1. CASE r = p
      <4>1. ticksUsed'[p] = 0 /\ priority'[p] = Lower(p)  BY <1>1, <2>1
      <4>2. TimeSlices[Lower(p)] \in Nat \ {0}  BY <1>1, Constants
      <4> QED  BY <3>1, <4>1, <4>2
    <3>2. CASE r # p
      <4>1. ticksUsed'[r] = ticksUsed[r] /\ priority'[r] = priority[r]  BY <1>1, <2>1, <3>2
      <4> QED  BY <4>1 DEF SliceKept
    <3> QED  BY <3>1, <3>2
  <2>9. SchedState'
    BY <1>2 DEF SchedState
  <2> QED  BY <1>1, <1>2, <2>1, <2>6, <2>7, <2>8, <2>9
<1>4. CASE ~SliceOver(p)
  <2>1. priority' = priority /\ ticksUsed' = [ticksUsed EXCEPT ![p] = @ + 1] /\ queues' = qs
    BY <1>4 DEF SwitchBack
  <2>2. TopHeld'
    BY <1>2, <2>1 DEF TopHeld, Has
  <2>3. SliceKept'
    <3>1. TimeSlices[priority[p]] \in Nat \ {0} /\ ticksUsed[p] \in Nat
      BY <1>1, Constants
    <3>2. ticksUsed[p] + 1 < TimeSlices[priority[p]]
      BY <1>4, <3>1 DEF SliceOver
    <3> QED  BY <1>1, <2>1, <3>2 DEF SliceKept
  <2>4. SchedState'
    BY <1>2 DEF SchedState
  <2> QED  BY <1>1, <1>2, <2>1, <2>2, <2>3, <2>4
<1> QED  BY <1>3, <1>4

\* A slice that starts afresh.
LEMMA ResetFact ==
  ASSUME TypeOK, SliceKept, NEW p \in Procs, ticksUsed' = [ticksUsed EXCEPT ![p] = 0],
         priority' = priority \/ priority' = [priority EXCEPT ![p] = 0]
  PROVE  SliceKept'
<1> SUFFICES ASSUME NEW r \in Procs PROVE ticksUsed'[r] < TimeSlices[priority'[r]]
  BY DEF SliceKept
<1>1. /\ priority'[r] = priority[r] \/ (r = p /\ priority'[r] = 0)
      /\ ticksUsed'[r] = IF r = p THEN 0 ELSE ticksUsed[r]
  BY DEF TypeOK
<1>2. CASE r = p
  <2>1. TimeSlices[priority'[r]] \in Nat \ {0}
    BY <1>1, Constants DEF TypeOK
  <2> QED  BY <1>1, <1>2, <2>1
<1>3. CASE r # p
  BY <1>1, <1>3 DEF SliceKept
<1> QED  BY <1>2, <1>3

-----------------------------------------------------------------------------
(* The scheduler and the interrupts.                                       *)

\* Steps that touch neither the processes nor the queues.
LEMMA SchedOnly ==
  ASSUME IInv, UNCHANGED <<state, levels, procVars, queues>>, TypeOK', SchedState'
  PROVE  IInv'
<1>1. QueuesOK(queues') /\ TopHeld' /\ SliceKept'
  BY DEF IInv, levels, TopHeld, SliceKept, Has
<1>2. Family' /\ ZombieHeard'
  BY DEF IInv, procVars, Family, ZombieHeard, SleepsOn, Zombies, Children
<1> QED  BY <1>1, <1>2 DEF IInv

LEMMA LookStep ==
  ASSUME IInv, Top \/ BoostSkip \/ BoostDequeue \/ Select \/ Tick
  PROVE  IInv'
<1>0. TypeOK /\ SchedState /\ QueuesOK(queues)
  BY DEF IInv
<1>1. UNCHANGED <<state, levels, procVars, queues>>
  BY DEF Top, BoostSkip, BoostDequeue, Select, Tick
<1>2. CASE Top
  <2>1. TypeOK'  BY <1>0, <1>2 DEF TypeOK, Top, timeVars, boostVars, levels, procVars
  <2>2. SchedState'  BY <1>0, <1>2 DEF SchedState, Top, At, levels
  <2> QED  BY <1>1, <2>1, <2>2, SchedOnly
<1>3. CASE BoostSkip
  <2>1. scan' \in Procs
    BY <1>0, <1>3, MlfqAssumption DEF TypeOK, BoostSkip, Procs
  <2>2. TypeOK'  BY <1>0, <1>3, <2>1 DEF TypeOK, BoostSkip, timeVars, levels, procVars, At
  <2>3. SchedState'  BY <1>0, <1>3 DEF SchedState, BoostSkip, At, levels
  <2> QED  BY <1>1, <2>2, <2>3, SchedOnly
<1>4. CASE BoostDequeue
  <2>1. queues[priority[scan]] \in QueueType
    BY <1>0 DEF TypeOK, QueuesOK
  <2>2. size' \in 0..NPROC /\ size' = queues[priority[scan]].size /\ size' <= size'
    BY <1>4, <2>1, MlfqAssumption DEF BoostDequeue, QueueType
  <2>3. TypeOK'  BY <1>0, <1>4, <2>2 DEF TypeOK, BoostDequeue, timeVars, levels, procVars
  <2>4. SchedState'  BY <1>0, <1>4, <2>2 DEF SchedState, BoostDequeue, At, levels
  <2> QED  BY <1>1, <2>3, <2>4, SchedOnly
<1>5. CASE Select
  <2> DEFINE busy == {q \in Queues : queues[q].size > 0}
             highest == CHOOSE q \in busy : \A r \in busy : q <= r
  <2>1. cur' \in Procs \cup {None} /\ (sched' = "acquire" => cur' \in Procs)
        /\ sched' \in {"top", "acquire"}
    <3>1. CASE busy = {}
      BY <1>0, <1>5, <3>1 DEF Select, TypeOK
    <3>2. CASE busy # {}
      <4>1. busy \subseteq Nat  BY Constants
      <4>2. \E q \in busy : \A r \in busy : q <= r
        BY <3>2, <4>1, LeastNat
      <4>3. highest \in busy
        BY <4>2
      <4>4. cur' = queues[highest].slot[1] /\ sched' = "acquire"
        BY <1>5, <3>2 DEF Select
      <4> HIDE DEF highest
      <4>5. queues[highest] \in QueueType /\ Sound(queues[highest]) /\ queues[highest].size > 0
        BY <1>0, <4>3 DEF QueuesOK
      <4>6. 1 \in 1..queues[highest].size
        BY <4>5, MlfqAssumption DEF QueueType
      <4> QED  BY <4>4, <4>5, <4>6 DEF Sound
    <3> QED  BY <3>1, <3>2
  <2>2. TypeOK'  BY <1>0, <1>5, <2>1 DEF TypeOK, Select, timeVars, boostVars, levels, procVars
  <2>3. SchedState'  BY <1>0, <1>5, <2>1 DEF SchedState, Select, At, levels
  <2> QED  BY <1>1, <2>2, <2>3, SchedOnly
<1>6. CASE Tick
  <2>1. ticks' \in 0..(BoostPeriod - 1)
    BY <1>0, <1>6, MlfqAssumption DEF Tick, TypeOK
  <2>2. TypeOK'  BY <1>0, <1>6, <2>1 DEF TypeOK, Tick, boostVars, levels, procVars
  <2>3. SchedState'  BY <1>0, <1>6 DEF SchedState, Tick, boostVars, levels
  <2> QED  BY <1>1, <2>2, <2>3, SchedOnly
<1> QED  BY <1>2, <1>3, <1>4, <1>5, <1>6

LEMMA BoostShiftStep == ASSUME IInv, BoostShift PROVE IInv'
<1>0. TypeOK /\ SchedState /\ QueuesOK(queues) /\ TopHeld /\ SliceKept /\ Family /\ ZombieHeard
  BY DEF IInv
<1>1. UNCHANGED <<state, levels, procVars, timeVars, cur, scan>> /\ sched' = "push" /\ size' = 0
  BY DEF BoostShift
<1>2. sched = "shift" /\ priority[scan] \in Queues \ {0} /\ scan \in Procs
      /\ size \in 0..queues[priority[scan]].size
  <2>1. priority[scan] \in Queues /\ scan \in Procs /\ size \in Nat
    BY <1>0, MlfqAssumption DEF TypeOK
  <2>2. queues[priority[scan]].size \in Nat
    BY <1>0, <2>1, MlfqAssumption DEF QueuesOK, QueueType
  <2> QED  BY <1>0, <2>1, <2>2 DEF SchedState, BoostShift, At
<1>3. queues' = [queues EXCEPT ![priority[scan]] = Dequeued(@, scan, size)]
  BY DEF BoostShift
<1>4. QueuesOK(queues') /\ queues'[0] = queues[0]
  <2> DEFINE q == priority[scan]
  <2>1. q \in Queues /\ q # 0 /\ size \in 0..queues[q].size
    BY <1>2
  <2>2. queues' = [queues EXCEPT ![q] = Dequeued(@, scan, size)]
    BY <1>3
  <2> HIDE DEF q
  <2>3. QueuesOK(queues) /\ scan \in Procs /\ (q = 0 => size = queues[q].size)
    BY <1>0, <1>2, <2>1
  <2>4. LET d == [queues EXCEPT ![q] = Dequeued(@, scan, size)] IN
        QueuesOK(d) /\ (q # 0 => d[0] = queues[0])
    BY <2>1, <2>3, DequeueAt
  <2> QED  BY <2>1, <2>2, <2>4
<1>5. TypeOK'
  BY <1>0, <1>1, <1>4, Constants DEF TypeOK, QueuesOK, QueueType, levels, procVars, timeVars
<1>6. TopHeld' /\ SliceKept'
  BY <1>0, <1>1, <1>4 DEF TopHeld, SliceKept, Has, levels
<1>7. SchedState'
  BY <1>0, <1>1, <1>2 DEF SchedState
<1>8. Family' /\ ZombieHeard'
  BY <1>0, <1>1 DEF procVars, Family, ZombieHeard, SleepsOn, Zombies, Children
<1> QED  BY <1>4, <1>5, <1>6, <1>7, <1>8 DEF IInv

LEMMA BoostPushStep == ASSUME IInv, BoostPush PROVE IInv'
<1>0. TypeOK /\ SchedState /\ QueuesOK(queues) /\ TopHeld /\ SliceKept /\ Family /\ ZombieHeard
  BY DEF IInv
<1>1. /\ UNCHANGED <<state, procVars, timeVars, cur, boostVars>>
      /\ sched = "push" /\ sched' = "boost"
      /\ priority' = [priority EXCEPT ![scan] = 0]
      /\ ticksUsed' = [ticksUsed EXCEPT ![scan] = 0]
      /\ queues' = [queues EXCEPT ![0] = Enqueued(@, scan)]
  BY DEF BoostPush, At
<1>2. /\ QueuesOK(queues') /\ Has(queues'[0], scan)
      /\ \A r \in Procs : Has(queues[0], r) => Has(queues'[0], r)
  BY <1>0, <1>1, Constants, EnqueueAt DEF TypeOK
<1>3. TypeOK'
  BY <1>0, <1>1, <1>2, Constants DEF TypeOK, QueuesOK, QueueType, procVars, timeVars, boostVars
<1>4. TopHeld'
  <2> SUFFICES ASSUME NEW r \in Procs, state[r] \in {"RUNNABLE", "RUNNING"}, priority'[r] = 0
               PROVE  Has(queues'[0], r)
    BY <1>1 DEF TopHeld, Has
  <2>1. CASE r = scan  BY <1>2, <2>1
  <2>2. CASE r # scan  BY <1>0, <1>1, <1>2, <2>2 DEF TopHeld, TypeOK
  <2> QED  BY <2>1, <2>2
<1>5. SliceKept'
  BY <1>0, <1>1, ResetFact DEF TypeOK
<1>6. SchedState'
  BY <1>0, <1>1 DEF SchedState
<1>7. Family' /\ ZombieHeard'
  BY <1>0, <1>1 DEF procVars, Family, ZombieHeard, SleepsOn, Zombies, Children
<1> QED  BY <1>2, <1>3, <1>4, <1>5, <1>6, <1>7 DEF IInv

LEMMA DispatchStep == ASSUME IInv, Dispatch PROVE IInv'
<1>0. TypeOK /\ SchedState /\ QueuesOK(queues) /\ TopHeld /\ SliceKept /\ Family /\ ZombieHeard
  BY DEF IInv
<1>1. /\ UNCHANGED <<levels, procVars, queues, timeVars, cur, boostVars>>
      /\ sched = "acquire" /\ sched' = "running" /\ state[cur] = "RUNNABLE" /\ cur \in Procs
      /\ state' = [state EXCEPT ![cur] = "RUNNING"]
  BY <1>0 DEF Dispatch, At, SchedState
<1>2. state' \in [Procs -> States] /\ state'[cur] = "RUNNING"
      /\ \A r \in Procs : r # cur => state'[r] = state[r]
  BY <1>0, <1>1 DEF TypeOK, States
<1>3. TypeOK'
  BY <1>0, <1>1, <1>2 DEF TypeOK, levels, procVars, timeVars, boostVars
<1>4. TopHeld' /\ SliceKept'
  BY <1>0, <1>1, <1>2 DEF TopHeld, SliceKept, levels, Has
<1>5. SchedState'
  BY <1>0, <1>1, <1>2 DEF SchedState
<1>6. Family'
  BY <1>0, <1>1, <1>2 DEF Family, procVars, TypeOK
<1>7. ZombieHeard'
  BY <1>0, <1>1, <1>2 DEF ZombieHeard, SleepsOn, Zombies, Children, procVars
<1> QED  BY <1>0, <1>1, <1>3, <1>4, <1>5, <1>6, <1>7 DEF IInv, QueuesOK, Sound, Clear

LEMMA DiscardStep == ASSUME IInv, Discard PROVE IInv'
<1>0. TypeOK /\ SchedState /\ QueuesOK(queues) /\ TopHeld /\ SliceKept /\ Family /\ ZombieHeard
  BY DEF IInv
<1>1. /\ UNCHANGED <<state, priority, procVars, timeVars, boostVars>>
      /\ sched = "acquire" /\ sched' = "top" /\ state[cur] # "RUNNABLE"
      /\ cur \in Procs /\ cur' = None
      /\ ticksUsed' = [ticksUsed EXCEPT ![cur] = 0]
      /\ queues' = [queues EXCEPT ![priority[cur]] = Dequeued(@, cur, @.size)]
  BY <1>0 DEF Discard, At, SchedState
<1>2. priority[cur] \in Queues /\ state[cur] # "RUNNING"
  BY <1>0, <1>1 DEF TypeOK, SchedState
<1>3. /\ QueuesOK(queues')
      /\ \A r \in Procs \ {cur} : Has(queues[0], r) => Has(queues'[0], r)
  <2> DEFINE q == priority[cur]
             n == queues[q].size
  <2>1. q \in Queues /\ n \in 0..n
    <3>1. queues[q] \in QueueType  BY <1>0, <1>2 DEF QueuesOK
    <3> QED  BY <1>2, <3>1, MlfqAssumption DEF QueueType
  <2>2. queues' = [queues EXCEPT ![q] = Dequeued(@, cur, n)]
    BY <1>0, <1>1, <1>2 DEF QueuesOK
  <2>3. n = queues[q].size
    OBVIOUS
  <2> HIDE DEF q, n
  <2>4. QueuesOK(queues) /\ cur \in Procs /\ n \in 0..queues[q].size
    BY <1>0, <1>1, <2>1, <2>3
  <2>5. LET d == [queues EXCEPT ![q] = Dequeued(@, cur, n)] IN
        QueuesOK(d) /\ \A r \in Procs \ {cur} : Has(queues[0], r) => Has(d[0], r)
    BY <2>1, <2>3, <2>4, DequeueAt
  <2> QED  BY <2>2, <2>5
<1>4. TypeOK'
  BY <1>0, <1>1, <1>3, Constants DEF TypeOK, QueuesOK, QueueType, procVars, timeVars, boostVars
<1>5. TopHeld'
  <2> SUFFICES ASSUME NEW r \in Procs, state[r] \in {"RUNNABLE", "RUNNING"}, priority[r] = 0
               PROVE  Has(queues'[0], r)
    BY <1>1 DEF TopHeld, Has
  <2> QED  BY <1>0, <1>1, <1>2, <1>3 DEF TopHeld
<1>6. SliceKept'
  BY <1>0, <1>1, ResetFact DEF TypeOK
<1>7. SchedState'
  BY <1>0, <1>1 DEF SchedState
<1>8. Family' /\ ZombieHeard'
  BY <1>0, <1>1 DEF procVars, Family, ZombieHeard, SleepsOn, Zombies, Children
<1> QED  BY <1>3, <1>4, <1>5, <1>6, <1>7, <1>8 DEF IInv

\* A sleeping or new process is made runnable.
LEMMA WakeFact ==
  ASSUME IInv, NEW p \in Procs, state[p] \in {"SLEEPING", "USED"}, Wake(p),
         UNCHANGED <<levels, sched, cur, boostVars>>
  PROVE  /\ state' \in [Procs -> States] /\ state'[p] = "RUNNABLE"
         /\ \A r \in Procs : r # p => state'[r] = state[r]
         /\ QueuesOK(queues') /\ TopHeld' /\ SliceKept' /\ SchedState'
<1>0. TypeOK /\ SchedState /\ QueuesOK(queues) /\ TopHeld /\ SliceKept
  BY DEF IInv
<1>1. /\ state' = [state EXCEPT ![p] = "RUNNABLE"] /\ queues' = Ready(queues, p)
      /\ priority' = priority /\ ticksUsed' = ticksUsed
      /\ sched' = sched /\ cur' = cur /\ scan' = scan /\ size' = size
  BY DEF Wake, levels, boostVars
<1>2. /\ state' \in [Procs -> States] /\ state'[p] = "RUNNABLE"
      /\ \A r \in Procs : r # p => state'[r] = state[r]
  BY <1>0, <1>1 DEF TypeOK, States
<1>3. /\ QueuesOK(queues')
      /\ \A k \in Queues : queues[k].size <= queues'[k].size
      /\ \A r \in Procs : Has(queues[0], r) => Has(queues'[0], r)
      /\ priority[p] = 0 => Has(queues'[0], p)
  BY <1>0, <1>1, ReadyFact
<1>4. TopHeld'
  <2> SUFFICES ASSUME NEW r \in Procs, state'[r] \in {"RUNNABLE", "RUNNING"}, priority[r] = 0
               PROVE  Has(queues'[0], r)
    BY <1>1 DEF TopHeld, Has
  <2> QED  BY <1>0, <1>2, <1>3 DEF TopHeld
<1>5. SliceKept'
  BY <1>0, <1>1 DEF SliceKept
<1>6. SchedState'
  <2>1. sched = "shift" => size <= queues'[priority[scan]].size
    <3>1. priority[scan] \in Queues /\ size \in Nat
      BY <1>0, MlfqAssumption DEF TypeOK
    <3>2. queues[priority[scan]].size \in Nat /\ queues'[priority[scan]].size \in Nat
      BY <1>0, <1>3, <3>1, MlfqAssumption DEF QueuesOK, QueueType
    <3> QED  BY <1>0, <1>3, <3>1, <3>2 DEF SchedState
  <2> QED  BY <1>0, <1>1, <1>2, <2>1 DEF SchedState
<1> QED  BY <1>2, <1>3, <1>4, <1>5, <1>6

\* A sleeping process is woken and nothing else happens to the processes.
LEMMA WokenStep ==
  ASSUME IInv, NEW p \in Procs, state[p] = "SLEEPING", Wake(p), forking' = forking,
         UNCHANGED <<levels, parent, chan, sched, cur, boostVars>>,
         killed' \in [Procs -> BOOLEAN], handler' \in BOOLEAN, ticks' \in 0..(BoostPeriod - 1)
  PROVE  IInv'
<1>0. TypeOK /\ Family /\ ZombieHeard
  BY DEF IInv
<1>1. /\ state' \in [Procs -> States] /\ state'[p] = "RUNNABLE"
      /\ \A r \in Procs : r # p => state'[r] = state[r]
      /\ QueuesOK(queues') /\ TopHeld' /\ SliceKept' /\ SchedState'
  BY WakeFact
<1>2. TypeOK'
  BY <1>0, <1>1 DEF TypeOK, QueuesOK, QueueType, levels, boostVars
<1>3. Family'
  <2>1. InitProc \in Procs  BY Constants
  <2>2. \A r \in Procs : forking[r] \in Procs \cup {None}  BY <1>0 DEF TypeOK
  <2> QED  BY <1>0, <1>1, <2>1, <2>2 DEF Family
<1>4. ZombieHeard'
  BY <1>0, <1>1 DEF ZombieHeard, SleepsOn, Zombies, Children
<1> QED  BY <1>1, <1>2, <1>3, <1>4 DEF IInv

LEMMA TickWakeStep == ASSUME IInv, TickWake PROVE IInv'
<1>1. FirstOf(TickSleepers) \in TickSleepers
  BY FirstFact DEF TickWake, TickSleepers
<1>2. /\ FirstOf(TickSleepers) \in Procs /\ state[FirstOf(TickSleepers)] = "SLEEPING"
  BY <1>1 DEF TickSleepers, SleepsOn
<1>3. TypeOK /\ UNCHANGED <<levels, procVars, timeVars, sched, cur, boostVars>>
  BY DEF IInv, TickWake
<1> QED  BY <1>2, <1>3, WokenStep DEF TickWake, procVars, timeVars, TypeOK

LEMMA IoWakeStep == ASSUME IInv, NEW p \in Procs, IoWake(p) PROVE IInv'
<1>1. state[p] = "SLEEPING" /\ Wake(p)
  BY DEF IoWake, SleepsOn
<1>2. TypeOK /\ UNCHANGED <<levels, procVars, timeVars, sched, cur, boostVars>>
  BY DEF IInv, IoWake
<1> QED  BY <1>1, <1>2, WokenStep DEF procVars, timeVars, TypeOK

\* The turn of p ends, and p is in state s from now on.
LEMMA TurnStep ==
  ASSUME IInv, sched = "running", NEW p \in Procs, cur = p,
         NEW s \in States \ {"RUNNING"},
         SwitchBack(p, [state EXCEPT ![p] = s], queues)
  PROVE  /\ state' = [state EXCEPT ![p] = s]
         /\ priority' \in [Procs -> Queues] /\ ticksUsed' \in [Procs -> Nat]
         /\ QueuesOK(queues') /\ TopHeld' /\ SliceKept' /\ SchedState'
         /\ sched' = "top" /\ cur' = None
<1>0. TypeOK /\ SchedState /\ QueuesOK(queues) /\ TopHeld /\ SliceKept
  BY DEF IInv
<1> DEFINE ss == [state EXCEPT ![p] = s]
<1>1. ss \in [Procs -> States] /\ ss[p] = s /\ \A r \in Procs : r # p => ss[r] = state[r]
  BY <1>0 DEF TypeOK
<1>2. state[p] = "RUNNING" /\ \A r \in Procs : ss[r] # "RUNNING"
  BY <1>0, <1>1 DEF SchedState
<1> HIDE DEF ss
<1>3. \A r \in Procs : (ss[r] = "RUNNABLE" \/ r = p) /\ priority[r] = 0 => Has(queues[0], r)
  BY <1>0, <1>1, <1>2 DEF TopHeld
<1>4. SwitchBack(p, ss, queues)
  BY DEF ss
<1>5. /\ state' = ss
      /\ priority' \in [Procs -> Queues] /\ ticksUsed' \in [Procs -> Nat]
      /\ QueuesOK(queues') /\ TopHeld' /\ SliceKept' /\ SchedState'
      /\ sched' = "top" /\ cur' = None
  BY <1>0, <1>1, <1>2, <1>3, <1>4, SwitchFact
<1> QED  BY <1>5 DEF ss

LEMMA TickReturnStep == ASSUME IInv, TickReturn PROVE IInv'
<1>0. TypeOK /\ SchedState /\ Family /\ ZombieHeard
  BY DEF IInv
<1>1. UNCHANGED <<procVars, ticks, boostVars>> /\ handler' = FALSE
  BY DEF TickReturn
<1>2. CASE sched = "running" /\ SwitchBack(cur, [state EXCEPT ![cur] = "RUNNABLE"], queues)
  <2>1. cur \in Procs /\ state[cur] = "RUNNING" /\ "RUNNABLE" \in States \ {"RUNNING"}
    BY <1>0, <1>2 DEF SchedState, States
  <2>2. /\ state' = [state EXCEPT ![cur] = "RUNNABLE"]
        /\ priority' \in [Procs -> Queues] /\ ticksUsed' \in [Procs -> Nat]
        /\ QueuesOK(queues') /\ TopHeld' /\ SliceKept' /\ SchedState'
        /\ sched' = "top" /\ cur' = None
    BY <1>2, <2>1, TurnStep
  <2>3. state' \in [Procs -> States] /\ state'[cur] = "RUNNABLE"
        /\ \A r \in Procs : r # cur => state'[r] = state[r]
    BY <1>0, <2>1, <2>2 DEF TypeOK
  <2>4. TypeOK'
    BY <1>0, <1>1, <2>2, <2>3 DEF TypeOK, QueuesOK, QueueType, procVars, boostVars
  <2>5. Family'
    <3>1. \A r \in Procs : forking[r] \in Procs \cup {None}  BY <1>0 DEF TypeOK
    <3> QED  BY <1>0, <1>1, <2>1, <2>3, <3>1, Constants DEF Family, procVars
  <2>6. ZombieHeard'
    BY <1>0, <1>1, <2>1, <2>3 DEF ZombieHeard, SleepsOn, Zombies, Children, procVars
  <2> QED  BY <2>2, <2>4, <2>5, <2>6 DEF IInv
<1>3. CASE UNCHANGED <<state, levels, queues, sched, cur>>
  <2>1. TypeOK' /\ SchedState'
    BY <1>0, <1>1, <1>3 DEF TypeOK, SchedState, levels, procVars, boostVars
  <2> QED  BY <1>1, <1>3, <2>1, SchedOnly
<1> QED  BY <1>2, <1>3 DEF TickReturn


-----------------------------------------------------------------------------
(* The running process.                                                    *)

\* What every step of a running process may use.
LEMMA RunsFact ==
  ASSUME IInv, NEW p \in Procs, At("running"), cur = p
  PROVE  /\ sched = "running" /\ state[p] = "RUNNING"
         /\ \A r \in Procs : state[r] = "RUNNING" => r = p
         /\ p # InitProc => parent[p] \in Procs
BY DEF IInv, SchedState, Family, At

LEMMA UnusedFact ==
  ASSUME IInv, Unused # {}
  PROVE  FirstOf(Unused) \in Procs /\ state[FirstOf(Unused)] = "UNUSED"
<1>1. FirstOf(Unused) \in Unused
  BY FirstFact DEF Unused
<1> QED  BY <1>1 DEF Unused

LEMMA ForkAllocStep == ASSUME IInv, NEW p \in Procs, ForkAlloc(p) PROVE IInv'
<1>0. TypeOK /\ QueuesOK(queues) /\ TopHeld /\ SliceKept /\ SchedState /\ Family /\ ZombieHeard
  BY DEF IInv
<1> DEFINE np == FirstOf(Unused)
<1>1. /\ np \in Procs /\ state[np] = "UNUSED" /\ forking[p] = None
      /\ sched = "running" /\ state[p] = "RUNNING" /\ np # p
  BY UnusedFact, RunsFact DEF ForkAlloc, Runs
<1>2. /\ state' = [state EXCEPT ![np] = "USED"]
      /\ priority' = [priority EXCEPT ![np] = 0]
      /\ ticksUsed' = [ticksUsed EXCEPT ![np] = 0]
      /\ forking' = [forking EXCEPT ![p] = np]
      /\ UNCHANGED <<parent, chan, killed, queues, timeVars, sched, cur, boostVars>>
  BY DEF ForkAlloc
<1> HIDE DEF np
<1>3. /\ state' \in [Procs -> States] /\ state'[np] = "USED"
      /\ \A r \in Procs : r # np => state'[r] = state[r] /\ priority'[r] = priority[r]
      /\ priority' \in [Procs -> Queues] /\ ticksUsed' \in [Procs -> Nat]
  BY <1>0, <1>1, <1>2, Constants DEF TypeOK, States
<1>4. /\ forking' \in [Procs -> Procs \cup {None}] /\ forking'[p] = np
      /\ \A r \in Procs : r # p => forking'[r] = forking[r]
  BY <1>0, <1>1, <1>2 DEF TypeOK
<1>5. TypeOK'
  BY <1>0, <1>2, <1>3, <1>4 DEF TypeOK, timeVars, boostVars
<1>6. QueuesOK(queues') /\ TopHeld'
  BY <1>0, <1>2, <1>3 DEF TopHeld, Has
<1>7. SliceKept'
  BY <1>0, <1>1, <1>2, ResetFact
<1>8. SchedState'
  BY <1>0, <1>1, <1>2, <1>3 DEF SchedState
<1>9. Family'
  <2>1. \A r \in Procs : forking[r] \in Procs \cup {None}  BY <1>0 DEF TypeOK
  <2>2. np # InitProc /\ \A r \in Procs : forking[r] # None => forking[r] # np
    BY <1>0, <1>1 DEF Family
  <2> QED  BY <1>0, <1>1, <1>2, <1>3, <1>4, <2>1, <2>2, Constants DEF Family
<1>10. ZombieHeard'
  BY <1>0, <1>1, <1>2, <1>3 DEF ZombieHeard, SleepsOn, Zombies, Children
<1> QED  BY <1>5, <1>6, <1>7, <1>8, <1>9, <1>10 DEF IInv

LEMMA ForkFailStep == ASSUME IInv, NEW p \in Procs, ForkFail(p) PROVE IInv'
<1>0. TypeOK /\ QueuesOK(queues) /\ TopHeld /\ SliceKept /\ SchedState /\ Family /\ ZombieHeard
  BY DEF IInv
<1> DEFINE np == FirstOf(Unused)
<1>1. np \in Procs /\ state[np] = "UNUSED" /\ sched = "running"
  BY UnusedFact, RunsFact DEF ForkFail, Runs
<1>2. /\ killed' = [killed EXCEPT ![np] = FALSE]
      /\ UNCHANGED <<state, parent, chan, forking, queues, timeVars, sched, cur, boostVars>>
      /\ \/ /\ priority' = [priority EXCEPT ![np] = 0]
            /\ ticksUsed' = [ticksUsed EXCEPT ![np] = 0]
         \/ priority' = priority /\ ticksUsed' = ticksUsed
  BY DEF ForkFail, levels
<1> HIDE DEF np
<1>3. /\ priority' \in [Procs -> Queues] /\ ticksUsed' \in [Procs -> Nat]
      /\ killed' \in [Procs -> BOOLEAN]
      /\ \A r \in Procs : r # np => priority'[r] = priority[r]
  BY <1>0, <1>1, <1>2, Constants DEF TypeOK
<1>4. TypeOK'
  BY <1>0, <1>2, <1>3 DEF TypeOK, timeVars, boostVars
<1>5. QueuesOK(queues') /\ TopHeld'
  BY <1>0, <1>1, <1>2, <1>3 DEF TopHeld, Has
<1>6. SliceKept'
  <2>1. CASE ticksUsed' = [ticksUsed EXCEPT ![np] = 0] /\ priority' = [priority EXCEPT ![np] = 0]
    BY <1>0, <1>1, <2>1, ResetFact
  <2>2. CASE priority' = priority /\ ticksUsed' = ticksUsed
    BY <1>0, <2>2 DEF SliceKept
  <2> QED  BY <1>2, <2>1, <2>2
<1>7. SchedState'
  BY <1>0, <1>1, <1>2 DEF SchedState
<1>8. Family' /\ ZombieHeard'
  BY <1>0, <1>2 DEF Family, ZombieHeard, SleepsOn, Zombies, Children
<1> QED  BY <1>4, <1>5, <1>6, <1>7, <1>8 DEF IInv

LEMMA ForkReadyStep == ASSUME IInv, NEW p \in Procs, ForkReady(p) PROVE IInv'
<1>0. TypeOK /\ Family /\ ZombieHeard
  BY DEF IInv
<1> DEFINE np == forking[p]
<1>1. /\ np \in Procs /\ state[np] = "USED" /\ state[p] = "RUNNING" /\ np # p
  BY <1>0, RunsFact DEF ForkReady, TypeOK, Family
<1>2. /\ parent' = [parent EXCEPT ![np] = p] /\ forking' = [forking EXCEPT ![p] = None]
      /\ Wake(np)
      /\ UNCHANGED <<levels, chan, killed, timeVars, sched, cur, boostVars>>
  BY DEF ForkReady
<1>3. \A r \in Procs : r # p /\ forking[r] # None => forking[r] # np
  BY <1>0, <1>1 DEF Family
<1>4. \A r \in Procs : forking[r] \in Procs \cup {None}
  BY <1>0 DEF TypeOK
<1> HIDE DEF np
<1>5. /\ state' \in [Procs -> States] /\ state'[np] = "RUNNABLE"
      /\ \A r \in Procs : r # np => state'[r] = state[r]
      /\ QueuesOK(queues') /\ TopHeld' /\ SliceKept' /\ SchedState'
  BY <1>1, <1>2, WakeFact
<1>6. /\ parent' \in [Procs -> Procs \cup {None}] /\ parent'[np] = p
      /\ \A r \in Procs : r # np => parent'[r] = parent[r]
      /\ forking' \in [Procs -> Procs \cup {None}] /\ forking'[p] = None
      /\ \A r \in Procs : r # p => forking'[r] = forking[r]
  BY <1>0, <1>1, <1>2 DEF TypeOK
<1>7. TypeOK'
  BY <1>0, <1>2, <1>5, <1>6 DEF TypeOK, QueuesOK, QueueType, levels, timeVars, boostVars
<1>8. Family'
  BY <1>0, <1>1, <1>5, <1>6, <1>3, <1>4, Constants DEF Family
<1>9. ZombieHeard'
  BY <1>0, <1>1, <1>2, <1>5, <1>6 DEF ZombieHeard, SleepsOn, Zombies, Children
<1> QED  BY <1>5, <1>7, <1>8, <1>9 DEF IInv

\* p goes to sleep on channel c. If c is "child", p has no zombie child.
LEMMA GoesToSleep ==
  ASSUME IInv, NEW p \in Procs, NEW c \in Chans, Runs(p, c),
         c = "child" => Zombies(p) = {},
         chan' = [chan EXCEPT ![p] = c],
         SwitchBack(p, [state EXCEPT ![p] = "SLEEPING"], queues),
         UNCHANGED <<parent, killed, forking, timeVars, boostVars>>
  PROVE  IInv'
<1>0. TypeOK /\ Family /\ ZombieHeard
  BY DEF IInv
<1>1. forking[p] = None /\ sched = "running" /\ cur = p /\ state[p] = "RUNNING"
  BY RunsFact DEF Runs
<1>2. "SLEEPING" \in States \ {"RUNNING"}
  BY DEF States
<1>3. /\ state' = [state EXCEPT ![p] = "SLEEPING"]
      /\ priority' \in [Procs -> Queues] /\ ticksUsed' \in [Procs -> Nat]
      /\ QueuesOK(queues') /\ TopHeld' /\ SliceKept' /\ SchedState'
      /\ sched' = "top" /\ cur' = None
  BY <1>1, <1>2, TurnStep
<1>4. /\ state' \in [Procs -> States] /\ state'[p] = "SLEEPING"
      /\ \A r \in Procs : r # p => state'[r] = state[r] /\ chan'[r] = chan[r]
      /\ chan' \in [Procs -> Chans \cup {None}] /\ chan'[p] = c
  BY <1>0, <1>2, <1>3 DEF TypeOK
<1>5. TypeOK'
  BY <1>0, <1>3, <1>4 DEF TypeOK, QueuesOK, QueueType, timeVars, boostVars
<1>6. Family'
  <2>1. \A r \in Procs : forking[r] \in Procs \cup {None}  BY <1>0 DEF TypeOK
  <2> QED  BY <1>0, <1>1, <1>4, <2>1, Constants DEF Family
<1>7. ZombieHeard'
  BY <1>0, <1>4 DEF ZombieHeard, SleepsOn, Zombies, Children
<1> QED  BY <1>3, <1>5, <1>6, <1>7 DEF IInv

LEMMA SleepStep == ASSUME IInv, NEW p \in Procs, NEW c \in Chans, Sleep(p, c) PROVE IInv'
<1>1. c # "child"
  BY DEF Sleep
<1> QED  BY <1>1, GoesToSleep DEF Sleep

LEMMA WaitSleepStep == ASSUME IInv, NEW p \in Procs, WaitSleep(p) PROVE IInv'
<1>1. "child" \in Chans
  BY DEF Chans
<1> QED  BY <1>1, GoesToSleep DEF WaitSleep

\* A step of the running process p that changes only its channel, to None.
LEMMA LoopEndStep == ASSUME IInv, NEW p \in Procs, Resume(p) \/ WaitFail(p) PROVE IInv'
<1>0. TypeOK /\ Family /\ ZombieHeard /\ SchedState
  BY DEF IInv
<1>1. /\ chan' = [chan EXCEPT ![p] = None]
      /\ UNCHANGED <<state, levels, parent, killed, forking, queues, timeVars, sched, cur, boostVars>>
  BY DEF Resume, WaitFail
<1>2. /\ chan' \in [Procs -> Chans \cup {None}] /\ chan'[p] = None
      /\ \A r \in Procs : r # p => chan'[r] = chan[r]
  BY <1>0, <1>1 DEF TypeOK
<1>3. TypeOK'
  BY <1>0, <1>1, <1>2 DEF TypeOK, levels, timeVars, boostVars
<1>4. Family' /\ SchedState'
  BY <1>0, <1>1 DEF Family, SchedState, levels, boostVars
<1>5. ZombieHeard'
  <2>1. state[p] = "RUNNING"
    BY RunsFact DEF Resume, WaitFail, Runs
  <2> QED  BY <1>0, <1>1, <1>2, <2>1 DEF ZombieHeard, SleepsOn, Zombies, Children
<1>6. QueuesOK(queues') /\ TopHeld' /\ SliceKept'
  BY <1>1 DEF IInv, TopHeld, SliceKept, Has, levels
<1> QED  BY <1>3, <1>4, <1>5, <1>6 DEF IInv

LEMMA WaitReapStep == ASSUME IInv, NEW p \in Procs, WaitReap(p) PROVE IInv'
<1>0. TypeOK /\ QueuesOK(queues) /\ TopHeld /\ SliceKept /\ SchedState /\ Family /\ ZombieHeard
  BY DEF IInv
<1> DEFINE c == FirstOf(Zombies(p))
<1>1. c \in Procs /\ state[c] = "ZOMBIE"
  <2>1. c \in Zombies(p)
    BY FirstFact DEF WaitReap, Zombies, Children
  <2> QED  BY <2>1 DEF Zombies, Children
<1>2. sched = "running" /\ state[p] = "RUNNING" /\ c # p
  BY <1>1, RunsFact DEF WaitReap, Runs
<1>3. /\ state' = [state EXCEPT ![c] = "UNUSED"]
      /\ parent' = [parent EXCEPT ![c] = None]
      /\ chan' = [chan EXCEPT ![c] = None, ![p] = None]
      /\ killed' = [killed EXCEPT ![c] = FALSE]
      /\ UNCHANGED <<levels, forking, queues, timeVars, sched, cur, boostVars>>
  BY DEF WaitReap
<1> HIDE DEF c
<1>4. /\ state' \in [Procs -> States] /\ state'[c] = "UNUSED"
      /\ \A r \in Procs : r # c => state'[r] = state[r] /\ parent'[r] = parent[r]
      /\ \A r \in Procs : r # c /\ r # p => chan'[r] = chan[r]
      /\ parent' \in [Procs -> Procs \cup {None}] /\ parent'[c] = None
      /\ chan' \in [Procs -> Chans \cup {None}] /\ killed' \in [Procs -> BOOLEAN]
  BY <1>0, <1>1, <1>3 DEF TypeOK, States
<1>5. TypeOK'
  BY <1>0, <1>3, <1>4 DEF TypeOK, levels, timeVars, boostVars
<1>6. QueuesOK(queues') /\ TopHeld' /\ SliceKept'
  BY <1>0, <1>3, <1>4 DEF TopHeld, SliceKept, Has, levels
<1>7. SchedState'
  BY <1>0, <1>1, <1>2, <1>3, <1>4 DEF SchedState
<1>8. Family'
  <2>1. \A r \in Procs : forking[r] \in Procs \cup {None}  BY <1>0 DEF TypeOK
  <2>2. c # InitProc  BY <1>0, <1>1 DEF Family
  <2> QED  BY <1>0, <1>1, <1>3, <1>4, <2>1, <2>2, Constants DEF Family
<1>9. ZombieHeard'
  BY <1>0, <1>1, <1>2, <1>4 DEF ZombieHeard, SleepsOn, Zombies, Children
<1> QED  BY <1>5, <1>6, <1>7, <1>8, <1>9 DEF IInv

LEMMA KillStep == ASSUME IInv, NEW p \in Procs, NEW victim \in Procs, Kill(p, victim) PROVE IInv'
<1>0. TypeOK /\ SchedState
  BY DEF IInv
<1>1. killed' \in [Procs -> BOOLEAN]
  BY <1>0 DEF TypeOK, Kill
<1>2. UNCHANGED <<levels, parent, chan, forking, timeVars, sched, cur, boostVars>>
  BY DEF Kill
<1>3. CASE state[victim] = "SLEEPING" /\ Wake(victim)
  BY <1>0, <1>1, <1>2, <1>3, WokenStep DEF TypeOK, timeVars
<1>4. CASE UNCHANGED <<state, queues>>
  <2>1. TypeOK'
    BY <1>0, <1>1, <1>2, <1>4 DEF TypeOK, levels, timeVars, boostVars
  <2>2. QueuesOK(queues') /\ TopHeld' /\ SliceKept' /\ SchedState'
    BY <1>2, <1>4 DEF IInv, TopHeld, SliceKept, SchedState, Has, levels, boostVars
  <2>3. Family' /\ ZombieHeard'
    BY <1>2, <1>4 DEF IInv, Family, ZombieHeard, SleepsOn, Zombies, Children
  <2> QED  BY <2>1, <2>2, <2>3 DEF IInv
<1> QED  BY <1>3, <1>4 DEF Kill

\* exit() makes its own process a zombie in the step that wakes the parent and, if it
\* leaves children, init.
LEMMA ExitStep == ASSUME IInv, NEW p \in Procs, Exit(p) PROVE IInv'
<1>0. TypeOK /\ QueuesOK(queues) /\ TopHeld /\ SliceKept /\ SchedState /\ Family /\ ZombieHeard
  BY DEF IInv
<1> DEFINE adopt  == ReparentWakes(p)
           tell   == ParentWaits(p) /\ ~(adopt /\ parent[p] = InitProc)
           woken  == {r \in Procs : (r = InitProc /\ adopt) \/ (r = parent[p] /\ tell)}
           first  == IF adopt THEN Ready(queues, InitProc) ELSE queues
           second == IF tell THEN Ready(first, parent[p]) ELSE first
           ss     == [r \in Procs |-> IF r = p THEN "ZOMBIE"
                                      ELSE IF r \in woken THEN "RUNNABLE" ELSE state[r]]
<1>1. /\ SwitchBack(p, ss, second) /\ p # InitProc /\ forking[p] = None
      /\ parent' = [c \in Procs |-> IF parent[c] = p THEN InitProc ELSE parent[c]]
      /\ UNCHANGED <<chan, killed, forking, timeVars, boostVars>>
  BY DEF Exit, Runs
<1>2. /\ state[p] = "RUNNING" /\ parent[p] \in Procs
      /\ \A r \in Procs : state[r] = "RUNNING" => r = p
  BY <1>1, RunsFact DEF Exit, Runs
<1>3. InitProc \in Procs /\ \A r \in woken : r \in Procs /\ state[r] = "SLEEPING" /\ r # p
  BY <1>2, Constants DEF ReparentWakes, ParentWaits, SleepsOn
<1>4. /\ QueuesOK(first)
      /\ \A r \in Procs : Has(queues[0], r) => Has(first[0], r)
      /\ adopt /\ priority[InitProc] = 0 => Has(first[0], InitProc)
  BY <1>0, <1>3, ReadyFact
<1>5. \A r \in Procs : r \in woken <=> (r = InitProc /\ adopt) \/ (r = parent[p] /\ tell)
  OBVIOUS
<1> HIDE DEF first
<1>6. /\ QueuesOK(second)
      /\ \A r \in Procs : Has(first[0], r) => Has(second[0], r)
      /\ tell /\ priority[parent[p]] = 0 => Has(second[0], parent[p])
  BY <1>0, <1>2, <1>4, ReadyFact
<1> HIDE DEF second
<1>7. /\ ss \in [Procs -> States] /\ ss[p] = "ZOMBIE"
      /\ \A r \in woken : ss[r] = "RUNNABLE"
      /\ \A r \in Procs : r # p /\ r \notin woken => ss[r] = state[r]
  BY <1>0, <1>3 DEF TypeOK, States
<1> HIDE DEF ss, woken
<1>8. \A r \in Procs : ss[r] # "RUNNING"
  BY <1>2, <1>7
<1>9. \A r \in Procs : (ss[r] = "RUNNABLE" \/ r = p) /\ priority[r] = 0 => Has(second[0], r)
  <2> SUFFICES ASSUME NEW r \in Procs, ss[r] = "RUNNABLE" \/ r = p, priority[r] = 0
               PROVE  Has(second[0], r)
    OBVIOUS
  <2>1. CASE r \in woken
    BY <1>4, <1>6, <1>5, <2>1
  <2>2. CASE r \notin woken
    <3>1. state[r] \in {"RUNNABLE", "RUNNING"}
      BY <1>2, <1>7, <2>2
    <3> QED  BY <1>0, <1>4, <1>6, <3>1 DEF TopHeld
  <2> QED  BY <2>1, <2>2
<1>10. /\ priority' \in [Procs -> Queues] /\ ticksUsed' \in [Procs -> Nat]
      /\ QueuesOK(queues') /\ TopHeld' /\ SliceKept' /\ SchedState'
      /\ state' = ss /\ sched' = "top" /\ cur' = None
  BY <1>0, <1>1, <1>6, <1>7, <1>8, <1>9, SwitchFact
<1>11. \A c \in Procs : /\ parent[c] = p => parent'[c] = InitProc /\ (SleepsOn(InitProc, "child") => adopt)
                        /\ parent[c] # p => parent'[c] = parent[c]
  BY <1>1 DEF ReparentWakes, Children
<1>12. TypeOK'
  <2>1. parent' \in [Procs -> Procs \cup {None}]
    BY <1>0, <1>1, <1>3 DEF TypeOK
  <2> QED  BY <1>0, <1>1, <1>7, <1>10, <2>1 DEF TypeOK, QueuesOK, QueueType, timeVars, boostVars
<1>13. Family'
  <2>1. state'[InitProc] \notin {"UNUSED", "USED", "ZOMBIE"}
    BY <1>0, <1>1, <1>3, <1>7, <1>10 DEF Family
  <2>2. \A q \in Procs : forking[q] # None =>
           state'[forking[q]] = "USED" /\ state'[q] \in {"RUNNABLE", "RUNNING"}
    <3> SUFFICES ASSUME NEW q \in Procs, forking[q] # None
                 PROVE  state'[forking[q]] = "USED" /\ state'[q] \in {"RUNNABLE", "RUNNING"}
      OBVIOUS
    <3>1. forking[q] \in Procs /\ state[forking[q]] = "USED" /\ state[q] \in {"RUNNABLE", "RUNNING"}
      BY <1>0 DEF TypeOK, Family
    <3>2. forking[q] \notin woken /\ q \notin woken /\ q # p /\ forking[q] # p
      BY <1>1, <1>2, <1>3, <3>1
    <3> QED  BY <1>7, <1>10, <3>1, <3>2
  <2>3. \A q \in Procs : q # InitProc /\ state'[q] \notin {"UNUSED", "USED"} => parent'[q] \in Procs
    <3> SUFFICES ASSUME NEW q \in Procs, q # InitProc, state'[q] \notin {"UNUSED", "USED"}
                 PROVE  parent'[q] \in Procs
      OBVIOUS
    <3>1. state[q] \notin {"UNUSED", "USED"}
      BY <1>2, <1>3, <1>7, <1>10
    <3> QED  BY <1>0, <1>3, <1>11, <3>1 DEF Family
  <2> QED  BY <1>0, <1>1, <2>1, <2>2, <2>3 DEF Family
<1>14. ZombieHeard'
  <2> SUFFICES ASSUME NEW r \in Procs, state'[r] = "SLEEPING", chan[r] = "child",
                      NEW c \in Procs, parent'[c] = r, state'[c] = "ZOMBIE"
               PROVE  FALSE
    BY <1>1 DEF ZombieHeard, SleepsOn, Zombies, Children
  <2>1. r # p /\ r \notin woken /\ state[r] = "SLEEPING" /\ SleepsOn(r, "child")
    BY <1>7, <1>10 DEF SleepsOn
  <2>2. parent[c] # p
    BY <1>5, <1>11, <2>1
  <2>3. parent[c] = r
    BY <1>11, <2>2
  <2>4. CASE c = p
    <3>1. ParentWaits(p)
      BY <2>1, <2>3, <2>4 DEF ParentWaits
    <3> QED  BY <1>5, <2>1, <2>3, <2>4, <3>1
  <2>5. CASE c # p
    <3>1. state[c] = "ZOMBIE"
      BY <1>7, <1>10, <2>5
    <3> QED  BY <1>0, <2>1, <2>3, <3>1 DEF ZombieHeard, Zombies, Children
  <2> QED  BY <2>4, <2>5
<1> QED  BY <1>10, <1>12, <1>13, <1>14 DEF IInv

-----------------------------------------------------------------------------
(* The theorems.                                                           *)

LEMMA InitIInv == ASSUME Init PROVE IInv
<1>1. /\ InitProc \in Procs /\ 0 \in Queues /\ 1 \in Procs /\ InitProc = 1
      /\ 0 \in 0..NPROC /\ 1 \in 0..NPROC /\ 0 \in 0..(BoostPeriod - 1)
      /\ NPROC \in Nat
  BY MlfqAssumption DEF InitProc, Procs, Queues
<1>2. queues \in [Queues -> QueueType]
  BY <1>1 DEF Init, QueueType
<1>3. TypeOK
  BY <1>1, <1>2 DEF Init, TypeOK, QueueType, States
<1>4. /\ queues[0].slot = [i \in Procs |-> IF i = 1 THEN InitProc ELSE None] /\ queues[0].size = 1
      /\ \A q \in Queues : q # 0 => queues[q].size = 0
  BY <1>1 DEF Init
<1>5. QueuesOK(queues)
  <2>1. Sound(queues[0]) /\ Clear(queues[0])
    BY <1>1, <1>4 DEF Sound, Clear
  <2>2. \A q \in Queues : q # 0 => Sound(queues[q])
    BY <1>4 DEF Sound
  <2> QED  BY <1>2, <2>1, <2>2 DEF QueuesOK
<1>6. TopHeld
  <2>1. Has(queues[0], InitProc)
    BY <1>1, <1>4 DEF Has
  <2> QED  BY <2>1 DEF TopHeld, Init
<1>7. SliceKept
  BY <1>1, Constants DEF SliceKept, Init
<1>8. SchedState /\ Family /\ ZombieHeard
  BY <1>1 DEF Init, SchedState, Family, ZombieHeard, SleepsOn
<1> QED  BY <1>3, <1>5, <1>6, <1>7, <1>8 DEF IInv

LEMMA StepIInv == ASSUME IInv, [Next]_vars PROVE IInv'
<1>1. CASE Scheduler
  BY <1>1, LookStep, BoostShiftStep, BoostPushStep, DispatchStep, DiscardStep DEF Scheduler
<1>2. CASE Tick \/ TickWake \/ TickReturn
  BY <1>2, LookStep, TickWakeStep, TickReturnStep
<1>3. ASSUME NEW p \in Procs, IoWake(p) \/ Process(p) PROVE IInv'
  BY <1>3, IoWakeStep, ForkAllocStep, ForkFailStep, ForkReadyStep, SleepStep, LoopEndStep,
     ExitStep, WaitReapStep, WaitSleepStep, KillStep DEF Process
<1>4. CASE UNCHANGED vars
  <2>1. TypeOK' /\ SchedState'
    BY <1>4 DEF IInv, TypeOK, SchedState, vars, levels, procVars, timeVars, boostVars
  <2> QED  BY <1>4, <2>1, SchedOnly DEF vars
<1> QED  BY <1>1, <1>2, <1>3, <1>4 DEF Next

\* The invariant holds in every reachable state.
THEOREM Inductive == Spec => []IInv
<1>1. Init => IInv
  BY InitIInv
<1>2. IInv /\ [Next]_vars => IInv'
  BY StepIInv
<1> QED  BY <1>1, <1>2, PTL DEF Spec

\* Every variable keeps its type; in particular the size of a queue stays within its NPROC slots.
THEOREM TypeCorrect == Spec => []TypeOK
<1>1. IInv => TypeOK
  BY DEF IInv
<1> QED  BY <1>1, Inductive, PTL

\* The head of a queue in use is a process and nobody is in a queue twice, although
\* enqueue() and dequeue() run without a lock and interrupts cut into dequeue().
THEOREM QueuesStaySound == Spec => []QueuesSound
<1>1. IInv => QueuesSound
  BY DEF IInv, QueuesOK, Sound, QueuesSound
<1> QED  BY <1>1, Inductive, PTL

\* enqueue() never panics: a queue that is full holds the process already.
THEOREM NeverOverflows == Spec => []NoOverflow
<1>1. IInv => NoOverflow
  <2> SUFFICES ASSUME IInv, NEW q \in Queues, NEW p \in Procs
               PROVE  queues[q].size < NPROC \/ Present(queues[q], p)
    BY DEF NoOverflow
  <2>1. queues[q] \in QueueType /\ Sound(queues[q])
    BY DEF IInv, QueuesOK
  <2>2. queues[q].size < NPROC \/ queues[q].size = NPROC
    BY <2>1, MlfqAssumption DEF QueueType
  <2> QED  BY <2>1, <2>2, FullHasAll
<1> QED  BY <1>1, Inductive, PTL

\* A runnable process that enqueue() or dequeue() lost is never one of queue 0.
THEOREM LostOnlyBelowTop == Spec => []LostBelowTop
<1>1. IInv => LostBelowTop
  BY DEF IInv, TopHeld, LostBelowTop, Queued, Has
<1> QED  BY <1>1, Inductive, PTL

\* Nobody keeps the hart beyond the slice of the queue it is in.
THEOREM SliceAlwaysKept == Spec => []SliceKept
<1>1. IInv => SliceKept
  BY DEF IInv
<1> QED  BY <1>1, Inductive, PTL

\* No wakeup of wait() is lost: exit(), reparent() and wait() agree under wait_lock.
THEOREM ZombieAlwaysHeard == Spec => []ZombieHeard
<1>1. IInv => ZombieHeard
  BY DEF IInv
<1> QED  BY <1>1, Inductive, PTL
=============================================================================
