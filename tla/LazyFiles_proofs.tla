-------------------------- MODULE LazyFiles_proofs --------------------------
(* Proofs about LazyFiles, for any number of requests at any times, and any *)
(* durations, capacity and patience.                                        *)
EXTENDS LazyFiles, FiniteSetTheorems, TLAPS

Early == {"unborn", "check", "enqueue"}
Polling == {"sleep", "lock"}
Holding == {"pruneRead", "pruneWrite", "prune", "test", "dequeue"}
Labels == Early \cup Polling \cup Holding \cup {"access", "deleting"} \cup Final

TypeOK ==
  /\ req \in [Requests -> [op : Ops, time : 0..LastRequestTime]]
  /\ now \in Nat
  /\ pc \in [Requests -> Labels]
  /\ queue \in [Ops -> Seq(Requests)]
  /\ isDeleted \in BOOLEAN /\ readers \in Int /\ writers \in Int

\* A thread between Acquire() and the release of file_lock holds it, and the file
\* was not deleted meanwhile.
LockOK == \A t \in Requests : pc[t] \in Holding => lock = t /\ ~isDeleted

\* Which operation goes where, and why a request has ended.
AnswerOK == \A t \in Requests :
  /\ pc[t] \in {"dequeue", "access"} => Op(t) # "DELETE"
  /\ pc[t] = "deleting" => Op(t) = "DELETE"
  /\ pc[t] = "declined" => isDeleted
  /\ pc[t] = "cancelled" => TimedOut(t, now)

CountOK ==
  /\ readers = Cardinality(Users("READ"))
  /\ writers = Cardinality(Users("WRITE"))

Deleters == {t \in Requests : Op(t) = "DELETE" /\ pc[t] \in {"deleting", "served"}}
DeleteOK ==
  /\ ~isDeleted => Deleters = {}
  /\ \A t, u \in Deleters : t = u
  /\ isDeleted => Users("READ") = {} /\ Users("WRITE") = {}

\* A request stands in the queue of its operation, once, from Enqueue() to
\* Dequeue() at most.
Entry(t, o) ==
  /\ Op(t) = o /\ pc[t] \notin Early
  /\ o # "DELETE" => pc[t] \notin {"access", "served"}
Once(q) == \A i, j \in 1..Len(q) : q[i] = q[j] => i = j
Waits(t, o) == \E i \in 1..Len(queue[o]) : queue[o][i] = t
QueueOK == \A o \in Ops : Once(queue[o]) /\ \A t \in Requests : Waits(t, o) => Entry(t, o)

IInv == TypeOK /\ LockOK /\ AnswerOK /\ CountOK /\ DeleteOK /\ QueueOK /\ DequeuesItself

-----------------------------------------------------------------------------
(* Queues.                                                                 *)

LEMMA LeastNat ==
  ASSUME NEW S, S \subseteq Nat, S # {}
  PROVE  \E x \in S : \A y \in S : x <= y
<1> DEFINE R == OpToRel(<, Nat)
<1>1. \A x, y \in Nat : <<y, x>> \in R <=> y < x
  BY DEF OpToRel
<1>2. IsWellFoundedOn(R, Nat)
  BY NatLessThanWellFounded
<1> HIDE DEF R
<1>3. PICK x \in S : \A y \in S : ~(<<y, x>> \in R)
  BY <1>2, WFMin
<1>4. ASSUME NEW y \in S PROVE x <= y
  <2>1. x \in Nat /\ y \in Nat  OBVIOUS
  <2>2. ~(y < x)  BY <1>1, <1>3, <2>1
  <2> QED  BY <2>1, <2>2
<1> QED  BY <1>4

\* remove_invalid_requests() leaves the end of a queue.
LEMMA PruneFact ==
  ASSUME NEW q \in Seq(Requests)
  PROVE  /\ WithoutExpired(q) \in Seq(Requests)
         /\ \E k \in 0..Len(q) : /\ Len(WithoutExpired(q)) = Len(q) - k
                                 /\ \A i \in 1..(Len(q) - k) : WithoutExpired(q)[i] = q[i + k]
<1> DEFINE valid == {i \in 1..Len(q) : ~TimedOut(q[i], now)}
<1>1. FirstValid(q) \in 1..(Len(q) + 1)
  <2>1. CASE valid = {}
    BY <2>1 DEF FirstValid
  <2>2. CASE valid # {}
    <3>1. valid \subseteq Nat  OBVIOUS
    <3>2. \E i \in valid : \A j \in valid : i <= j
      BY <2>2, <3>1, LeastNat
    <3>3. (CHOOSE i \in valid : \A j \in valid : i <= j) \in valid
      BY <3>2
    <3> HIDE DEF valid
    <3>4. FirstValid(q) = CHOOSE i \in valid : \A j \in valid : i <= j
      BY <2>2 DEF FirstValid, valid
    <3> QED  BY <3>3, <3>4 DEF valid
  <2> QED  BY <2>1, <2>2
<1> DEFINE f == FirstValid(q)
<1>2. WithoutExpired(q) = SubSeq(q, f, Len(q))
  BY DEF WithoutExpired
<1> HIDE DEF f
<1>3. f \in 1..(Len(q) + 1)  BY <1>1 DEF f
<1>4. SubSeq(q, f, Len(q)) \in Seq(Requests)
  BY <1>3
<1>5. Len(SubSeq(q, f, Len(q))) = Len(q) - (f - 1)
  BY <1>3
<1>6. \A i \in 1..(Len(q) - (f - 1)) : SubSeq(q, f, Len(q))[i] = q[i + (f - 1)]
  BY <1>3
<1>7. f - 1 \in 0..Len(q)
  BY <1>3
<1> QED  BY <1>2, <1>4, <1>5, <1>6, <1>7

-----------------------------------------------------------------------------
(* The steps.                                                              *)

\* The invariant holds when main() has read the requests and started no thread yet.
THEOREM InitIInv == Init => IInv
<1> SUFFICES ASSUME Init PROVE IInv  OBVIOUS
<1>1. Users("READ") = {} /\ Users("WRITE") = {} /\ Deleters = {}
  BY DEF Init, Users, Deleters
<1>2. Cardinality({}) = 0
  BY FS_EmptySet
<1>3. TypeOK
  <2>1. [o \in Ops |-> <<>>] \in [Ops -> Seq(Requests)]  OBVIOUS
  <2>2. "unborn" \in Labels  BY DEF Labels, Early
  <2>3. queue \in [Ops -> Seq(Requests)]  BY <2>1 DEF Init
  <2>4. pc \in [Requests -> Labels]  BY <2>2 DEF Init
  <2>5. req \in [Requests -> [op : Ops, time : 0..LastRequestTime]]  BY DEF Init
  <2>6. now \in Nat /\ readers \in Int /\ writers \in Int  BY DEF Init
  <2>7. isDeleted \in BOOLEAN  BY Zenon DEF Init
  <2> QED  BY <2>3, <2>4, <2>5, <2>6, <2>7 DEF TypeOK
<1>4. LockOK /\ AnswerOK /\ DequeuesItself
  BY DEF Init, LockOK, AnswerOK, DequeuesItself, Holding
<1>5. QueueOK
  BY DEF Init, QueueOK, Once, Waits
<1> QED  BY <1>1, <1>2, <1>3, <1>4, <1>5 DEF IInv, CountOK, DeleteOK, Init

\* A thread that goes from one label to another, neither of which is about
\* accesses, and changes nothing but file_lock.
LEMMA QuietStep ==
  ASSUME IInv, NEW t \in Requests, NEW l \in Labels,
         Goto(t, l), UNCHANGED <<req, now, queue, file>>,
         pc[t] \notin {"dequeue", "access", "deleting", "served"},
         l \notin {"dequeue", "access", "deleting", "served"},
         l \in Early => pc[t] \in Early,
         l \in Holding => lock' = t /\ ~isDeleted,
         lock' = lock \/ lock \in {t, Nobody},
         l = "declined" => isDeleted,
         l = "cancelled" => TimedOut(t, now)
  PROVE  IInv'
<1> USE DEF IInv
<1>1. /\ pc' \in [Requests -> Labels] /\ pc'[t] = l
      /\ \A u \in Requests \ {t} : pc'[u] = pc[u]
  BY DEF TypeOK, Goto
<1>2. /\ req' = req /\ now' = now /\ queue' = queue /\ isDeleted' = isDeleted
      /\ readers' = readers /\ writers' = writers
  BY DEF file
<1>3. TypeOK'
  BY <1>1, <1>2 DEF TypeOK
<1>4. LockOK'
  BY <1>1, <1>2, LazyAssumption DEF LockOK
<1>5. AnswerOK'
  BY <1>1, <1>2 DEF AnswerOK, Op, At, TimedOut
<1>6. \A o \in Ops : Users(o)' = Users(o)
  BY <1>1, <1>2 DEF Users, Op
<1>7. Deleters' = Deleters
  BY <1>1, <1>2 DEF Deleters, Op
<1>8. CountOK' /\ DeleteOK'
  BY <1>2, <1>6, <1>7 DEF CountOK, DeleteOK, Ops
<1>9. QueueOK'
  <2>1. ASSUME NEW u \in Requests, NEW o \in Ops, Entry(u, o) PROVE Entry(u, o)'
    BY <1>1, <1>2, <2>1 DEF Entry, Op
  <2> QED  BY <1>2, <2>1 DEF QueueOK, Waits
<1>10. DequeuesItself'
  BY <1>1, <1>2 DEF DequeuesItself, IsFront, Op
<1> QED  BY <1>3, <1>4, <1>5, <1>8, <1>9, <1>10

LEMMA QuietSteps ==
  ASSUME IInv, NEW t \in Requests,
         Spawn(t) \/ Check(t) \/ Wake(t) \/ Acquire(t) \/ NotYet(t) \/ DeleteNotYet(t)
  PROVE  IInv'
<1>1. TypeOK /\ LockOK  BY DEF IInv
<1>2. CASE Spawn(t)
  <2>1. "check" \in Labels  BY DEF Labels, Early
  <2> QED  BY <1>2, <2>1, QuietStep DEF Spawn, At_, Early, Holding, file
<1>3. CASE Check(t)
  <2> DEFINE l == IF isDeleted THEN "declined" ELSE "enqueue"
  <2>1. l \in Labels  BY DEF Labels, Early, Final
  <2>2. Goto(t, l) /\ pc[t] = "check" /\ UNCHANGED <<req, now, queue, file>> /\ lock' = lock
    BY <1>3 DEF Check, At_, file
  <2> QED  BY <2>1, <2>2, QuietStep DEF Early, Holding
<1>4. CASE Wake(t)
  <2> DEFINE l == IF TimedOut(t, now) THEN "cancelled" ELSE "lock"
  <2>1. l \in Labels  BY DEF Labels, Polling, Final
  <2>2. Goto(t, l) /\ pc[t] = "sleep" /\ UNCHANGED <<req, now, queue, file>> /\ lock' = lock
    BY <1>4 DEF Wake, At_, file
  <2> QED  BY <2>1, <2>2, QuietStep DEF Early, Holding
<1>5. CASE Acquire(t)
  <2> DEFINE l == IF isDeleted THEN "declined" ELSE IF Op(t) = "DELETE" THEN "pruneRead" ELSE "prune"
  <2>1. l \in Labels  BY DEF Labels, Holding, Final
  <2>2. /\ Goto(t, l) /\ pc[t] = "lock" /\ UNCHANGED <<req, now, queue, file>> /\ lock = Nobody
        /\ ~isDeleted => lock' = t
    BY <1>5 DEF Acquire, At_, file
  <2> QED  BY <2>1, <2>2, QuietStep DEF Early, Holding
<1>6. CASE NotYet(t) \/ DeleteNotYet(t)
  <2>1. "sleep" \in Labels  BY DEF Labels, Polling
  <2>2. /\ Goto(t, "sleep") /\ pc[t] = "test" /\ UNCHANGED <<req, now, queue, file>> /\ lock' = Nobody
    BY <1>6 DEF NotYet, DeleteNotYet, At_, file
  <2>3. lock = t
    BY <1>1, <2>2 DEF LockOK, Holding
  <2> QED  BY <2>1, <2>2, <2>3, QuietStep DEF Early, Holding
<1> QED  BY <1>2, <1>3, <1>4, <1>5, <1>6

\* Append() keeps an entry single, since a thread joins its queue once.
LEMMA EnqueueKeeps == ASSUME IInv, NEW t \in Requests, Enqueue(t) PROVE IInv'
<1> USE DEF IInv
<1>1. /\ pc[t] = "enqueue" /\ pc' \in [Requests -> Labels] /\ pc'[t] = "sleep"
      /\ \A u \in Requests \ {t} : pc'[u] = pc[u]
  BY DEF TypeOK, Enqueue, At_, Goto, Labels, Polling
<1>2. /\ req' = req /\ now' = now /\ isDeleted' = isDeleted /\ readers' = readers
      /\ writers' = writers /\ lock' = lock
  BY DEF Enqueue, file
<1>0. PICK o \in Ops : o = Op(t)
  BY DEF TypeOK, Op
<1> DEFINE q == queue[o]
<1>3. q \in Seq(Requests)
  BY DEF TypeOK
<1>4. /\ queue' = [queue EXCEPT ![o] = Append(q, t)]
      /\ queue'[o] = Append(q, t) /\ \A r \in Ops \ {o} : queue'[r] = queue[r]
  BY <1>0, <1>3 DEF TypeOK, Enqueue
<1> HIDE DEF q
<1>5. TypeOK'
  BY <1>1, <1>2, <1>3, <1>4 DEF TypeOK
<1>6. LockOK' /\ AnswerOK'
  BY <1>1, <1>2 DEF LockOK, AnswerOK, Holding, Op, At, TimedOut
<1>7. (\A r \in Ops : Users(r)' = Users(r)) /\ Deleters' = Deleters
  BY <1>1, <1>2 DEF Users, Deleters, Op
<1>8. CountOK' /\ DeleteOK'
  BY <1>2, <1>7 DEF CountOK, DeleteOK, Ops
<1>9. \A u \in Requests, r \in Ops : Entry(u, r) => Entry(u, r)'
  BY <1>1, <1>2 DEF Entry, Op, Early
<1>10. QueueOK'
  <2>1. \A r \in Ops \ {o} : Once(queue'[r]) /\ \A u \in Requests : Waits(u, r)' => Entry(u, r)'
    BY <1>4, <1>9 DEF QueueOK, Waits
  <2>2. Entry(t, o)'
    BY <1>0, <1>1, <1>2 DEF Entry, Op, Early
  <2>3. Once(q) /\ (\A u \in Requests : Waits(u, o) => Entry(u, o)) /\ Len(q) \in Nat
    BY <1>3 DEF QueueOK, q
  <2>4. /\ Len(Append(q, t)) = Len(q) + 1 /\ Append(q, t)[Len(q) + 1] = t
        /\ \A i \in 1..Len(q) : Append(q, t)[i] = q[i] /\ q[i] \in Requests
    BY <1>3
  <2>5. \A i \in 1..Len(q) : q[i] # t
    BY <1>1, <2>3 DEF Entry, Early, Waits, q
  <2>6. Once(Append(q, t))
    BY <2>3, <2>4, <2>5 DEF Once
  <2>7. \A u \in Requests : Waits(u, o)' => u = t \/ Waits(u, o)
    BY <1>4, <2>3, <2>4 DEF Waits, q
  <2>8. \A u \in Requests : Waits(u, o)' => Entry(u, o)'
    BY <1>9, <2>2, <2>3, <2>7
  <2>9. Once(queue'[o])
    BY <1>4, <2>6
  <2> QED  BY <2>1, <2>8, <2>9 DEF QueueOK
<1>11. DequeuesItself'
  <2> SUFFICES ASSUME NEW u \in Requests, pc'[u] = "dequeue" PROVE IsFront(u)'
    BY DEF DequeuesItself
  <2>1. u # t /\ pc[u] = "dequeue" /\ IsFront(u) /\ Op(u) \in Ops /\ Op(u)' = Op(u)
    BY <1>1, <1>2 DEF DequeuesItself, TypeOK, Op
  <2>2. CASE Op(u) = o
    <3>1. q # <<>> /\ Head(q) = u
      BY <2>1, <2>2 DEF IsFront, q
    <3>2. Append(q, t) # <<>> /\ Head(Append(q, t)) = Head(q)
      BY <1>3, <3>1
    <3> QED  BY <1>4, <2>1, <2>2, <3>1, <3>2 DEF IsFront
  <2>3. CASE Op(u) # o
    BY <1>4, <2>1, <2>3 DEF IsFront
  <2> QED  BY <2>2, <2>3
<1> QED  BY <1>5, <1>6, <1>8, <1>10, <1>11

\* A queue loses entries at its front.
LEMMA Shortened ==
  ASSUME TypeOK, NEW o \in Ops, NEW w \in Seq(Requests), NEW k \in 0..Len(queue[o]),
         Once(queue[o]), Len(w) = Len(queue[o]) - k,
         \A i \in 1..Len(w) : w[i] = queue[o][i + k]
  PROVE  Once(w) /\ \A i \in 1..Len(w) : \E j \in 1..Len(queue[o]) : queue[o][j] = w[i]
<1>1. queue[o] \in Seq(Requests)  BY DEF TypeOK
<1>2. Len(queue[o]) \in Nat /\ Len(w) \in Nat  BY <1>1
<1>3. \A i \in 1..Len(w) : i + k \in 1..Len(queue[o])
  BY <1>2
<1>4. \A i, j \in 1..Len(w) : w[i] = w[j] => i = j
  BY <1>2, <1>3 DEF Once
<1> QED  BY <1>3, <1>4 DEF Once

LEMMA PruneKeeps ==
  ASSUME IInv, NEW t \in Requests, NEW o \in Ops,
         NEW label \in Holding, NEW next \in Holding, Prune(t, label, o, next),
         label # "dequeue", next # "dequeue"
  PROVE  IInv'
<1> USE DEF IInv
<1>1. /\ pc[t] = label /\ pc' \in [Requests -> Labels] /\ pc'[t] = next
      /\ \A u \in Requests \ {t} : pc'[u] = pc[u]
  BY DEF TypeOK, Prune, At_, Goto, Labels
<1>2. /\ req' = req /\ now' = now /\ isDeleted' = isDeleted /\ readers' = readers
      /\ writers' = writers /\ lock' = lock
  BY DEF Prune, file
<1>3. lock = t
  BY <1>1 DEF LockOK
<1> DEFINE q == queue[o] w == WithoutExpired(q)
<1>4. q \in Seq(Requests)
  BY DEF TypeOK
<1>5. /\ queue' = [queue EXCEPT ![o] = w]
      /\ queue'[o] = w /\ \A r \in Ops \ {o} : queue'[r] = queue[r]
  BY DEF TypeOK, Prune
<1>6. w \in Seq(Requests) /\ Once(w) /\ \A i \in 1..Len(w) : \E j \in 1..Len(q) : q[j] = w[i]
  <2>1. PICK k \in 0..Len(q) : /\ Len(w) = Len(q) - k
                               /\ \A i \in 1..(Len(q) - k) : w[i] = q[i + k]
    BY <1>4, PruneFact
  <2>2. w \in Seq(Requests)
    BY <1>4, PruneFact
  <2>3. Once(q)
    BY DEF QueueOK
  <2> HIDE DEF w
  <2> QED  BY <2>1, <2>2, <2>3, Shortened
<1> HIDE DEF w
<1>7. TypeOK'
  BY <1>1, <1>2, <1>5, <1>6 DEF TypeOK
<1>8. LockOK' /\ AnswerOK'
  BY <1>1, <1>2 DEF LockOK, AnswerOK, Holding, Op, At, TimedOut
<1>9. (\A r \in Ops : Users(r)' = Users(r)) /\ Deleters' = Deleters
  BY <1>1, <1>2 DEF Users, Deleters, Op, Holding
<1>10. CountOK' /\ DeleteOK'
  BY <1>2, <1>9 DEF CountOK, DeleteOK, Ops
<1>11. \A u \in Requests, r \in Ops : Entry(u, r) => Entry(u, r)'
  BY <1>1, <1>2 DEF Entry, Op, Early, Holding
<1>12. QueueOK'
  <2>1. \A r \in Ops \ {o} : Once(queue'[r]) /\ \A u \in Requests : Waits(u, r)' => Entry(u, r)'
    BY <1>5, <1>11 DEF QueueOK, Waits
  <2>2. \A u \in Requests : Waits(u, o)' => Waits(u, o)
    BY <1>5, <1>6 DEF Waits
  <2>3. \A u \in Requests : Waits(u, o)' => Entry(u, o)'
    BY <1>11, <2>2 DEF QueueOK
  <2>4. Once(queue'[o])
    BY <1>5, <1>6
  <2> QED  BY <2>1, <2>3, <2>4 DEF QueueOK
<1>13. DequeuesItself'
  <2> SUFFICES ASSUME NEW u \in Requests, pc'[u] = "dequeue" PROVE FALSE
    BY DEF DequeuesItself
  <2>1. u # t /\ pc[u] = "dequeue"
    BY <1>1
  <2> QED  BY <1>3, <2>1 DEF LockOK, Holding
<1> QED  BY <1>7, <1>8, <1>10, <1>12, <1>13

LEMMA PruneQueuesKeeps == ASSUME IInv, NEW t \in Requests, PruneQueues(t) PROVE IInv'
<1>1. Op(t) \in Ops
  BY DEF IInv, TypeOK, Op
<1> QED  BY <1>1, PruneKeeps DEF PruneQueues, Ops, Holding

\* The counters count: one more user, one less.
LEMMA UsersFinite == \A o \in Ops : IsFiniteSet(Users(o)) /\ Cardinality(Users(o)) \in Nat
<1>1. \A o \in Ops : Users(o) \subseteq Requests
  BY DEF Users
<1> QED  BY <1>1, LazyAssumption, FS_Subset, FS_CardinalityType

LEMMA TakeUpKeeps == ASSUME IInv, NEW t \in Requests, TakeUp(t) PROVE IInv'
<1> USE DEF IInv
<1>1. /\ pc[t] = "test" /\ pc' \in [Requests -> Labels] /\ pc'[t] = "dequeue"
      /\ \A u \in Requests \ {t} : pc'[u] = pc[u]
  BY DEF TypeOK, TakeUp, At_, Goto, Labels, Holding
<1>2. /\ req' = req /\ now' = now /\ isDeleted' = isDeleted /\ queue' = queue /\ lock' = lock
      /\ Op(t) # "DELETE" /\ IsFront(t)
  BY DEF TakeUp
<1>3. Op(t) \in Ops /\ lock = t /\ ~isDeleted
  BY <1>1 DEF TypeOK, Op, LockOK, Holding
<1> DEFINE o == Op(t)
<1>4. readers \in Nat /\ writers \in Nat
  BY UsersFinite DEF CountOK, Ops
<1>5. TypeOK'
  BY <1>1, <1>2, <1>4 DEF TypeOK, TakeUp
<1>6. LockOK' /\ AnswerOK'
  BY <1>1, <1>2, <1>3 DEF LockOK, AnswerOK, Holding, Op, At, TimedOut
<1>7. Users("READ")' = (IF Op(t) = "READ" THEN Users("READ") \cup {t} ELSE Users("READ"))
  BY <1>1, <1>2, <1>3 DEF Users, Op
<1>8. Users("WRITE")' = (IF Op(t) = "WRITE" THEN Users("WRITE") \cup {t} ELSE Users("WRITE"))
  BY <1>1, <1>2, <1>3 DEF Users, Op
<1>9. t \notin Users("READ") /\ t \notin Users("WRITE")
  BY <1>1 DEF Users
<1>10. CountOK'
  <2>1. CASE Op(t) = "READ"
    <3>1. Cardinality(Users("READ") \cup {t}) = Cardinality(Users("READ")) + 1
      BY <1>9, UsersFinite, FS_AddElement DEF Ops
    <3>2. readers' = readers + 1 /\ writers' = writers
      BY <2>1 DEF TakeUp
    <3> QED  BY <1>7, <1>8, <2>1, <3>1, <3>2 DEF CountOK
  <2>2. CASE Op(t) = "WRITE"
    <3>1. Cardinality(Users("WRITE") \cup {t}) = Cardinality(Users("WRITE")) + 1
      BY <1>9, UsersFinite, FS_AddElement DEF Ops
    <3>2. readers' = readers /\ writers' = writers + 1
      BY <2>2 DEF TakeUp
    <3> QED  BY <1>7, <1>8, <2>2, <3>1, <3>2 DEF CountOK
  <2> QED  BY <1>2, <1>3, <2>1, <2>2 DEF Ops
<1>11. Deleters' = Deleters
  BY <1>1, <1>2 DEF Deleters, Op
<1>12. DeleteOK'
  BY <1>2, <1>3, <1>11 DEF DeleteOK
<1>13. \A u \in Requests, r \in Ops : Entry(u, r) => Entry(u, r)'
  BY <1>1, <1>2 DEF Entry, Op, Early
<1>14. QueueOK'
  BY <1>2, <1>13 DEF QueueOK, Waits
<1>15. DequeuesItself'
  BY <1>1, <1>2 DEF DequeuesItself, IsFront, Op
<1> QED  BY <1>5, <1>6, <1>10, <1>12, <1>14, <1>15

LEMMA DequeueKeeps == ASSUME IInv, NEW t \in Requests, Dequeue(t) PROVE IInv'
<1> USE DEF IInv
<1>1. /\ pc[t] = "dequeue" /\ pc' \in [Requests -> Labels] /\ pc'[t] = "access"
      /\ \A u \in Requests \ {t} : pc'[u] = pc[u]
  BY DEF TypeOK, Dequeue, At_, Goto, Labels
<1>2. /\ req' = req /\ now' = now /\ isDeleted' = isDeleted /\ readers' = readers
      /\ writers' = writers /\ lock' = Nobody
  BY DEF Dequeue, file
<1>3. PICK o \in Ops : o = Op(t)
  BY DEF TypeOK, Op
<1>4. lock = t /\ o # "DELETE"
  BY <1>1, <1>3 DEF LockOK, AnswerOK, Holding
<1> DEFINE q == queue[o]
<1>5. q \in Seq(Requests) /\ q # <<>> /\ Head(q) = t
  BY <1>1, <1>3 DEF TypeOK, DequeuesItself, IsFront
<1> DEFINE w == Tail(q)
<1>6. queue' = [queue EXCEPT ![o] = w] /\ queue'[o] = w /\ \A r \in Ops \ {o} : queue'[r] = queue[r]
  BY <1>3, <1>5 DEF TypeOK, Dequeue
<1>7. /\ w \in Seq(Requests) /\ 1 \in 0..Len(q) /\ Len(w) = Len(q) - 1
      /\ \A i \in 1..Len(w) : w[i] = q[i + 1]
  BY <1>5
<1>8. Once(q)
  BY DEF QueueOK
<1>9. Once(w) /\ \A i \in 1..Len(w) : \E j \in 1..Len(q) : q[j] = w[i]
  <2> HIDE DEF w
  <2> QED  BY <1>7, <1>8, Shortened
<1>10. \A i \in 1..Len(w) : w[i] # t
  <2>1. q[1] = t /\ Len(q) \in Nat
    BY <1>5
  <2>2. \A i \in 1..Len(w) : i + 1 \in 1..Len(q) /\ 1 \in 1..Len(q) /\ i + 1 # 1
    BY <1>7, <2>1
  <2> HIDE DEF w, q
  <2> QED  BY <1>7, <1>8, <2>1, <2>2 DEF Once
<1> HIDE DEF w, q
<1>11. TypeOK'
  BY <1>1, <1>2, <1>6, <1>7 DEF TypeOK
<1>12. LockOK'
  BY <1>1, <1>4 DEF LockOK, Holding
<1>13. AnswerOK'
  BY <1>1, <1>2, <1>3, <1>4 DEF AnswerOK, Op, At, TimedOut
<1>14. (\A r \in Ops : Users(r)' = Users(r)) /\ Deleters' = Deleters
  BY <1>1, <1>2 DEF Users, Deleters, Op
<1>15. CountOK' /\ DeleteOK'
  BY <1>2, <1>14 DEF CountOK, DeleteOK, Ops
<1>16. \A u \in Requests \ {t}, r \in Ops : Entry(u, r) => Entry(u, r)'
  BY <1>1, <1>2 DEF Entry, Op
<1>17. QueueOK'
  <2>1. ASSUME NEW r \in Ops \ {o}
        PROVE  Once(queue'[r]) /\ \A u \in Requests : Waits(u, r)' => Entry(u, r)'
    <3>1. Once(queue'[r]) /\ \A u \in Requests : Waits(u, r)' => Waits(u, r) /\ Entry(u, r)
      BY <1>6, <2>1 DEF QueueOK, Waits
    <3>2. ~Entry(t, r)
      BY <1>3, <2>1 DEF Entry
    <3> QED  BY <1>16, <3>1, <3>2
  <2>2. \A u \in Requests : Waits(u, o)' => u # t /\ Waits(u, o)
    BY <1>6, <1>9, <1>10 DEF Waits, q
  <2>3. \A u \in Requests : Waits(u, o)' => Entry(u, o)'
    BY <1>16, <2>2 DEF QueueOK
  <2>4. Once(queue'[o])
    BY <1>6, <1>9
  <2> QED  BY <2>1, <2>3, <2>4 DEF QueueOK
<1>18. DequeuesItself'
  <2> SUFFICES ASSUME NEW u \in Requests, pc'[u] = "dequeue" PROVE FALSE
    BY DEF DequeuesItself
  <2>1. u # t /\ pc[u] = "dequeue"
    BY <1>1
  <2> QED  BY <1>4, <2>1 DEF LockOK, Holding
<1> QED  BY <1>11, <1>12, <1>13, <1>15, <1>17, <1>18

LEMMA FinishKeeps == ASSUME IInv, NEW t \in Requests, Finish(t) PROVE IInv'
<1> USE DEF IInv
<1>1. /\ pc[t] = "access" /\ pc' \in [Requests -> Labels] /\ pc'[t] = "served"
      /\ \A u \in Requests \ {t} : pc'[u] = pc[u]
  BY DEF TypeOK, Finish, At_, Goto, Labels, Final
<1>2. /\ req' = req /\ now' = now /\ isDeleted' = isDeleted /\ queue' = queue /\ lock' = lock
  BY DEF Finish
<1>3. Op(t) \in Ops /\ Op(t) # "DELETE"
  BY <1>1 DEF TypeOK, Op, AnswerOK
<1>4. TypeOK'
  BY <1>1, <1>2 DEF TypeOK, Finish
<1>5. LockOK' /\ AnswerOK'
  BY <1>1, <1>2 DEF LockOK, AnswerOK, Holding, Op, At, TimedOut
<1>6. Users("READ")' = (IF Op(t) = "READ" THEN Users("READ") \ {t} ELSE Users("READ"))
  BY <1>1, <1>2, <1>3 DEF Users, Op
<1>7. Users("WRITE")' = (IF Op(t) = "WRITE" THEN Users("WRITE") \ {t} ELSE Users("WRITE"))
  BY <1>1, <1>2, <1>3 DEF Users, Op
<1>8. t \in Users(Op(t))
  BY <1>1 DEF Users
<1>9. CountOK'
  <2>1. CASE Op(t) = "READ"
    <3>1. Cardinality(Users("READ") \ {t}) = Cardinality(Users("READ")) - 1
      BY <1>8, <2>1, UsersFinite, FS_RemoveElement DEF Ops
    <3>2. readers' = readers - 1 /\ writers' = writers
      BY <2>1 DEF Finish
    <3> QED  BY <1>6, <1>7, <2>1, <3>1, <3>2 DEF CountOK
  <2>2. CASE Op(t) = "WRITE"
    <3>1. Cardinality(Users("WRITE") \ {t}) = Cardinality(Users("WRITE")) - 1
      BY <1>8, <2>2, UsersFinite, FS_RemoveElement DEF Ops
    <3>2. readers' = readers /\ writers' = writers - 1
      BY <2>2 DEF Finish
    <3> QED  BY <1>6, <1>7, <2>2, <3>1, <3>2 DEF CountOK
  <2> QED  BY <1>3, <2>1, <2>2 DEF Ops
<1>10. Deleters' = Deleters
  BY <1>1, <1>2, <1>3 DEF Deleters, Op
<1>11. DeleteOK'
  BY <1>2, <1>6, <1>7, <1>10 DEF DeleteOK
<1>12. \A u \in Requests, r \in Ops : Entry(u, r) => Entry(u, r)'
  BY <1>1, <1>2, <1>3 DEF Entry, Op, Early
<1>13. QueueOK'
  BY <1>2, <1>12 DEF QueueOK, Waits
<1>14. DequeuesItself'
  BY <1>1, <1>2 DEF DequeuesItself, IsFront, Op
<1> QED  BY <1>4, <1>5, <1>9, <1>11, <1>13, <1>14

\* A delete is taken up when the counters are 0: nobody uses the file.
LEMMA TakeUpDeleteKeeps == ASSUME IInv, NEW t \in Requests, TakeUpDelete(t) PROVE IInv'
<1> USE DEF IInv
<1>1. /\ pc[t] = "test" /\ pc' \in [Requests -> Labels] /\ pc'[t] = "deleting"
      /\ \A u \in Requests \ {t} : pc'[u] = pc[u]
  BY DEF TypeOK, TakeUpDelete, At_, Goto, Labels
<1>2. /\ req' = req /\ now' = now /\ isDeleted' = TRUE /\ queue' = queue /\ lock' = Nobody
      /\ readers' = readers /\ writers' = writers
      /\ Op(t) = "DELETE" /\ readers = 0 /\ writers = 0
  BY DEF TakeUpDelete, MayDelete, NoUsers
<1>3. lock = t /\ ~isDeleted
  BY <1>1 DEF LockOK, Holding
<1>4. TypeOK'
  BY <1>1, <1>2 DEF TypeOK
<1>5. LockOK'
  BY <1>1, <1>3 DEF LockOK, Holding
<1>6. AnswerOK'
  BY <1>1, <1>2 DEF AnswerOK, Op, At, TimedOut
<1>7. \A r \in Ops : Users(r)' = Users(r)
  BY <1>1, <1>2 DEF Users, Op
<1>8. CountOK'
  BY <1>2, <1>7 DEF CountOK, Ops
<1>9. Users("READ") = {} /\ Users("WRITE") = {}
  BY <1>2, UsersFinite, FS_EmptySet DEF CountOK, Ops
<1>10. Deleters' = {t}
  BY <1>1, <1>2, <1>3 DEF DeleteOK, Deleters, Op
<1>11. DeleteOK'
  BY <1>2, <1>7, <1>9, <1>10 DEF DeleteOK, Ops
<1>12. \A u \in Requests, r \in Ops : Entry(u, r) => Entry(u, r)'
  BY <1>1, <1>2 DEF Entry, Op, Early
<1>13. QueueOK'
  BY <1>2, <1>12 DEF QueueOK, Waits
<1>14. DequeuesItself'
  BY <1>1, <1>2 DEF DequeuesItself, IsFront, Op
<1> QED  BY <1>4, <1>5, <1>6, <1>8, <1>11, <1>13, <1>14

LEMMA FinishDeleteKeeps == ASSUME IInv, NEW t \in Requests, FinishDelete(t) PROVE IInv'
<1> USE DEF IInv
<1>1. /\ pc[t] = "deleting" /\ pc' \in [Requests -> Labels] /\ pc'[t] = "served"
      /\ \A u \in Requests \ {t} : pc'[u] = pc[u]
  BY DEF TypeOK, FinishDelete, At_, Goto, Labels, Final
<1>2. /\ req' = req /\ now' = now /\ isDeleted' = isDeleted /\ queue' = queue /\ lock' = lock
      /\ readers' = readers /\ writers' = writers
  BY DEF FinishDelete, file
<1>3. Op(t) = "DELETE"
  BY <1>1 DEF AnswerOK
<1>4. TypeOK'
  BY <1>1, <1>2 DEF TypeOK
<1>5. LockOK' /\ AnswerOK'
  BY <1>1, <1>2 DEF LockOK, AnswerOK, Holding, Op, At, TimedOut
<1>6. (\A r \in Ops : Users(r)' = Users(r)) /\ Deleters' = Deleters
  BY <1>1, <1>2 DEF Users, Deleters, Op
<1>7. CountOK' /\ DeleteOK'
  BY <1>2, <1>6 DEF CountOK, DeleteOK, Ops
<1>8. \A u \in Requests, r \in Ops : Entry(u, r) => Entry(u, r)'
  BY <1>1, <1>2, <1>3 DEF Entry, Op, Early
<1>9. QueueOK'
  BY <1>2, <1>8 DEF QueueOK, Waits
<1>10. DequeuesItself'
  BY <1>1, <1>2 DEF DequeuesItself, IsFront, Op
<1> QED  BY <1>4, <1>5, <1>7, <1>9, <1>10

\* Time passes, or nothing of the invariant changes.
LEMMA OtherStep ==
  ASSUME IInv, UNCHANGED <<req, pc, queue, file, lock>>, now' = now \/ now' = now + 1
  PROVE  IInv'
<1> USE DEF IInv, file
<1>1. now \in Nat /\ now' \in Nat /\ \A t \in Requests : At(t) \in Nat /\ Patience \in Nat
  BY LazyAssumption DEF TypeOK, At
<1>2. \A t \in Requests : TimedOut(t, now) => TimedOut(t, now)'
  BY <1>1 DEF TimedOut, At
<1>3. TypeOK' /\ LockOK' /\ AnswerOK'
  BY <1>1, <1>2 DEF TypeOK, LockOK, AnswerOK, Op
<1>4. CountOK' /\ DeleteOK' /\ QueueOK' /\ DequeuesItself'
  BY DEF CountOK, DeleteOK, Deleters, Users, QueueOK, Waits, Entry, Op, DequeuesItself, IsFront
<1> QED  BY <1>3, <1>4

\* The invariant holds in every reachable state: every section of perform_request(), the
\* start of a thread and the passing of a second keep it (lazy_read_write.c:122-330).
THEOREM Inductive == Spec => []IInv
<1>1. IInv /\ [Next]_vars => IInv'
  <2> SUFFICES ASSUME IInv, [Next]_vars PROVE IInv'  OBVIOUS
  <2>1. CASE Tick
    BY <2>1, OtherStep DEF Tick
  <2>2. ASSUME NEW t \in Requests, Thread(t) PROVE IInv'
    <3>1. CASE Spawn(t) \/ Check(t) \/ Wake(t) \/ Acquire(t) \/ NotYet(t) \/ DeleteNotYet(t)
      BY <3>1, QuietSteps
    <3>2. CASE DeleteCrash(t)
      BY <3>2, OtherStep DEF DeleteCrash
    <3> QED
      BY <2>2, <3>1, <3>2, EnqueueKeeps, PruneQueuesKeeps, TakeUpKeeps, DequeueKeeps, FinishKeeps,
         TakeUpDeleteKeeps, FinishDeleteKeeps DEF Thread
  <2>3. CASE UNCHANGED vars
    BY <2>3, OtherStep DEF vars, file
  <2> QED  BY <2>1, <2>2, <2>3 DEF Next, Over
<1> QED  BY <1>1, InitIInv, PTL DEF Spec

-----------------------------------------------------------------------------
(* What follows.                                                           *)

\* Once is_deleted is set nobody reads or writes the file, and it is deleted once
\* (lazy_read_write.c:175).
THEOREM NeverUsedAfterDelete == Spec => []NoUseAfterDelete
<1>1. IInv => NoUseAfterDelete
  BY DEF IInv, DeleteOK, Deleters, NoUseAfterDelete
<1> QED  BY <1>1, Inductive, PTL

\* The request dequeue() pops is the one that was taken up (lazy_read_write.c:243).
THEOREM AlwaysDequeuesItself == Spec => []DequeuesItself
<1>1. IInv => DequeuesItself
  BY DEF IInv
<1> QED  BY <1>1, Inductive, PTL

\* What a cancelled thread leaves in a queue has expired (lazy_read_write.c:225).
THEOREM DeadEntriesAlwaysExpire == Spec => []DeadEntriesExpire
<1>1. IInv => DeadEntriesExpire
  <2> SUFFICES ASSUME IInv, NEW o \in Ops, NEW i \in 1..Len(queue[o]), pc[queue[o][i]] \in Final, ~isDeleted
               PROVE  TimedOut(queue[o][i], now)
    BY DEF DeadEntriesExpire
  <2>1. PICK t \in Requests : t = queue[o][i]
    BY DEF IInv, TypeOK
  <2>2. Entry(t, o)
    BY <2>1 DEF IInv, QueueOK, Waits
  <2>3. pc[t] = "served" => t \in Deleters
    BY <2>2 DEF Entry, Deleters
  <2> QED  BY <2>1, <2>3 DEF IInv, AnswerOK, DeleteOK, Final
<1> QED  BY <1>1, Inductive, PTL
-----------------------------------------------------------------------------
(* The turn of a delete.  While no new thread is late, a thread is started *)
(* and reaches its queue in the second of its request, so queues are       *)
(* sorted by time; and the time a thread polls with is not before its own. *)

Sorted(q) == \A i, j \in 1..Len(q) : i <= j => At(q[i]) <= At(q[j])
TurnOK ==
  /\ cur \in [Requests -> Nat]
  /\ \A t \in Requests : pc[t] \in {"lock"} \cup Holding => At(t) <= cur[t]
  /\ \A t \in Requests : pc[t] # "unborn" => At(t) <= now
  /\ late \in BOOLEAN
  /\ ~late => /\ \A t \in Requests : pc[t] = "unborn" => now <= At(t)
              /\ \A t \in Requests : pc[t] \in {"check", "enqueue"} => At(t) = now
              /\ \A o \in Ops : Sorted(queue[o])

\* A step of a thread that is started, in which the queues stay sorted.
LEMMA TurnStep ==
  ASSUME IInv, TurnOK, NEW t \in Requests, NEW l \in Labels \ {"unborn"},
         Goto(t, l), UNCHANGED <<req, now, late>>,
         cur' = cur \/ cur' = [cur EXCEPT ![t] = now],
         At(t) <= now,
         l = "check" => pc[t] = "unborn",
         l = "enqueue" => pc[t] = "check",
         l \in Holding => pc[t] \in {"lock"} \cup Holding,
         l = "lock" => cur'[t] = now,
         ~late => \A o \in Ops : Sorted(queue'[o])
  PROVE  TurnOK'
<1> USE DEF TurnOK
<1>1. /\ pc' \in [Requests -> Labels] /\ pc'[t] = l
      /\ \A u \in Requests \ {t} : pc'[u] = pc[u]
  BY DEF IInv, TypeOK, Goto
<1>2. req' = req /\ now' = now /\ late' = late /\ now \in Nat
  BY DEF IInv, TypeOK
<1>3. /\ cur' \in [Requests -> Nat] /\ cur'[t] \in {cur[t], now}
      /\ \A u \in Requests \ {t} : cur'[u] = cur[u]
  BY <1>2
<1>4. \A u \in Requests : At(u)' = At(u) /\ At(u) \in Nat
  BY <1>2, LazyAssumption DEF At, IInv, TypeOK
<1>5. \A u \in Requests : pc'[u] \in {"lock"} \cup Holding => At(u) <= cur'[u]
  BY <1>1, <1>2, <1>3, <1>4 DEF Holding
<1>6. \A u \in Requests : pc'[u] # "unborn" => At(u) <= now
  BY <1>1
<1>7. ASSUME ~late
      PROVE  /\ \A u \in Requests : pc'[u] = "unborn" => now <= At(u)
             /\ \A u \in Requests : pc'[u] \in {"check", "enqueue"} => At(u) = now
  BY <1>1, <1>2, <1>4, <1>7
<1>8. \A q : Sorted(q)' <=> Sorted(q')
  BY <1>2 DEF Sorted, At
<1>9. ~late => \A o \in Ops : Sorted(queue[o])'
  BY <1>2 DEF Sorted, At
<1> QED  BY <1>2, <1>3, <1>4, <1>5, <1>6, <1>7, <1>9

\* Threads that touch no queue.
LEMMA TurnQuiet ==
  ASSUME IInv, TurnOK, NEW t \in Requests,
         Spawn(t) \/ Check(t) \/ Wake(t) \/ Acquire(t) \/ TakeUp(t) \/ NotYet(t) \/ Finish(t)
           \/ TakeUpDelete(t) \/ DeleteNotYet(t) \/ FinishDelete(t)
  PROVE  TurnOK'
<1>1. PICK l \in Labels \ {"unborn"} :
        /\ Goto(t, l)
        /\ l = "check" => pc[t] = "unborn" /\ At(t) <= now
        /\ l = "enqueue" => pc[t] = "check"
        /\ l \in Holding => pc[t] \in {"lock"} \cup Holding
        /\ l = "lock" => cur'[t] = now
        /\ l # "check" => pc[t] # "unborn"
  <2> USE DEF Labels, Early, Holding, Polling, Final, At_
  <2>1. CASE Spawn(t)  BY <2>1 DEF Spawn, IInv, TypeOK, At
  <2>2. CASE Check(t)
    <3>1. Goto(t, "declined") \/ Goto(t, "enqueue")  BY <2>2 DEF Check
    <3> QED  BY <2>2, <3>1 DEF Check
  <2>3. CASE Wake(t)
    <3>1. Goto(t, "cancelled") \/ Goto(t, "lock")  BY <2>3 DEF Wake
    <3>2. cur'[t] = now  BY <2>3 DEF Wake, TurnOK
    <3> QED  BY <2>3, <3>1, <3>2 DEF Wake
  <2>4. CASE Acquire(t)
    <3>1. Goto(t, "declined") \/ Goto(t, "pruneRead") \/ Goto(t, "prune")  BY <2>4 DEF Acquire
    <3> QED  BY <2>4, <3>1 DEF Acquire
  <2>5. CASE TakeUp(t)  BY <2>5 DEF TakeUp
  <2>6. CASE NotYet(t) \/ DeleteNotYet(t)  BY <2>6 DEF NotYet, DeleteNotYet
  <2>7. CASE Finish(t) \/ FinishDelete(t)  BY <2>7 DEF Finish, FinishDelete
  <2>8. CASE TakeUpDelete(t)  BY <2>8 DEF TakeUpDelete
  <2> QED  BY <2>1, <2>2, <2>3, <2>4, <2>5, <2>6, <2>7, <2>8
<1>2. UNCHANGED <<req, now, late, queue>> /\ (cur' = cur \/ cur' = [cur EXCEPT ![t] = now])
  BY DEF Spawn, Check, Wake, Acquire, TakeUp, NotYet, Finish, TakeUpDelete, DeleteNotYet, FinishDelete, file
<1>3. At(t) <= now
  BY <1>1 DEF TurnOK
<1>4. ~late => \A o \in Ops : Sorted(queue'[o])
  BY <1>2 DEF TurnOK
<1> QED  BY <1>1, <1>2, <1>3, <1>4, TurnStep

\* A new entry is the youngest.
LEMMA TurnEnqueue ==
  ASSUME IInv, TurnOK, NEW t \in Requests, Enqueue(t)
  PROVE  TurnOK'
<1>1. /\ Goto(t, "sleep") /\ UNCHANGED <<req, now, cur, late>> /\ pc[t] = "enqueue"
      /\ queue' = [queue EXCEPT ![Op(t)] = Append(@, t)]
  BY DEF Enqueue, At_
<1>2. At(t) <= now /\ (~late => At(t) = now)
  BY <1>1 DEF TurnOK
<1>3. "sleep" \in Labels  BY DEF Labels, Polling
<1>4. Op(t) \in Ops  BY DEF IInv, TypeOK, Op
<1>5. ASSUME ~late, NEW o \in Ops PROVE Sorted(queue'[o])
  <2>1. queue[o] \in Seq(Requests) /\ Sorted(queue[o])
    BY <1>5 DEF IInv, TypeOK, TurnOK
  <2>2. CASE o # Op(t)
    BY <1>1, <2>1, <2>2 DEF IInv, TypeOK
  <2>3. CASE o = Op(t)
    <3> DEFINE q == queue[o]
    <3>1. queue'[o] = Append(q, t)
      BY <1>1, <2>3 DEF IInv, TypeOK
    <3>2. \A i \in 1..Len(q) : At(q[i]) <= now
      BY <2>1 DEF IInv, QueueOK, Waits, Entry, Early, TurnOK
    <3>3. \A u \in Requests : At(u) \in Nat
      BY LazyAssumption DEF IInv, TypeOK, At
    <3> HIDE DEF q
    <3>4. q \in Seq(Requests) /\ Sorted(q)  BY <2>1 DEF q
    <3> QED  BY <1>2, <1>5, <3>1, <3>2, <3>3, <3>4 DEF Sorted
  <2> QED  BY <2>2, <2>3
<1> QED  BY <1>1, <1>2, <1>3, <1>5, TurnStep DEF Holding

\* A queue that loses entries at its front stays sorted.
LEMMA SortedEnd ==
  ASSUME NEW q \in Seq(Requests), NEW r \in Seq(Requests), NEW k \in 0..Len(q), Sorted(q),
         Len(r) = Len(q) - k, \A i \in 1..(Len(q) - k) : r[i] = q[i + k]
  PROVE  Sorted(r)
<1> SUFFICES ASSUME NEW i \in 1..Len(r), NEW j \in 1..Len(r), i <= j PROVE At(r[i]) <= At(r[j])
  BY DEF Sorted
<1>1. i + k \in 1..Len(q) /\ j + k \in 1..Len(q) /\ i + k <= j + k  OBVIOUS
<1> QED  BY <1>1 DEF Sorted

LEMMA TurnDequeue ==
  ASSUME IInv, TurnOK, NEW t \in Requests, PruneQueues(t) \/ Dequeue(t)
  PROVE  TurnOK'
<1>1. PICK l \in {"pruneWrite", "prune", "test", "access"}, o \in Ops :
        /\ Goto(t, l) /\ UNCHANGED <<req, now, cur, late>> /\ pc[t] \in Holding
        /\ \/ queue' = [queue EXCEPT ![o] = WithoutExpired(@)]
           \/ queue' = [queue EXCEPT ![o] = IF @ = <<>> THEN @ ELSE Tail(@)]
  BY DEF PruneQueues, Prune, Dequeue, At_, Holding, IInv, TypeOK, Op, Ops
<1>2. l \in Labels \ {"unborn"}
  BY <1>1 DEF Labels, Holding
<1>3. At(t) <= now
  BY <1>1 DEF TurnOK, Holding
<1>4. ASSUME ~late, NEW p \in Ops PROVE Sorted(queue'[p])
  <2>1. queue \in [Ops -> Seq(Requests)] /\ Sorted(queue[p]) /\ queue[p] \in Seq(Requests)
    BY <1>4 DEF IInv, TypeOK, TurnOK
  <2>2. \/ queue'[p] = queue[p] \/ queue'[p] = WithoutExpired(queue[p])
        \/ queue[p] # <<>> /\ queue'[p] = Tail(queue[p])
    <3>1. CASE p # o  BY <1>1, <2>1, <3>1
    <3>2. CASE p = o  BY <1>1, <2>1, <3>2
    <3> QED  BY <3>1, <3>2
  <2>3. CASE queue'[p] = WithoutExpired(queue[p])
    BY <2>1, <2>3, PruneFact, SortedEnd
  <2>4. CASE queue[p] # <<>> /\ queue'[p] = Tail(queue[p])
    <3> DEFINE r == Tail(queue[p])
    <3>1. /\ r \in Seq(Requests) /\ 1 \in 0..Len(queue[p]) /\ Len(r) = Len(queue[p]) - 1
          /\ \A i \in 1..(Len(queue[p]) - 1) : r[i] = queue[p][i + 1]
      BY <2>1, <2>4
    <3> HIDE DEF r
    <3>2. Sorted(r)  BY <2>1, <3>1, SortedEnd
    <3> QED  BY <2>4, <3>2 DEF r
  <2> QED  BY <2>1, <2>2, <2>3, <2>4
<1>5. l \notin {"check", "enqueue", "lock"}
  BY <1>1
<1> QED  BY <1>1, <1>2, <1>3, <1>4, <1>5, TurnStep

\* Time passes: who has not come to its queue by then makes the behaviour late.
LEMMA TurnTick ==
  ASSUME IInv, TurnOK, Tick
  PROVE  TurnOK'
<1>1. /\ now' = now + 1 /\ now \in Nat /\ UNCHANGED <<req, pc, cur, queue>>
      /\ late' = (late \/ \E t \in Requests : Arriving(t))
  BY DEF Tick, IInv, TypeOK
<1>2. \A t \in Requests : At(t)' = At(t) /\ At(t) \in Nat
  BY <1>1, LazyAssumption DEF At, IInv, TypeOK
<1>3. late' \in BOOLEAN
  BY <1>1 DEF TurnOK
<1>4. \A t \in Requests : pc[t] # "unborn" => At(t) <= now + 1
  BY <1>1, <1>2 DEF TurnOK
<1>5. ASSUME ~late'
      PROVE  /\ \A t \in Requests : pc[t] = "unborn" => now + 1 <= At(t)
             /\ \A t \in Requests : pc[t] \notin {"check", "enqueue"}
             /\ \A o \in Ops : Sorted(queue[o])
  <2>1. ~late /\ \A t \in Requests : ~Arriving(t)
    BY <1>1, <1>5
  <2> QED  BY <1>1, <1>2, <2>1 DEF TurnOK, Arriving
<1>6. \A o \in Ops : Sorted(queue[o])' <=> Sorted(queue[o])
  BY <1>1 DEF Sorted, At
<1> QED  BY <1>1, <1>2, <1>3, <1>4, <1>5, <1>6 DEF TurnOK

LEMMA TurnKept == IInv /\ TurnOK /\ [Next]_vars => TurnOK'
<1> SUFFICES ASSUME IInv, TurnOK, [Next]_vars PROVE TurnOK'  OBVIOUS
<1>1. ASSUME UNCHANGED <<req, now, pc, cur, queue, late>> PROVE TurnOK'
  BY <1>1 DEF TurnOK, At, Sorted
<1>2. CASE UNCHANGED vars
  BY <1>1, <1>2 DEF vars
<1>3. ASSUME NEW t \in Requests, DeleteCrash(t) PROVE TurnOK'
  BY <1>1, <1>3 DEF DeleteCrash
<1> QED  BY <1>2, <1>3, TurnTick, TurnQuiet, TurnEnqueue, TurnDequeue DEF Next, Over, Thread

LEMMA TurnAlways == Spec => []TurnOK
<1>1. Init => TurnOK
  <2> SUFFICES ASSUME Init PROVE TurnOK  OBVIOUS
  <2>1. cur \in [Requests -> Nat] /\ late \in BOOLEAN  BY DEF Init
  <2>2. \A t \in Requests : pc[t] = "unborn" /\ At(t) \in Nat  BY LazyAssumption DEF Init, At
  <2>3. \A o \in Ops : Sorted(queue[o])  BY DEF Init, Sorted
  <2> QED  BY <2>1, <2>2, <2>3 DEF TurnOK, Init, Holding
<1> QED  BY <1>1, TurnKept, Inductive, PTL DEF Spec

\* Only the fronts of the queues are compared, and yet a delete is taken up only when no
\* request made before it is queued, as long as new threads reach their queues within
\* the second (lazy_read_write.c:175).
THEOREM DeleteAlwaysWaitsItsTurn == Spec => DeleteWaitsItsTurn
<1>1. ASSUME IInv, TurnOK, [Next]_vars, ~late, ~isDeleted, isDeleted'
      PROVE  \E t \in Requests : /\ pc[t] = "test" /\ pc'[t] = "deleting"
                                 /\ \A o \in {"READ", "WRITE"} : \A i \in 1..Len(queue[o]) :
                                      At(queue[o][i]) >= At(t)
  <2>1. isDeleted' # isDeleted
    BY <1>1 DEF IInv, TypeOK
  <2>2. PICK t \in Requests : TakeUpDelete(t)
    BY <1>1, <2>1 DEF Next, Over, Tick, Thread, Spawn, Check, Enqueue, Wake, Acquire, PruneQueues, Prune, TakeUp,
       NotYet, Dequeue, Finish, DeleteCrash, DeleteNotYet, FinishDelete, vars, file
  <2>3. pc[t] = "test" /\ pc'[t] = "deleting" /\ Op(t) = "DELETE"
    BY <1>1, <2>2 DEF TakeUpDelete, At_, Goto, IInv, TypeOK
  <2>4. Front("DELETE") = t /\ Passes(t, "READ") /\ Passes(t, "WRITE")
    BY <2>2 DEF TakeUpDelete, MayDelete
  <2>5. At(t) <= cur[t] /\ cur[t] \in Nat
    BY <1>1, <2>3 DEF TurnOK, Holding
  <2>6. ASSUME NEW o \in {"READ", "WRITE"}, NEW i \in 1..Len(queue[o]) PROVE At(queue[o][i]) >= At(t)
    <3>1. queue[o] \in Seq(Requests) /\ Sorted(queue[o])
      BY <1>1 DEF IInv, TypeOK, TurnOK, Ops
    <3>2. queue[o] # <<>> /\ Front(o) = queue[o][1] /\ 1 \in 1..Len(queue[o])
      BY <2>6, <3>1 DEF Front
    <3>3. \A u \in Requests : At(u) \in Nat
      BY <1>1, LazyAssumption DEF IInv, TypeOK, At
    <3>4. At(queue[o][1]) >= At(t)
      BY <2>4, <2>5, <2>6, <3>1, <3>2, <3>3 DEF Passes
    <3>5. At(queue[o][1]) <= At(queue[o][i])
      BY <2>6, <3>1, <3>2 DEF Sorted
    <3>6. queue[o][1] \in Requests /\ queue[o][i] \in Requests
      BY <3>1, <3>2
    <3> QED  BY <3>3, <3>4, <3>5, <3>6
  <2> QED  BY <2>3, <2>6
<1>2. IInv /\ TurnOK /\ [Next]_vars =>
        [~late /\ ~isDeleted /\ isDeleted' =>
           \E t \in Requests : /\ pc[t] = "test" /\ pc'[t] = "deleting"
                               /\ \A o \in {"READ", "WRITE"} : \A i \in 1..Len(queue[o]) :
                                    At(queue[o][i]) >= At(t)]_vars
  BY <1>1
<1> QED  BY <1>2, Inductive, TurnAlways, PTL DEF Spec, DeleteWaitsItsTurn
-----------------------------------------------------------------------------
(* The NULL queue front.  A delete that polls is queued until its user's   *)
(* patience ends: pruning takes expired entries only, and nobody pops the  *)
(* queue of the deletes.                                                   *)

Waiting == Polling \cup (Holding \ {"dequeue"})
EntryStays == \A t \in Requests :
  Op(t) = "DELETE" /\ pc[t] \in Waiting => Waits(t, "DELETE") \/ TimedOut(t, now)

\* remove_invalid_requests() drops expired entries only.
LEMMA PruneDropsExpired ==
  ASSUME NEW q \in Seq(Requests), NEW i \in 1..Len(q), ~TimedOut(q[i], now)
  PROVE  \E j \in 1..Len(WithoutExpired(q)) : WithoutExpired(q)[j] = q[i]
<1> DEFINE valid == {j \in 1..Len(q) : ~TimedOut(q[j], now)}
           f == FirstValid(q)
<1>1. i \in valid /\ valid \subseteq Nat /\ valid \subseteq 1..Len(q) /\ valid # {}
  OBVIOUS
<1>2. f = CHOOSE j \in valid : \A k \in valid : j <= k
  BY <1>1 DEF FirstValid
<1>3. WithoutExpired(q) = SubSeq(q, f, Len(q))
  BY DEF WithoutExpired
<1> HIDE DEF valid, f
<1>4. \E j \in valid : \A k \in valid : j <= k
  BY <1>1, LeastNat
<1>5. f \in valid /\ f <= i
  BY <1>1, <1>2, <1>4
<1>6. f \in 1..Len(q) /\ i \in f..Len(q)
  BY <1>1, <1>5
<1>7. /\ Len(SubSeq(q, f, Len(q))) = Len(q) - (f - 1)
      /\ \A j \in 1..(Len(q) - (f - 1)) : SubSeq(q, f, Len(q))[j] = q[j + (f - 1)]
  BY <1>6
<1>8. i - (f - 1) \in 1..(Len(q) - (f - 1)) /\ (i - (f - 1)) + (f - 1) = i
  BY <1>6
<1> QED  BY <1>3, <1>7, <1>8

\* An entry of the deletes' queue that is not expired outlives every step.
LEMMA EntryOutlives ==
  ASSUME IInv, [Next]_vars, NEW t \in Requests, Waits(t, "DELETE"), ~TimedOut(t, now)
  PROVE  Waits(t, "DELETE")'
<1> DEFINE q == queue["DELETE"]
<1>1. q \in Seq(Requests) /\ "DELETE" \in Ops /\ queue \in [Ops -> Seq(Requests)]
  BY DEF IInv, TypeOK, Ops
<1>2. PICK i \in 1..Len(q) : q[i] = t
  BY DEF Waits
<1>3. CASE queue' = queue
  BY <1>3 DEF Waits
<1>4. ASSUME NEW u \in Requests, Enqueue(u) PROVE Waits(t, "DELETE")'
  <2>1. queue'["DELETE"] = q \/ queue'["DELETE"] = Append(q, u)
    BY <1>1, <1>4 DEF Enqueue
  <2> HIDE DEF q
  <2>2. Len(Append(q, u)) = Len(q) + 1 /\ \A j \in 1..Len(q) : Append(q, u)[j] = q[j]
    BY <1>1
  <2>3. i \in 1..(Len(q) + 1)
    BY <1>1
  <2> QED  BY <1>2, <2>1, <2>2, <2>3 DEF Waits
<1>5. ASSUME NEW u \in Requests, PruneQueues(u) PROVE Waits(t, "DELETE")'
  <2>1. queue'["DELETE"] = q \/ queue'["DELETE"] = WithoutExpired(q)
    BY <1>1, <1>5 DEF PruneQueues, Prune
  <2> HIDE DEF q
  <2>2. \E j \in 1..Len(WithoutExpired(q)) : WithoutExpired(q)[j] = t
    BY <1>1, <1>2, PruneDropsExpired
  <2> QED  BY <1>2, <2>1, <2>2 DEF Waits
<1>6. ASSUME NEW u \in Requests, Dequeue(u) PROVE Waits(t, "DELETE")'
  <2>1. Op(u) # "DELETE" /\ Op(u) \in Ops
    BY <1>6 DEF Dequeue, At_, IInv, AnswerOK, TypeOK, Op
  <2>2. queue'["DELETE"] = q
    BY <1>1, <1>6, <2>1 DEF Dequeue
  <2> QED  BY <2>2 DEF Waits
<1> QED
  BY <1>3, <1>4, <1>5, <1>6 DEF Next, Over, Tick, Thread, Spawn, Check, Wake, Acquire, TakeUp, NotYet,
     Finish, DeleteCrash, TakeUpDelete, DeleteNotYet, FinishDelete, vars

\* Who polls was polling before, or has just queued its request.
LEMMA WaitingBefore ==
  ASSUME IInv, [Next]_vars, NEW t \in Requests, pc'[t] \in Waiting
  PROVE  pc[t] \in Waiting \/ Enqueue(t)
<1> SUFFICES ASSUME pc[t] \notin Waiting PROVE Enqueue(t)
  OBVIOUS
<1>1. pc'[t] # pc[t]
  OBVIOUS
<1>2. PICK u \in Requests : Thread(u)
  BY <1>1 DEF Next, Over, Tick, vars
<1>3. pc \in [Requests -> Labels]
  BY DEF IInv, TypeOK
<1>4. u = t
  <2> SUFFICES ASSUME u # t PROVE FALSE
    OBVIOUS
  <2>1. ASSUME NEW l, Goto(u, l) PROVE FALSE
    BY <1>1, <1>3, <2>1 DEF Goto
  <2> QED  BY <1>1, <1>2, <2>1 DEF Thread, Spawn, Check, Enqueue, Wake, Acquire, PruneQueues, Prune, TakeUp,
       NotYet, Dequeue, Finish, DeleteCrash, TakeUpDelete, DeleteNotYet, FinishDelete
<1>5. \A l : Goto(t, l) => pc'[t] = l
  BY <1>3 DEF Goto
<1> USE DEF Waiting, Polling, Holding
<1>6. ~Spawn(t)  BY <1>5 DEF Spawn
<1>7. ~Check(t)  BY <1>5 DEF Check
<1>8. ~Wake(t) /\ ~Acquire(t) /\ ~PruneQueues(t) /\ ~TakeUp(t) /\ ~NotYet(t) /\ ~DeleteCrash(t)
  BY DEF Wake, Acquire, PruneQueues, Prune, TakeUp, NotYet, DeleteCrash, At_
<1>9. ~Dequeue(t) /\ ~Finish(t) /\ ~TakeUpDelete(t) /\ ~DeleteNotYet(t) /\ ~FinishDelete(t)
  BY <1>5 DEF Dequeue, Finish, TakeUpDelete, DeleteNotYet, FinishDelete, At_
<1> QED  BY <1>2, <1>4, <1>6, <1>7, <1>8, <1>9 DEF Thread

LEMMA EntryAlwaysStays == Spec => []EntryStays
<1>1. Init => EntryStays
  BY DEF Init, EntryStays, Waiting, Polling, Holding
<1>2. IInv /\ EntryStays /\ [Next]_vars => EntryStays'
  <2> SUFFICES ASSUME IInv, EntryStays, [Next]_vars, NEW t \in Requests,
                      Op(t)' = "DELETE", pc'[t] \in Waiting, ~TimedOut(t, now)'
               PROVE  Waits(t, "DELETE")'
    BY DEF EntryStays
  <2>1. req' = req /\ (now' = now \/ now' = now + 1)
    BY DEF Next, Over, Tick, Thread, Spawn, Check, Enqueue, Wake, Acquire, PruneQueues, Prune, TakeUp,
       NotYet, Dequeue, Finish, DeleteCrash, TakeUpDelete, DeleteNotYet, FinishDelete, vars
  <2>2. At(t) \in Nat /\ now \in Nat /\ Patience \in Nat
    BY LazyAssumption DEF IInv, TypeOK, At
  <2>3. Op(t) = "DELETE" /\ ~TimedOut(t, now)
    BY <2>1, <2>2 DEF Op, At, TimedOut
  <2>4. CASE pc[t] \in Waiting
    BY <2>3, <2>4, EntryOutlives DEF EntryStays
  <2>5. CASE Enqueue(t)
    <3> DEFINE q == queue["DELETE"]
    <3>1. q \in Seq(Requests) /\ queue'["DELETE"] = Append(q, t)
      BY <2>3, <2>5 DEF IInv, TypeOK, Enqueue, Ops
    <3> HIDE DEF q
    <3>2. Len(q) + 1 \in 1..Len(Append(q, t)) /\ Append(q, t)[Len(q) + 1] = t
      BY <3>1
    <3> QED  BY <3>1, <3>2 DEF Waits
  <2> QED  BY <2>4, <2>5, WaitingBefore
<1> QED  BY <1>1, <1>2, Inductive, PTL DEF Spec

\* The NULL front of lazy_read_write.c:176-178 is met by no delete whose user still
\* waits: all crashes are those of a delete that is overdue when it looks at the queues.
THEOREM CrashesAlwaysOverdue == Spec => []CrashesOnlyOverdue
<1>1. Init => CrashesOnlyOverdue
  BY Zenon DEF Init, CrashesOnlyOverdue
<1>2. IInv /\ EntryStays /\ CrashesOnlyOverdue /\ [Next]_vars => CrashesOnlyOverdue'
  <2> SUFFICES ASSUME IInv, EntryStays, CrashesOnlyOverdue, [Next]_vars
               PROVE  CrashesOnlyOverdue'
    OBVIOUS
  <2>1. ASSUME NEW t \in Requests, DeleteCrash(t) PROVE CrashesOnlyOverdue'
    <3>1. pc[t] = "test" /\ Op(t) = "DELETE" /\ queue["DELETE"] = <<>> /\ UNCHANGED <<req, now, pc>>
      BY <2>1 DEF DeleteCrash, At_, NullFront
    <3>2. ~Waits(t, "DELETE")
      BY <3>1 DEF Waits
    <3>3. TimedOut(t, now)
      BY <3>1, <3>2 DEF EntryStays, Waiting, Holding
    <3> QED  BY <3>1, <3>3 DEF CrashesOnlyOverdue, Overdue, Op, At, TimedOut
  <2>2. CASE UNCHANGED vars
    BY <2>2 DEF CrashesOnlyOverdue, Overdue, Op, At, TimedOut, vars
  <2>3. CASE crashed' = crashed /\ ~crashed
    BY <2>3 DEF CrashesOnlyOverdue
  <2> QED
    BY <2>1, <2>2, <2>3 DEF Next, Over, Tick, Thread, Spawn, Check, Enqueue, Wake, Acquire, PruneQueues,
       Prune, TakeUp, NotYet, Dequeue, Finish, TakeUpDelete, DeleteNotYet, FinishDelete, At_
<1> QED  BY <1>1, <1>2, Inductive, EntryAlwaysStays, PTL DEF Spec
=============================================================================
