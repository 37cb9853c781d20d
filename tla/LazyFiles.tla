----------------------------- MODULE LazyFiles -----------------------------
(***************************************************************************)
(* The threaded file manager src/lazy_read_write.c: main() starts a thread *)
(* per request at its request time; perform_request() queues it on its     *)
(* file, polls until it may be taken up, and accesses the file.            *)
(*                                                                         *)
(* One file is modelled: threads of different files share only the clock.  *)
(* file_lock is held across several steps. A queue lock is only ever held  *)
(* within one step, and its holder waits for another queue lock in one     *)
(* place alone (the delete path, always in the same order), so a step that *)
(* uses a queue is atomic without a variable for the queue's lock.         *)
(*                                                                         *)
(* Time is time(NULL) - start_time in whole seconds. It may pass between   *)
(* any two steps. MaxTime stands for MaxTime or later: every request has   *)
(* expired by then, so later times are indistinguishable.                  *)
(***************************************************************************)
EXTENDS Integers, Sequences, FiniteSets

CONSTANTS
  Requests,         \* the requests (a request and its thread are one)
  Reading, Writing, Deleting,   \* r, w, d: the duration of an operation
  Capacity,         \* c: how many users may access the file at once
  Patience,         \* T: seconds after which a user cancels
  LastRequestTime,  \* bound on request_time
  MaxTime,          \* bound on the clock
  Nobody            \* the holder of a free file_lock

Ops == {"READ", "WRITE", "DELETE"}

ASSUME LazyAssumption ==
  /\ Reading \in Nat /\ Writing \in Nat /\ Deleting \in Nat
  /\ Capacity \in Nat /\ Patience \in Nat /\ LastRequestTime \in Nat
  /\ MaxTime \in Nat /\ MaxTime >= LastRequestTime + Patience
  /\ MaxTime > LastRequestTime
  /\ Nobody \notin Requests
  /\ IsFiniteSet(Requests)

VARIABLES
  req,        \* operation and request_time of each request
  now,        \* time(NULL) - start_time
  pc,         \* where the request's thread stands
  wake,       \* when its sleep() ends
  cur,        \* its local current_time
  queue,      \* request_queue_read, _write and _delete, front first
  isDeleted, readers, writers,   \* is_deleted, active_readers, active_writers
  lock,       \* holder of file_lock
  crashed,    \* a NULL queue front was dereferenced
  late        \* history: a second passed while a new thread was not yet in its queue

vars == <<req, now, pc, wake, cur, queue, isDeleted, readers, writers, lock, crashed, late>>
file == <<isDeleted, readers, writers>>

Op(t) == req[t].op
At(t) == req[t].time
Duration(o) == CASE o = "READ" -> Reading [] o = "WRITE" -> Writing [] OTHER -> Deleting

\* compare_requests(): by time, then READ before WRITE before DELETE.
Rank(o) == CASE o = "READ" -> 0 [] o = "WRITE" -> 1 [] OTHER -> 2
Before(t, u) == At(t) < At(u) \/ (At(t) = At(u) /\ Rank(Op(t)) < Rank(Op(u)))

Init ==
  /\ req \in [Requests -> [op: Ops, time: 0..LastRequestTime]]
  /\ now = 0
  /\ pc = [t \in Requests |-> "unborn"]
  /\ wake = [t \in Requests |-> 0]
  /\ cur = [t \in Requests |-> 0]
  /\ queue = [o \in Ops |-> <<>>]
  /\ isDeleted = FALSE /\ readers = 0 /\ writers = 0
  /\ lock = Nobody
  /\ crashed = FALSE /\ late = FALSE

-----------------------------------------------------------------------------
At_(t, label) == ~crashed /\ pc[t] = label
Goto(t, label) == pc' = [pc EXCEPT ![t] = label]

Sleep(t, seconds) ==
  wake' = [wake EXCEPT ![t] = IF now + seconds > MaxTime THEN MaxTime ELSE now + seconds]
TimedOut(t, time) == time >= At(t) + Patience

\* The creation of a thread up to its enqueue() takes no measurable time on an
\* idle machine and any time on a loaded one.
Arriving(t) == pc[t] \in {"check", "enqueue"} \/ (pc[t] = "unborn" /\ At(t) <= now)

Tick ==
  /\ ~crashed /\ now < MaxTime
  /\ now' = now + 1
  /\ late' = (late \/ \E t \in Requests : Arriving(t))
  /\ UNCHANGED <<req, pc, wake, cur, queue, file, lock, crashed>>

\* main(): the requests are sorted; a thread is created when its time has come
\* and those before it are created.
Spawn(t) ==
  /\ At_(t, "unborn")
  /\ now >= At(t)
  /\ \A u \in Requests : Before(u, t) => pc[u] # "unborn"
  /\ Goto(t, "check")
  /\ UNCHANGED <<req, now, wake, cur, queue, file, lock, crashed, late>>

\* A request for a deleted file is declined at once.
Check(t) ==
  /\ At_(t, "check") /\ lock = Nobody
  /\ Goto(t, IF isDeleted THEN "declined" ELSE "enqueue")
  /\ UNCHANGED <<req, now, wake, cur, queue, file, lock, crashed, late>>

Enqueue(t) ==
  /\ At_(t, "enqueue")
  /\ queue' = [queue EXCEPT ![Op(t)] = Append(@, t)]
  /\ Sleep(t, 1)
  /\ Goto(t, "sleep")
  /\ UNCHANGED <<req, now, cur, file, lock, crashed, late>>

\* Bug variants: the user gives up a second early, or never.
WakeCancelsEarly(t) ==
  /\ At_(t, "sleep") /\ now >= wake[t]
  /\ cur' = [cur EXCEPT ![t] = now]
  /\ Goto(t, IF TimedOut(t, now + 1) THEN "cancelled" ELSE "lock")
  /\ UNCHANGED <<req, now, wake, queue, file, lock, crashed, late>>
WakeNeverCancels(t) ==
  /\ At_(t, "sleep") /\ now >= wake[t]
  /\ cur' = [cur EXCEPT ![t] = now]
  /\ Goto(t, "lock")
  /\ UNCHANGED <<req, now, wake, queue, file, lock, crashed, late>>

\* After the sleep the time is read, and the user cancels when it is too late.
\* The request stays in its queue.
Wake(t) ==
  /\ At_(t, "sleep") /\ now >= wake[t]
  /\ cur' = [cur EXCEPT ![t] = now]
  /\ Goto(t, IF TimedOut(t, now) THEN "cancelled" ELSE "lock")
  /\ UNCHANGED <<req, now, wake, queue, file, lock, crashed, late>>

Acquire(t) ==
  /\ At_(t, "lock") /\ lock = Nobody
  /\ IF isDeleted
     THEN Goto(t, "declined") /\ UNCHANGED lock
     ELSE /\ Goto(t, IF Op(t) = "DELETE" THEN "pruneRead" ELSE "prune")
          /\ lock' = t
  /\ UNCHANGED <<req, now, wake, cur, queue, file, crashed, late>>

-----------------------------------------------------------------------------
\* Bug variant: the pruning drops what has a second left.
FirstValidEarly(q) == LET valid == {i \in 1..Len(q) : ~TimedOut(q[i], now + 1)} IN
                      IF valid = {} THEN Len(q) + 1
                      ELSE CHOOSE i \in valid : \A j \in valid : i <= j

\* remove_invalid_requests(): drop the expired requests at the front, by a fresh
\* reading of the clock.
FirstValid(q) == LET valid == {i \in 1..Len(q) : ~TimedOut(q[i], now)} IN
                 IF valid = {} THEN Len(q) + 1
                 ELSE CHOOSE i \in valid : \A j \in valid : i <= j
WithoutExpired(q) == SubSeq(q, FirstValid(q), Len(q))

Prune(t, label, o, next) ==
  /\ At_(t, label)
  /\ queue' = [queue EXCEPT ![o] = WithoutExpired(@)]
  /\ Goto(t, next)
  /\ UNCHANGED <<req, now, wake, cur, file, lock, crashed, late>>

\* A delete prunes all three queues, a read or a write its own.
PruneQueues(t) ==
  \/ Prune(t, "pruneRead", "READ", "pruneWrite")
  \/ Prune(t, "pruneWrite", "WRITE", "prune")
  \/ Prune(t, "prune", Op(t), "test")

-----------------------------------------------------------------------------
IsFront(t) == queue[Op(t)] # <<>> /\ Head(queue[Op(t)]) = t

HasRoom(o) ==
  /\ readers + writers < Capacity
  /\ o = "WRITE" => writers = 0

\* Bug variant: file_lock is released before dequeue().
TakeUpUnlocks(t) ==
  /\ At_(t, "test") /\ Op(t) # "DELETE"
  /\ IsFront(t) /\ HasRoom(Op(t))
  /\ IF Op(t) = "READ" THEN readers' = readers + 1 /\ UNCHANGED writers
                       ELSE writers' = writers + 1 /\ UNCHANGED readers
  /\ lock' = Nobody
  /\ Goto(t, "dequeue")
  /\ UNCHANGED <<req, now, wake, cur, queue, isDeleted, crashed, late>>

\* A read or a write is taken up: the counter is raised, and file_lock stays held
\* for the dequeue().
TakeUp(t) ==
  /\ At_(t, "test") /\ Op(t) # "DELETE"
  /\ IsFront(t) /\ HasRoom(Op(t))
  /\ IF Op(t) = "READ" THEN readers' = readers + 1 /\ UNCHANGED writers
                       ELSE writers' = writers + 1 /\ UNCHANGED readers
  /\ Goto(t, "dequeue")
  /\ UNCHANGED <<req, now, wake, cur, queue, isDeleted, lock, crashed, late>>

\* Not yet: poll again in a second.
NotYet(t) ==
  /\ At_(t, "test") /\ Op(t) # "DELETE"
  /\ ~(IsFront(t) /\ HasRoom(Op(t)))
  /\ lock' = Nobody
  /\ Sleep(t, 1)
  /\ Goto(t, "sleep")
  /\ UNCHANGED <<req, now, cur, queue, file, crashed, late>>

\* dequeue() pops whatever is in front, or nothing from an empty queue.
Dequeue(t) ==
  /\ At_(t, "dequeue")
  /\ queue' = [queue EXCEPT ![Op(t)] = IF @ = <<>> THEN @ ELSE Tail(@)]
  /\ lock' = Nobody
  /\ Sleep(t, Duration(Op(t)))
  /\ Goto(t, "access")
  /\ UNCHANGED <<req, now, cur, file, crashed, late>>

Finish(t) ==
  /\ At_(t, "access") /\ now >= wake[t] /\ lock = Nobody
  /\ IF Op(t) = "READ" THEN readers' = readers - 1 /\ UNCHANGED writers
                       ELSE writers' = writers - 1 /\ UNCHANGED readers
  /\ Goto(t, "served")
  /\ UNCHANGED <<req, now, wake, cur, queue, isDeleted, lock, crashed, late>>

-----------------------------------------------------------------------------
(* The condition of a delete, evaluated from left to right. It looks at    *)
(* the front of request_queue_delete without asking whether there is one.  *)

Front(o) == Head(queue[o])
\* Bug variant: a delete does not wait for the readers.
NoWriters == writers = 0
NoUsers == readers = 0 /\ writers = 0

\* Bug variant: the comparison with the delete's own time the wrong way round.
PassesSwapped(t, o) ==
  queue[o] # <<>> /\ At(Front(o)) # cur[t] => At(Front(o)) < At(Front("DELETE"))

\* The clause about the read or the write queue: it is empty, its front came this
\* second, or its front came after the delete in front.
Passes(t, o) ==
  queue[o] # <<>> /\ At(Front(o)) # cur[t] => At(Front("DELETE")) < At(Front(o))

\* With no user left every evaluation reaches the delete queue's front.
NullFront(t) ==
  /\ NoUsers /\ queue["DELETE"] = <<>>

MayDelete(t) ==
  /\ NoUsers
  /\ Passes(t, "READ") /\ Passes(t, "WRITE")
  /\ Front("DELETE") = t

DeleteCrash(t) ==
  /\ At_(t, "test") /\ Op(t) = "DELETE" /\ NullFront(t)
  /\ crashed' = TRUE
  /\ UNCHANGED <<req, now, pc, wake, cur, queue, file, lock, late>>

TakeUpDelete(t) ==
  /\ At_(t, "test") /\ Op(t) = "DELETE" /\ ~NullFront(t) /\ MayDelete(t)
  /\ isDeleted' = TRUE
  /\ lock' = Nobody
  /\ Sleep(t, Duration("DELETE"))
  /\ Goto(t, "deleting")
  /\ UNCHANGED <<req, now, cur, queue, readers, writers, crashed, late>>

\* Not yet: sleep(0.5) is sleep(0), the delete polls again at once.
DeleteNotYet(t) ==
  /\ At_(t, "test") /\ Op(t) = "DELETE" /\ ~NullFront(t) /\ ~MayDelete(t)
  /\ lock' = Nobody
  /\ Sleep(t, 0)
  /\ Goto(t, "sleep")
  /\ UNCHANGED <<req, now, cur, queue, file, crashed, late>>

FinishDelete(t) ==
  /\ At_(t, "deleting") /\ now >= wake[t]
  /\ Goto(t, "served")
  /\ UNCHANGED <<req, now, wake, cur, queue, file, lock, crashed, late>>

-----------------------------------------------------------------------------
Final == {"served", "declined", "cancelled"}

\* main() has joined every thread, or the program has crashed.
Over == (crashed \/ \A t \in Requests : pc[t] \in Final) /\ UNCHANGED vars

Thread(t) ==
  \/ Spawn(t) \/ Check(t) \/ Enqueue(t) \/ Wake(t) \/ Acquire(t)
  \/ PruneQueues(t)
  \/ TakeUp(t) \/ NotYet(t) \/ Dequeue(t) \/ Finish(t)
  \/ DeleteCrash(t) \/ TakeUpDelete(t) \/ DeleteNotYet(t) \/ FinishDelete(t)

Next == Tick \/ Over \/ \E t \in Requests : Thread(t)

Spec == Init /\ [][Next]_vars

\* The operating system schedules every thread, and time passes.
Fairness == WF_vars(Tick) /\ \A t \in Requests : WF_vars(Thread(t))
FairSpec == Spec /\ Fairness

-----------------------------------------------------------------------------
(* Properties.                                                             *)

\* The requests that are accessing the file.
Users(o) == {t \in Requests : Op(t) = o /\ pc[t] \in {"dequeue", "access"}}

\* Once is_deleted is set nobody reads or writes the file, and it is deleted once.
NoUseAfterDelete == isDeleted =>
  /\ Users("READ") = {} /\ Users("WRITE") = {}
  /\ \A t, u \in Requests : Op(t) = "DELETE" /\ Op(u) = "DELETE"
        /\ pc[t] \in {"deleting", "served"} /\ pc[u] \in {"deleting", "served"} => t = u

\* The queue lock is released between the look at the front and dequeue(); the
\* request that is popped is still the one that was taken up.
DequeuesItself == \A t \in Requests : pc[t] = "dequeue" => IsFront(t)

\* A cancelled request leaves its entry behind. No such entry can block the queue
\* of a live file: it has expired, so the next poll prunes it.
DeadEntriesExpire == \A o \in Ops : \A i \in 1..Len(queue[o]) :
  pc[queue[o][i]] \in Final => isDeleted \/ TimedOut(queue[o][i], now)

\* While every new thread has reached its queue within the second, a delete is taken
\* up only when no request made before it is still queued, although only the fronts
\* of the queues are compared.
DeleteWaitsItsTurn == [][~late /\ ~isDeleted /\ isDeleted' =>
  \E t \in Requests : /\ pc[t] = "test" /\ pc'[t] = "deleting"
                      /\ \A o \in {"READ", "WRITE"} : \A i \in 1..Len(queue[o]) :
                           At(queue[o][i]) >= At(t)]_vars

\* A delete looks at the queues although its user's patience has ended: it read the
\* clock in time (line 153), then waited for file_lock or pruned, and uses the old time.
Overdue(t) == Op(t) = "DELETE" /\ pc[t] = "test" /\ TimedOut(t, now)

\* The program dereferences a NULL queue front (lazy_read_write.c:176-178) only in a
\* delete whose user's patience ended during its poll. While the user waits, the entry of
\* the delete stays queued, whatever the other threads prune and take up meanwhile.
CrashesOnlyOverdue == crashed => \E t \in Requests : Overdue(t)

\* As long as no delete is overdue when it looks at the queues, every user gets an answer:
\* served, declined or "canceled the request due to no response"
\* (lazy_read_write.c:155). When one is, the program may crash and answer nobody.
EveryoneAnswered == [](\A t \in Requests : ~Overdue(t)) =>
                      \A t \in Requests : <>(pc[t] \in Final)
=============================================================================
