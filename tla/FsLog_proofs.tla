---------------------------- MODULE FsLog_proofs ----------------------------
(* Proofs about FsLog, for any number of processes, blocks and contents,    *)
(* and any capacity of the log: calls, commits and pins, and that FsLog     *)
(* implements AtomicDisk.                                                   *)
EXTENDS FsLog, FiniteSetTheorems, TLAPS

Committing == {"writeLog", "writeHead", "install", "clear", "done"}
Booting == {"readHead", "recover", "recovered"}
Working == {"writeLog", "install", "recover"}

TypeOK ==
  /\ pins \in [Blocks -> Int]
  /\ lh \in Seq(Blocks) /\ head \in Seq(Blocks)
  /\ outstanding \in Int /\ committing \in BOOLEAN
  /\ phase \in Committing \cup Booting \cup {"idle"} /\ tail \in Nat
  /\ pc \in [Procs -> {"idle", "asleep", "woken", "op", "commit"}]
  /\ held \in [Procs -> Blocks \cup {Nobody}]

\* Calls and commits exclude one another.
CallsOK ==
  /\ outstanding = Cardinality(Active)
  /\ committing <=> phase \in Committing
  /\ committing => outstanding = 0
  /\ phase \in Booting => \A p \in Procs : pc[p] = "idle"
  /\ \A p \in Procs : held[p] # Nobody => pc[p] = "op"

\* Where the commit, or the recovery, stands in the header's list.
TailOK ==
  /\ phase \in {"writeLog", "install"} => tail \in 1..Len(lh)
  /\ phase = "recover" => tail \in 1..Len(lh) \/ (lh = <<>> /\ tail = 1)
  /\ phase \in {"writeHead", "readHead"} => tail = 1
  /\ phase = "writeHead" => lh # <<>>
  /\ phase = "done" => lh = <<>>
  /\ phase = "idle" /\ outstanding = 0 => lh = <<>>

PinsOK == /\ PinsExact
          /\ phase \in Booting => \A b \in Blocks : pins[b] = 0

IInv == TypeOK /\ CallsOK /\ TailOK /\ PinsOK /\ SleepersAwaited

-----------------------------------------------------------------------------
LEMMA ActiveFact ==
  /\ IsFiniteSet(Active) /\ Cardinality(Active) \in Nat
  /\ Cardinality(Active) = 0 <=> Active = {}
<1>1. Active \subseteq Procs
  BY DEF Active
<1>2. IsFiniteSet(Active)
  BY <1>1, FsLogAssumption, FS_Subset
<1> QED  BY <1>2, FS_CardinalityType, FS_EmptySet

LEMMA OwedFinite == \A b \in Blocks : TypeOK => IsFiniteSet(Owed(b)) /\ Cardinality(Owed(b)) \in Nat
<1> SUFFICES ASSUME NEW b \in Blocks, TypeOK PROVE IsFiniteSet(Owed(b)) /\ Cardinality(Owed(b)) \in Nat
  OBVIOUS
<1>1. Owed(b) \subseteq 1..Len(lh) /\ Len(lh) \in Nat
  BY DEF Owed, TypeOK
<1>2. IsFiniteSet(1..Len(lh))
  BY <1>1, FS_Interval
<1> QED  BY <1>1, <1>2, FS_Subset, FS_CardinalityType

\* The invariant holds when the kernel has booted from a disk that mkfs made.
THEOREM InitIInv == Init => IInv
<1> SUFFICES ASSUME Init PROVE IInv  OBVIOUS
<1>1. TypeOK
  <2>1. pins \in [Blocks -> Int] /\ outstanding \in Int /\ tail \in Nat  BY DEF Init
  <2>2. lh \in Seq(Blocks) /\ head \in Seq(Blocks)  BY DEF Init
  <2>3. committing \in BOOLEAN  BY Zenon DEF Init
  <2>4. phase \in Booting  BY DEF Init, Booting
  <2>5. pc \in [Procs -> {"idle", "asleep", "woken", "op", "commit"}]  BY DEF Init
  <2>6. held \in [Procs -> Blocks \cup {Nobody}]  BY DEF Init
  <2> QED  BY <2>1, <2>2, <2>3, <2>4, <2>5, <2>6 DEF TypeOK
<1>2. Active = {}
  BY DEF Init, Active
<1>3. CallsOK
  BY <1>2, ActiveFact DEF Init, CallsOK, Committing, Booting
<1>4. TailOK
  BY DEF Init, TailOK
<1>5. PinsOK /\ SleepersAwaited
  BY DEF Init, PinsOK, PinsExact, Up, SleepersAwaited
<1> QED  BY <1>1, <1>3, <1>4, <1>5 DEF IInv

-----------------------------------------------------------------------------
(* The calls.                                                              *)

LEMMA CrashKeeps == ASSUME IInv, Crash PROVE IInv'
<1>1. TypeOK'
  <2>1. pins' \in [Blocks -> Int] /\ outstanding' \in Int /\ tail' \in Nat  BY DEF Crash
  <2>2. lh' \in Seq(Blocks) /\ head' \in Seq(Blocks)  BY DEF Crash, disk, IInv, TypeOK
  <2>3. committing' \in BOOLEAN  BY Zenon DEF Crash
  <2>4. phase' \in Booting  BY DEF Crash, Booting
  <2>5. pc' \in [Procs -> {"idle", "asleep", "woken", "op", "commit"}]  BY DEF Crash
  <2>6. held' \in [Procs -> Blocks \cup {Nobody}]  BY DEF Crash
  <2> QED  BY <2>1, <2>2, <2>3, <2>4, <2>5, <2>6 DEF TypeOK
<1>2. Active' = {}
  BY DEF Crash, Active
<1>3. Cardinality({}) = 0
  BY FS_EmptySet
<1>4. CallsOK'
  BY <1>2, <1>3 DEF Crash, CallsOK, Committing, Booting
<1>5. TailOK'
  BY DEF Crash, TailOK
<1>6. PinsOK' /\ SleepersAwaited'
  BY DEF Crash, PinsOK, PinsExact, Up, SleepersAwaited
<1> QED  BY <1>1, <1>4, <1>5, <1>6 DEF IInv

\* Evict() and Modify() are about the contents of buffers.
LEMMA QuietStep ==
  ASSUME IInv, UNCHANGED <<head, pins, lh, outstanding, committing, phase, tail, pc>>,
         held' \in [Procs -> Blocks \cup {Nobody}],
         \A p \in Procs : held'[p] # Nobody => pc[p] = "op"
  PROVE  IInv'
<1> USE DEF IInv
<1>1. Active' = Active /\ \A b \in Blocks : Owed(b)' = Owed(b)
  BY DEF Active, Owed
<1>2. TypeOK' /\ TailOK' /\ SleepersAwaited'
  BY DEF TypeOK, TailOK, SleepersAwaited
<1>3. CallsOK'
  BY <1>1 DEF CallsOK
<1>4. PinsOK'
  BY <1>1 DEF PinsOK, PinsExact, Up
<1> QED  BY <1>2, <1>3, <1>4

\* A process goes to sleep only while somebody else is active or commits: an
\* empty log has room for one call.
LEMMA BeginOpKeeps == ASSUME IInv, NEW p \in Procs, BeginOp(p) PROVE IInv'
<1> USE DEF IInv
<1>1. /\ UNCHANGED <<head, pins, lh, committing, phase, tail, held>>
      /\ Up /\ pc[p] \in {"idle", "woken"}
  BY DEF BeginOp, disk, call
<1>2. \A b \in Blocks : Owed(b)' = Owed(b)
  BY <1>1 DEF Owed
<1>3. PinsOK'
  BY <1>1, <1>2 DEF PinsOK, PinsExact, Up
<1>4. phase \notin Booting /\ outstanding \in Int /\ outstanding = Cardinality(Active) /\ outstanding \in Nat
  BY <1>1, ActiveFact DEF Up, Booting, TypeOK, CallsOK
<1>5. CASE Admits
  <2>1. /\ outstanding' = outstanding + 1 /\ pc' \in [Procs -> {"idle", "asleep", "woken", "op", "commit"}]
        /\ pc'[p] = "op" /\ \A q \in Procs \ {p} : pc'[q] = pc[q]
    BY <1>5 DEF BeginOp, TypeOK
  <2>2. TypeOK'
    BY <1>1, <1>4, <2>1 DEF TypeOK
  <2>3. Active' = Active \cup {p} /\ p \notin Active
    BY <1>1, <2>1 DEF Active
  <2>4. Cardinality(Active') = Cardinality(Active) + 1
    BY <2>3, ActiveFact, FS_AddElement
  <2>5. ~committing
    BY <1>5 DEF Admits
  <2>6. CallsOK'
    BY <1>1, <1>4, <2>1, <2>4, <2>5 DEF CallsOK, TypeOK
  <2>7. TailOK' /\ SleepersAwaited'
    BY <1>1, <1>4, <2>1 DEF TailOK, SleepersAwaited
  <2> QED  BY <1>3, <2>2, <2>6, <2>7
<1>6. CASE ~Admits
  <2>1. /\ outstanding' = outstanding /\ pc' \in [Procs -> {"idle", "asleep", "woken", "op", "commit"}]
        /\ pc'[p] = "asleep" /\ \A q \in Procs \ {p} : pc'[q] = pc[q]
    BY <1>6 DEF BeginOp, TypeOK
  <2>2. TypeOK'
    BY <1>1, <1>4, <2>1 DEF TypeOK
  <2>3. Active' = Active
    BY <1>1, <2>1 DEF Active
  <2>4. CallsOK'
    BY <1>1, <1>4, <2>1, <2>3 DEF CallsOK, TypeOK
  <2>5. outstanding > 0 \/ committing
    <3> SUFFICES ASSUME outstanding = 0, ~committing PROVE FALSE
      BY <1>4
    <3>1. phase = "idle"
      BY <1>4 DEF CallsOK, TypeOK
    <3>2. Len(lh) = 0
      BY <3>1 DEF TailOK
    <3> QED  BY <1>6, <3>2, FsLogAssumption DEF Admits
  <2>6. TailOK' /\ SleepersAwaited'
    BY <1>1, <2>1, <2>5 DEF TailOK, SleepersAwaited
  <2> QED  BY <1>3, <2>2, <2>4, <2>6
<1> QED  BY <1>5, <1>6

\* log_write() pins the buffer when it enters the block, and not again.
LEMMA LogWriteKeeps == ASSUME IInv, NEW p \in Procs, LogWrite(p) PROVE IInv'
<1> USE DEF IInv
<1>1. /\ UNCHANGED <<head, outstanding, committing, phase, tail, pc>>
      /\ pc[p] = "op" /\ held[p] # Nobody
  BY DEF LogWrite, disk
<1>2. PICK b \in Blocks : held[p] = b
  BY <1>1 DEF TypeOK
<1>3. p \in Active
  BY <1>1 DEF Active
<1>4. outstanding > 0 /\ phase \notin Committing \cup Booting /\ phase = "idle"
  BY <1>1, <1>3, ActiveFact DEF CallsOK, TypeOK, Active
<1>5. Up /\ phase # "install" /\ phase # "clear"
  BY <1>4 DEF Up
<1>6. /\ lh' = Logged(b) /\ pins' = [pins EXCEPT ![b] = Pinned(b)]
      /\ held' = [held EXCEPT ![p] = Nobody]
  BY <1>2 DEF LogWrite
<1>7. lh \in Seq(Blocks) /\ Len(lh) \in Nat
  BY DEF TypeOK
<1>8. PinsOK'
  <2>1. CASE b \in Listed(lh)
    <3>1. lh' = lh /\ pins' = pins
      BY <1>6, <2>1 DEF Logged, Pinned, TypeOK
    <3>2. \A c \in Blocks : Owed(c)' = Owed(c)
      BY <1>1, <3>1 DEF Owed
    <3> QED  BY <1>1, <1>4, <1>5, <3>1, <3>2 DEF PinsOK, PinsExact, Up, Booting, Committing
  <2>2. CASE b \notin Listed(lh)
    <3>1. lh' = Append(lh, b)
      BY <1>6, <2>2 DEF Logged
    <3>2. /\ Len(lh') = Len(lh) + 1 /\ lh'[Len(lh) + 1] = b
          /\ \A i \in 1..Len(lh) : lh'[i] = lh[i] /\ lh[i] # b
      BY <1>7, <2>2, <3>1 DEF Listed
    <3>3. Owed(b) = {} /\ Owed(b)' = {Len(lh) + 1}
      BY <1>1, <1>5, <1>7, <3>2 DEF Owed
    <3>4. Cardinality(Owed(b)) = 0 /\ Cardinality(Owed(b)') = 1
      BY <3>3, FS_EmptySet, FS_Singleton
    <3>5. \A c \in Blocks \ {b} : Owed(c)' = Owed(c)
      BY <1>1, <1>5, <1>7, <3>2 DEF Owed
    <3>6. /\ pins'[b] = pins[b] + 1 /\ \A c \in Blocks \ {b} : pins'[c] = pins[c]
      BY <1>6, <2>2 DEF Pinned, TypeOK
    <3>7. pins[b] = 0
      BY <1>5, <3>4 DEF PinsOK, PinsExact
    <3>8. \A c \in Blocks : pins'[c] = Cardinality(Owed(c)')
      BY <1>5, <3>4, <3>5, <3>6, <3>7 DEF PinsOK, PinsExact
    <3> QED  BY <1>1, <1>4, <3>8 DEF PinsOK, PinsExact, Booting, Committing
  <2> QED  BY <2>1, <2>2
<1>9. TypeOK'
  <2>1. lh' \in Seq(Blocks)
    BY <1>6, <1>7 DEF Logged
  <2>2. pins' \in [Blocks -> Int]
    BY <1>6 DEF TypeOK, Pinned
  <2> QED  BY <1>1, <1>6, <2>1, <2>2 DEF TypeOK
<1>10. Active' = Active
  BY <1>1 DEF Active
<1>11. \A q \in Procs : held'[q] # Nobody => held[q] # Nobody
  BY <1>6 DEF TypeOK
<1>12. CallsOK'
  BY <1>1, <1>10, <1>11 DEF CallsOK
<1>13. TailOK' /\ SleepersAwaited'
  BY <1>1, <1>4 DEF TailOK, SleepersAwaited
<1> QED  BY <1>8, <1>9, <1>12, <1>13

LEMMA EndOpKeeps == ASSUME IInv, NEW p \in Procs, EndOp(p) PROVE IInv'
<1> USE DEF IInv
<1>1. /\ UNCHANGED <<head, pins, lh, held>>
      /\ pc[p] = "op" /\ held[p] = Nobody /\ outstanding' = outstanding - 1
  BY DEF EndOp, disk
<1>2. p \in Active /\ outstanding \in Nat /\ outstanding > 0
  BY <1>1, ActiveFact DEF CallsOK, Active
<1>3. phase = "idle" /\ ~committing
  BY <1>1, <1>2 DEF CallsOK, TypeOK
<1>4. Up
  BY <1>3 DEF Up
<1>5. /\ pc' \in [Procs -> {"idle", "asleep", "woken", "op", "commit"}] /\ pc'[p] # "op"
      /\ \A q \in Procs \ {p} : pc'[q] = "op" <=> pc[q] = "op"
  BY DEF EndOp, Woken, TypeOK
<1>6. Active' = Active \ {p}
  BY <1>1, <1>5 DEF Active
<1>7. Cardinality(Active') = Cardinality(Active) - 1
  BY <1>2, <1>6, ActiveFact, FS_RemoveElement
<1>8. \A q \in Procs : held'[q] # Nobody => pc'[q] = "op"
  BY <1>1, <1>5 DEF CallsOK
<1>9. CASE Last
  <2>1. /\ committing' = TRUE /\ phase' = IF lh = <<>> THEN "done" ELSE "writeLog"
        /\ tail' = 1 /\ outstanding' = 0
    BY <1>1, <1>9 DEF EndOp, Last
  <2>2. phase' \in Committing /\ phase' \notin Booting /\ phase' \notin {"install", "clear"}
    BY <2>1 DEF Committing, Booting
  <2>3. committing' \in BOOLEAN
    BY Zenon, <2>1
  <2>4. TypeOK'
    BY <1>1, <1>5, <2>1, <2>2, <2>3 DEF TypeOK
  <2>5. CallsOK'
    <3>1. outstanding' = Cardinality(Active')
      BY <1>1, <1>2, <1>7 DEF CallsOK
    <3>2. committing' <=> phase' \in Committing
      BY Zenon, <2>1, <2>2
    <3> QED  BY <1>8, <2>1, <2>2, <3>1, <3>2 DEF CallsOK
  <2>6. TailOK'
    <3>1. lh # <<>> => Len(lh) \in Nat /\ Len(lh) >= 1
      BY DEF TypeOK
    <3> QED  BY <1>1, <2>1, <3>1 DEF TailOK
  <2>7. \A b \in Blocks : Owed(b)' = Owed(b)
    BY <1>1, <1>3, <2>2 DEF Owed
  <2>8. PinsOK'
    BY <1>1, <1>4, <2>2, <2>7 DEF PinsOK, PinsExact
  <2>9. SleepersAwaited'
    BY <2>1 DEF SleepersAwaited
  <2> QED  BY <2>4, <2>5, <2>6, <2>8, <2>9
<1>10. CASE ~Last
  <2>1. /\ committing' = committing /\ phase' = phase /\ tail' = tail /\ outstanding' > 0
        /\ outstanding' \in Int
    BY <1>1, <1>2, <1>10 DEF EndOp, Last
  <2>2. TypeOK'
    BY <1>1, <1>5, <2>1 DEF TypeOK
  <2>3. CallsOK'
    BY <1>1, <1>3, <1>7, <1>8, <2>1 DEF CallsOK, Booting
  <2>4. TailOK' /\ SleepersAwaited'
    BY <1>1, <1>3, <2>1 DEF TailOK, SleepersAwaited
  <2>5. \A b \in Blocks : Owed(b)' = Owed(b)
    BY <1>1, <2>1 DEF Owed
  <2>6. PinsOK'
    BY <1>1, <2>1, <2>5 DEF PinsOK, PinsExact, Up
  <2> QED  BY <2>2, <2>3, <2>4, <2>6
<1> QED  BY <1>9, <1>10

-----------------------------------------------------------------------------
(* The commit and the recovery.                                            *)

\* The commit goes on, and nobody calls meanwhile.
LEMMA CommitStep ==
  ASSUME IInv, UNCHANGED <<outstanding, committing, pc, held>>,
         phase' \in Committing \cup Booting,
         phase \in Committing <=> phase' \in Committing,
         phase' \in Booting => phase \in Booting
  PROVE  CallsOK' /\ SleepersAwaited'
<1>1. Active' = Active
  BY DEF Active
<1>2. SleepersAwaited'
  BY DEF IInv, SleepersAwaited
<1>3. CallsOK'
  BY <1>1 DEF IInv, CallsOK
<1> QED  BY <1>2, <1>3

LEMMA WriteLogKeeps == ASSUME IInv, WriteLog PROVE IInv'
<1> USE DEF IInv
<1>1. /\ UNCHANGED <<head, pins, lh, outstanding, committing, pc, held>> /\ phase = "writeLog"
  BY DEF WriteLog, call
<1>2. tail \in 1..Len(lh) /\ lh \in Seq(Blocks) /\ Len(lh) \in Nat /\ lh # <<>>
  BY <1>1 DEF TailOK, TypeOK
<1>3. \/ phase' = "writeLog" /\ tail' \in 1..Len(lh)
      \/ phase' = "writeHead" /\ tail' = 1
  BY <1>1, <1>2 DEF WriteLog, Step, AfterLog
<1>4. TypeOK'
  BY <1>1, <1>2, <1>3 DEF TypeOK, Committing
<1>5. CallsOK' /\ SleepersAwaited'
  BY <1>1, <1>3, CommitStep DEF Committing, Booting
<1>6. TailOK'
  BY <1>1, <1>2, <1>3 DEF TailOK
<1>7. \A b \in Blocks : Owed(b)' = Owed(b)
  BY <1>1, <1>3 DEF Owed
<1>8. PinsOK'
  BY <1>1, <1>3, <1>7 DEF PinsOK, PinsExact, Up, Booting
<1> QED  BY <1>4, <1>5, <1>6, <1>8

LEMMA WriteHeadKeeps == ASSUME IInv, WriteHead PROVE IInv'
<1> USE DEF IInv
<1>1. /\ UNCHANGED <<pins, lh, outstanding, committing, tail, pc, held>> /\ phase = "writeHead"
      /\ head' = lh /\ phase' = "install"
  BY DEF WriteHead, call
<1>2. tail = 1 /\ lh \in Seq(Blocks) /\ Len(lh) \in Nat /\ lh # <<>>
  BY <1>1 DEF TailOK, TypeOK
<1>3. TypeOK'
  BY <1>1, <1>2 DEF TypeOK, Committing
<1>4. CallsOK' /\ SleepersAwaited'
  BY <1>1, CommitStep DEF Committing, Booting
<1>5. TailOK'
  BY <1>1, <1>2 DEF TailOK
<1>6. \A b \in Blocks : Owed(b)' = Owed(b)
  BY <1>1, <1>2 DEF Owed
<1>7. PinsOK'
  BY <1>1, <1>6 DEF PinsOK, PinsExact, Up, Booting
<1> QED  BY <1>3, <1>4, <1>5, <1>7

\* Each turn of install_trans() takes back the pin of one entry; recovery has none.
LEMMA InstallKeeps == ASSUME IInv, Install PROVE IInv'
<1> USE DEF IInv
<1>1. /\ UNCHANGED <<head, lh, outstanding, committing, pc, held>>
      /\ phase \in {"install", "recover"} /\ lh # <<>>
  BY DEF Install, call
<1>2. tail \in 1..Len(lh) /\ lh \in Seq(Blocks) /\ Len(lh) \in Nat
  BY <1>1 DEF TailOK, TypeOK
<1>3. PICK b \in Blocks : b = lh[tail]
  BY <1>2
<1>4. CASE home[b] # Torn
  <2>1. UNCHANGED <<pins, phase, tail>>
    BY <1>3, <1>4 DEF Install
  <2>2. TypeOK' /\ TailOK'
    BY <1>1, <2>1 DEF TypeOK, TailOK
  <2>3. CallsOK' /\ SleepersAwaited'
    BY <1>1, <2>1, CommitStep DEF Committing, Booting
  <2>4. \A c \in Blocks : Owed(c)' = Owed(c)
    BY <1>1, <2>1 DEF Owed
  <2>5. PinsOK'
    BY <1>1, <2>1, <2>4 DEF PinsOK, PinsExact, Up
  <2> QED  BY <2>2, <2>3, <2>5
<1>5. CASE home[b] = Torn
  <2>1. pins' = [pins EXCEPT ![b] = Unpinned(b)]
    BY <1>3, <1>5 DEF Install
  <2>2. \/ tail < Len(lh) /\ tail' = tail + 1 /\ phase' = phase
        \/ tail = Len(lh) /\ tail' = 1 /\ phase' = IF phase = "install" THEN "clear" ELSE "recovered"
    BY <1>2, <1>3, <1>5 DEF Install, Step
  <2>3. TypeOK'
    <3>1. pins' \in [Blocks -> Int]
      BY <2>1 DEF TypeOK, Unpinned
    <3>2. tail' \in Nat /\ phase' \in Committing \cup Booting \cup {"idle"}
      BY <1>1, <1>2, <2>2 DEF Committing, Booting
    <3> QED  BY <1>1, <3>1, <3>2 DEF TypeOK
  <2>4. CallsOK' /\ SleepersAwaited'
    BY <1>1, <2>2, CommitStep DEF Committing, Booting
  <2>5. TailOK'
    BY <1>1, <1>2, <2>2 DEF TailOK
  <2>6. CASE phase = "recover"
    <3>1. pins' = pins /\ phase' \in Booting
      BY <2>1, <2>2, <2>6 DEF Unpinned, TypeOK, Booting
    <3> QED  BY <2>3, <2>4, <2>5, <2>6, <3>1 DEF PinsOK, PinsExact, Up, Booting
  <2>7. CASE phase = "install"
    <3>1. \A c \in Blocks : pins[c] = Cardinality(Owed(c))
      BY <2>7 DEF PinsOK, PinsExact, Up
    <3>2. pins'[b] = pins[b] - 1 /\ \A c \in Blocks \ {b} : pins'[c] = pins[c]
      BY <2>1, <2>7 DEF Unpinned, TypeOK
    <3>3. tail \in Owed(b) /\ \A c \in Blocks \ {b} : tail \notin Owed(c)
      BY <1>2, <1>3, <2>7 DEF Owed
    <3>4. \A c \in Blocks : Owed(c)' = Owed(c) \ {tail}
      BY <1>1, <1>2, <2>2, <2>7 DEF Owed
    <3>5. Cardinality(Owed(b) \ {tail}) = Cardinality(Owed(b)) - 1
      BY <3>3, OwedFinite, FS_RemoveElement
    <3>6. \A c \in Blocks \ {b} : Owed(c)' = Owed(c)
      BY <3>3, <3>4
    <3>7. \A c \in Blocks : pins'[c] = Cardinality(Owed(c)')
      BY <3>1, <3>2, <3>4, <3>5, <3>6
    <3>8. PinsOK'
      BY <2>2, <2>7, <3>7 DEF PinsOK, PinsExact, Booting
    <3> QED  BY <2>3, <2>4, <2>5, <3>8
  <2> QED  BY <1>1, <2>6, <2>7
<1> QED  BY <1>4, <1>5

LEMMA NoneOwed == ASSUME lh = <<>> \/ phase = "clear" PROVE \A b \in Blocks : Cardinality(Owed(b)) = 0
<1>1. \A b \in Blocks : Owed(b) = {}
  BY DEF Owed
<1> QED  BY <1>1, FS_EmptySet

LEMMA ClearKeeps == ASSUME IInv, Clear PROVE IInv'
<1> USE DEF IInv
<1>1. /\ UNCHANGED <<pins, outstanding, committing, tail, pc, held>>
      /\ phase \in {"clear", "recovered", "recover"} /\ phase' = IF phase = "clear" THEN "done" ELSE "idle"
      /\ lh' = <<>> /\ head' = <<>>
  BY DEF Clear, call
<1>2. \A b \in Blocks : pins[b] = 0
  BY <1>1, NoneOwed DEF PinsOK, PinsExact, Up, Booting
<1>3. \A b \in Blocks : Cardinality(Owed(b)') = 0
  <2>1. \A b \in Blocks : Owed(b)' = {}
    BY <1>1 DEF Owed
  <2> QED  BY <2>1, FS_EmptySet
<1>4. PinsOK'
  BY <1>1, <1>2, <1>3 DEF PinsOK, PinsExact, Booting
<1>5. TypeOK'
  <2>1. lh' \in Seq(Blocks) /\ head' \in Seq(Blocks)  BY <1>1
  <2> QED  BY <1>1, <2>1 DEF TypeOK, Committing
<1>6. Active' = Active
  BY <1>1 DEF Active
<1>7. CallsOK'
  BY <1>1, <1>6 DEF CallsOK, Committing, Booting
<1>8. TailOK' /\ SleepersAwaited'
  BY <1>1 DEF TailOK, SleepersAwaited
<1> QED  BY <1>4, <1>5, <1>7, <1>8

\* The end of end_op() wakes everybody.
LEMMA DoneKeeps == ASSUME IInv, NEW p \in Procs, Done(p) PROVE IInv'
<1> USE DEF IInv
<1>1. /\ UNCHANGED <<head, pins, lh, outstanding, tail, held>>
      /\ phase = "done" /\ committing' = FALSE /\ phase' = "idle" /\ pc[p] = "commit"
  BY DEF Done, disk, call
<1>2. /\ pc' \in [Procs -> {"idle", "asleep", "woken", "op", "commit"}]
      /\ \A q \in Procs : pc'[q] # "asleep" /\ (pc'[q] = "op" <=> pc[q] = "op")
  BY <1>1 DEF Done, Woken, TypeOK
<1>3. Active' = Active
  BY <1>2 DEF Active
<1>4. committing' \in BOOLEAN
  BY Zenon, <1>1
<1>5. TypeOK'
  BY <1>1, <1>2, <1>4 DEF TypeOK
<1>6. CallsOK'
  BY <1>1, <1>2, <1>3 DEF CallsOK, Committing, Booting
<1>7. TailOK' /\ SleepersAwaited'
  BY <1>1, <1>2 DEF TailOK, SleepersAwaited
<1>8. \A b \in Blocks : Owed(b)' = Owed(b)
  BY <1>1 DEF Owed
<1>9. PinsOK'
  BY <1>1, <1>8 DEF PinsOK, PinsExact, Up, Booting
<1> QED  BY <1>5, <1>6, <1>7, <1>9

LEMMA ReadHeadKeeps == ASSUME IInv, ReadHead PROVE IInv'
<1> USE DEF IInv
<1>1. /\ UNCHANGED <<head, pins, outstanding, committing, tail, pc, held>>
      /\ phase = "readHead" /\ phase' = "recover" /\ lh' = head
  BY DEF ReadHead, disk, call
<1>2. TypeOK'
  BY <1>1 DEF TypeOK, Booting
<1>3. CallsOK' /\ SleepersAwaited'
  BY <1>1, CommitStep DEF Committing, Booting
<1>4. TailOK'
  <2>1. tail = 1 /\ (lh' # <<>> => Len(lh') \in Nat /\ Len(lh') >= 1)
    BY <1>1 DEF TailOK, TypeOK
  <2> QED  BY <1>1, <2>1 DEF TailOK
<1>5. PinsOK'
  BY <1>1 DEF PinsOK, PinsExact, Up, Booting
<1> QED  BY <1>2, <1>3, <1>4, <1>5

LEMMA StepKeeps == ASSUME IInv, [Next]_vars PROVE IInv'
<1>0. IInv /\ held \in [Procs -> Blocks \cup {Nobody}]
  BY DEF IInv, TypeOK
<1>1. CASE UNCHANGED vars
  BY <1>0, <1>1, QuietStep DEF vars, disk, call, IInv, CallsOK
<1>2. ASSUME NEW b \in Blocks, Evict(b) PROVE IInv'
  BY <1>0, <1>2, QuietStep DEF Evict, disk, call, IInv, CallsOK
<1>3. ASSUME NEW p \in Procs, NEW b \in Blocks, NEW v \in Values, Modify(p, b, v) PROVE IInv'
  BY <1>0, <1>3, QuietStep DEF Modify, disk, IInv, CallsOK
<1> QED
  BY <1>1, <1>2, <1>3, CrashKeeps, BeginOpKeeps, LogWriteKeeps, EndOpKeeps, DoneKeeps, WriteLogKeeps,
     WriteHeadKeeps, InstallKeeps, ClearKeeps, ReadHeadKeeps DEF Next

\* The invariant holds in every reachable state: every step of a call, of the commit and
\* of the recovery keeps it, and so does a crash (log.c:52-224).
THEOREM Inductive == Spec => []IInv
BY InitIInv, StepKeeps, PTL DEF Spec

\* A buffer is pinned as often as the log needs it, whatever calls overlap.
THEOREM PinsAlwaysExact == Spec => []PinsExact
<1>1. IInv => PinsExact
  BY DEF IInv, PinsOK
<1> QED  BY <1>1, Inductive, PTL

\* No process waits in begin_op() for a wakeup nobody will send.
THEOREM SleepersAlwaysAwaited == Spec => []SleepersAwaited
<1>1. IInv => SleepersAwaited
  BY DEF IInv
<1> QED  BY <1>1, Inductive, PTL

-----------------------------------------------------------------------------
(* FsLog implements AtomicDisk: what the log, the caches and the disk hold  *)
(* at each stage of a commit and of a recovery.                             *)

Unique(s) == \A i, j \in 1..Len(s) : s[i] = s[j] => i = j

DataOK ==
  /\ home \in [Blocks -> Values \cup {Torn}]
  /\ slot \in [Slots -> Values \cup {Torn}]
  /\ cache \in [Blocks -> Values \cup {Absent}]
  /\ Unique(lh) /\ Len(lh) <= LOGSIZE

\* What survives a crash: a block is whole at home unless the header lists it, and
\* then it is whole in the log.
HeadOK ==
  /\ Unique(head) /\ Len(head) <= LOGSIZE
  /\ \A i \in 1..Len(head) : slot[i] \in Values
  /\ \A b \in Blocks : b \notin Listed(head) => home[b] \in Values

Settling == {"install", "clear", "recover", "recovered"}
PhaseOK ==
  /\ phase \in {"idle", "writeLog", "writeHead", "done"} => head = <<>>
  /\ phase \in Settling => head = lh
  /\ phase = "readHead" => lh = <<>> /\ \A b \in Blocks : cache[b] = Absent

\* Only the blocks of the log, and one that a call is changing, differ from the disk.
Held(b) == \E p \in Procs : held[p] = b
CleanOK == \A b \in Blocks :
  b \notin Listed(lh) /\ ~Held(b) => cache[b] \in {Absent, home[b]}

\* Before the commit their buffers stay, and the log gets copies.
Copied(i) == (phase = "writeLog" /\ i < tail) \/ phase = "writeHead"
DirtyOK ==
  /\ \A b \in Blocks : Held(b) => cache[b] # Absent
  /\ phase \in {"idle", "writeLog", "writeHead"} =>
       \A i \in 1..Len(lh) : cache[lh[i]] # Absent /\ (Copied(i) => slot[i] = cache[lh[i]])

\* After it, and in a recovery, the copies go home one by one.
Installed(i) == (phase \in {"install", "recover"} /\ i < tail) \/ phase \in {"clear", "recovered"}
InstallOK == phase \in Settling => \A i \in 1..Len(lh) :
  IF Installed(i) THEN home[lh[i]] = slot[i] /\ cache[lh[i]] \in {Absent, slot[i]}
                  ELSE cache[lh[i]] = IF phase = "install" THEN slot[i] ELSE Absent

DInv == DataOK /\ HeadOK /\ PhaseOK /\ CleanOK /\ DirtyOK /\ InstallOK

Stutter == Recovered' = Recovered /\ View' = View /\ Active' = Active

-----------------------------------------------------------------------------
(* What the disk recovers to.                                              *)

LEMMA RecoveredIs ==
  ASSUME head \in Seq(Blocks), Unique(head)
  PROVE  /\ \A i \in 1..Len(head) : Recovered[head[i]] = slot[i]
         /\ \A b \in Blocks : b \notin Listed(head) => Recovered[b] = home[b]
<1>1. ASSUME NEW i \in 1..Len(head) PROVE Recovered[head[i]] = slot[i]
  <2>1. PICK b \in Blocks : b = head[i]
    OBVIOUS
  <2>2. b \in Listed(head)
    BY <2>1 DEF Listed
  <2> DEFINE k == CHOOSE j \in 1..Len(head) : head[j] = b
  <2>3. k \in 1..Len(head) /\ head[k] = b
    BY <2>1
  <2>4. k = i
    BY <2>1, <2>3 DEF Unique
  <2>5. Recovered[b] = slot[k]
    BY <2>2 DEF Recovered
  <2> QED  BY <2>1, <2>4, <2>5
<1>2. \A b \in Blocks : b \notin Listed(head) => Recovered[b] = home[b]
  BY DEF Recovered
<1> QED  BY <1>1, <1>2

LEMMA RecoveredSame ==
  ASSUME head' = head, \A i \in 1..Len(head) : slot'[i] = slot[i],
         \A b \in Blocks : b \notin Listed(head) => home'[b] = home[b]
  PROVE  Recovered' = Recovered
<1>1. ASSUME NEW b \in Blocks, b \in Listed(head) PROVE slot'[CHOOSE j \in 1..Len(head) : head[j] = b] = slot[CHOOSE j \in 1..Len(head) : head[j] = b]
  <2>1. \E j \in 1..Len(head) : head[j] = b
    BY <1>1 DEF Listed
  <2>2. (CHOOSE j \in 1..Len(head) : head[j] = b) \in 1..Len(head)
    BY <2>1
  <2> QED  BY <2>2
<1>2. Listed(head') = Listed(head)
  OBVIOUS
<1> QED  BY <1>1, <1>2 DEF Recovered

LEMMA ViewSame ==
  ASSUME Up, Up', \A b \in Blocks : Read(b)' = Read(b)
  PROVE  View' = View
BY DEF View

LEMMA IdleFact ==
  ASSUME IInv, NEW p \in Procs, pc[p] = "op"
  PROVE  phase = "idle" /\ Up /\ p \in Active /\ ~committing
<1>1. p \in Active
  BY DEF Active
<1>2. outstanding # 0
  BY <1>1, ActiveFact DEF IInv, CallsOK
<1>3. phase = "idle" /\ ~committing
  BY <1>2 DEF IInv, CallsOK, TypeOK
<1> QED  BY <1>1, <1>3 DEF Up

LEMMA NoneHeld ==
  ASSUME IInv, committing \/ phase \in Booting
  PROVE  \A b \in Blocks : ~Held(b)
<1>1. \A p \in Procs : pc[p] # "op"
  BY IdleFact DEF IInv, CallsOK, Booting
<1>2. \A p \in Procs : held[p] = Nobody
  BY <1>1 DEF IInv, CallsOK
<1> QED  BY <1>2, FsLogAssumption DEF Held

-----------------------------------------------------------------------------
\* A disk that mkfs made is clean, and recovers to itself.
THEOREM InitDInv == Init => DInv /\ Recovered \in [Blocks -> Values] /\ View = Recovered /\ Active = {}
<1> SUFFICES ASSUME Init
             PROVE  DInv /\ Recovered \in [Blocks -> Values] /\ View = Recovered /\ Active = {}
  OBVIOUS
<1>1. head = <<>> /\ lh = <<>> /\ phase = "readHead" /\ home \in [Blocks -> Values]
  BY DEF Init
<1>2. Listed(head) = {} /\ Listed(lh) = {}
  BY <1>1 DEF Listed
<1>3. DataOK
  BY <1>1, FsLogAssumption DEF Init, DataOK, Unique
<1>4. HeadOK /\ PhaseOK /\ InstallOK
  BY <1>1, FsLogAssumption DEF Init, HeadOK, PhaseOK, InstallOK, Unique, Settling
<1>5. CleanOK /\ DirtyOK
  BY <1>1, FsLogAssumption DEF Init, CleanOK, DirtyOK, Held
<1>6. Recovered = home
  BY <1>1, <1>2 DEF Recovered
<1>7. View = Recovered /\ Active = {}
  BY <1>1 DEF View, Up, Active, Init
<1> QED  BY <1>1, <1>3, <1>4, <1>5, <1>6, <1>7 DEF DInv

-----------------------------------------------------------------------------
(* The calls.                                                              *)

LEMMA CrashMaps ==
  ASSUME DInv, Crash
  PROVE  DInv' /\ Recovered' = Recovered /\ View' = Recovered /\ Active' = {}
<1> USE DEF DInv
<1>1. /\ home' = home /\ slot' = slot /\ head' = head /\ lh' = <<>> /\ phase' = "readHead"
      /\ cache' = [b \in Blocks |-> Absent] /\ held' = [p \in Procs |-> Nobody]
  BY DEF Crash, disk
<1>2. DataOK'
  BY <1>1, FsLogAssumption DEF DataOK, Unique
<1>3. HeadOK'
  BY <1>1 DEF HeadOK
<1>4. PhaseOK' /\ InstallOK'
  BY <1>1 DEF PhaseOK, InstallOK, Settling
<1>5. CleanOK' /\ DirtyOK'
  BY <1>1, FsLogAssumption DEF CleanOK, DirtyOK, Held
<1>6. Recovered' = Recovered
  BY <1>1, RecoveredSame
<1>7. View' = Recovered' /\ Active' = {}
  BY <1>1 DEF View, Up, Active, Crash
<1> QED  BY <1>2, <1>3, <1>4, <1>5, <1>6, <1>7

\* A buffer that is evicted holds what is at home: the others are pinned or held.
LEMMA EvictMaps ==
  ASSUME IInv, DInv, NEW b \in Blocks, Evict(b)
  PROVE  DInv' /\ Stutter
<1> USE DEF DInv
<1>1. /\ UNCHANGED <<home, slot, head, lh, phase, tail, pc, held>>
      /\ cache' = [cache EXCEPT ![b] = Absent] /\ cache[b] # Absent
      /\ pins[b] = 0 /\ ~Held(b)
  BY DEF Evict, disk, call, MayEvict, Held
<1>2. cache'[b] = Absent /\ \A c \in Blocks \ {b} : cache'[c] = cache[c]
  BY <1>1 DEF DataOK
<1>3. ASSUME NEW i \in 1..Len(lh), lh[i] = b, Up PROVE Installed(i) /\ phase \in Settling
  <2>1. Owed(b) = {}
    BY <1>1, <1>3, OwedFinite, FS_EmptySet DEF IInv, PinsOK, PinsExact
  <2>2. i \notin Owed(b)
    BY <2>1
  <2> QED  BY <1>3, <2>2 DEF Owed, Installed, IInv, TypeOK, Settling
<1>4. cache[b] = home[b]
  <2>1. CASE b \notin Listed(lh)
    BY <1>1, <2>1 DEF CleanOK
  <2>2. CASE b \in Listed(lh)
    <3>1. PICK i \in 1..Len(lh) : lh[i] = b
      BY <2>2 DEF Listed
    <3>2. CASE Up
      BY <1>1, <1>3, <3>1, <3>2 DEF InstallOK
    <3>3. CASE ~Up
      BY <1>1, <3>1, <3>3 DEF InstallOK, PhaseOK, Up, Settling
    <3> QED  BY <3>2, <3>3
  <2> QED  BY <2>1, <2>2
<1>5. DataOK' /\ HeadOK' /\ PhaseOK'
  <2>1. cache' \in [Blocks -> Values \cup {Absent}]
    BY <1>1 DEF DataOK
  <2>2. \A c \in Blocks : cache[c] = Absent => cache'[c] = Absent
    BY <1>2
  <2> QED  BY <1>1, <2>1, <2>2 DEF DataOK, HeadOK, PhaseOK
<1>6. CleanOK'
  BY <1>1, <1>2 DEF CleanOK, Held
<1>7. DirtyOK'
  <2>1. \A c \in Blocks : Held(c)' => cache'[c] # Absent
    BY <1>1, <1>2 DEF DirtyOK, Held
  <2>2. phase \in {"idle", "writeLog", "writeHead"} => Up /\ phase \notin Settling
    BY DEF Up, Settling
  <2>3. \A i \in 1..Len(lh) : lh[i] \in Blocks
    BY DEF IInv, TypeOK
  <2>4. phase \in {"idle", "writeLog", "writeHead"} => \A i \in 1..Len(lh) : cache'[lh[i]] = cache[lh[i]]
    BY <1>2, <1>3, <2>2, <2>3
  <2> QED  BY <1>1, <2>1, <2>4 DEF DirtyOK, Copied
<1>8. InstallOK'
  <2> SUFFICES ASSUME phase \in Settling, NEW i \in 1..Len(lh)
               PROVE  IF Installed(i) THEN home[lh[i]] = slot[i] /\ cache'[lh[i]] \in {Absent, slot[i]}
                      ELSE cache'[lh[i]] = IF phase = "install" THEN slot[i] ELSE Absent
    BY <1>1 DEF InstallOK, Installed
  <2>1. lh[i] \in Blocks
    BY DEF IInv, TypeOK
  <2>2. CASE lh[i] # b
    BY <1>2, <2>1, <2>2 DEF InstallOK
  <2>3. CASE lh[i] = b
    <3>1. phase = "install" => Up
      BY DEF Up
    <3> QED  BY <1>2, <1>3, <2>3, <3>1 DEF InstallOK
  <2> QED  BY <2>2, <2>3
<1>9. Recovered' = Recovered /\ Active' = Active
  BY <1>1, RecoveredSame DEF Active
<1>10. \A c \in Blocks : Read(c)' = Read(c)
  BY <1>1, <1>2, <1>4 DEF Read
<1>11. View' = View
  BY <1>1, <1>9, <1>10, ViewSame DEF View, Up
<1> QED  BY <1>5, <1>6, <1>7, <1>8, <1>9, <1>11 DEF Stutter

\* Steps that touch neither disk nor buffers, where the log stays as it is.
LEMMA QuietMaps ==
  ASSUME IInv, DInv, UNCHANGED <<home, slot, head, cache, lh, held>>,
         (phase' = phase /\ tail' = tail) \/ (phase = "idle" /\ phase' = "writeLog" /\ tail' = 1)
           \/ (phase = "idle" /\ phase' = "done") \/ (phase = "done" /\ phase' = "idle" /\ lh = <<>>)
  PROVE  DInv' /\ Recovered' = Recovered /\ View' = View
<1> USE DEF DInv
<1>1. DataOK' /\ HeadOK' /\ CleanOK'
  BY DEF DataOK, HeadOK, CleanOK, Held
<1>2. PhaseOK' /\ InstallOK'
  BY DEF PhaseOK, InstallOK, Settling, Installed
<1>3. DirtyOK'
  <2>1. \A i \in 1..Len(lh) : Copied(i)' => Copied(i)
    BY DEF Copied, IInv, TypeOK
  <2> QED  BY <2>1 DEF DirtyOK, Held
<1>4. Recovered' = Recovered
  BY RecoveredSame
<1>5. View' = View
  BY <1>4 DEF View, Up, Read
<1> QED  BY <1>1, <1>2, <1>3, <1>4, <1>5

LEMMA ModifyMaps ==
  ASSUME IInv, DInv, NEW p \in Procs, NEW b \in Blocks, NEW v \in Values, Modify(p, b, v)
  PROVE  /\ DInv' /\ Recovered' = Recovered /\ View' = [View EXCEPT ![b] = v]
         /\ Active' = Active /\ p \in Active
<1> USE DEF DInv
<1>1. /\ UNCHANGED <<home, slot, head, lh, phase, tail, pc>>
      /\ cache' = [cache EXCEPT ![b] = v] /\ held' = [held EXCEPT ![p] = b]
      /\ pc[p] = "op" /\ held[p] = Nobody
  BY DEF Modify, disk
<1>2. phase = "idle" /\ Up /\ p \in Active
  BY <1>1, IdleFact
<1>3. cache'[b] = v /\ (\A c \in Blocks \ {b} : cache'[c] = cache[c]) /\ v # Absent
  BY <1>1, FsLogAssumption DEF DataOK
<1>4. Held(b)' /\ \A c \in Blocks \ {b} : Held(c)' <=> Held(c)
  BY <1>1, FsLogAssumption DEF Held, IInv, TypeOK
<1>5. DataOK' /\ HeadOK' /\ PhaseOK' /\ InstallOK'
  <2>1. cache' \in [Blocks -> Values \cup {Absent}]
    BY <1>1 DEF DataOK
  <2> QED  BY <1>1, <1>2, <2>1 DEF DataOK, HeadOK, PhaseOK, InstallOK, Settling
<1>6. CleanOK'
  BY <1>1, <1>3, <1>4 DEF CleanOK
<1>7. DirtyOK'
  <2>1. \A i \in 1..Len(lh) : lh[i] \in Blocks /\ ~Copied(i)'
    BY <1>1, <1>2 DEF IInv, TypeOK, Copied
  <2> QED  BY <1>1, <1>2, <1>3, <1>4, <2>1 DEF DirtyOK
<1>8. Recovered' = Recovered /\ Active' = Active
  BY <1>1, RecoveredSame DEF Active
<1>9. \A c \in Blocks : Read(c)' = IF c = b THEN v ELSE Read(c)
  BY <1>1, <1>3 DEF Read
<1>10. View' = [View EXCEPT ![b] = v]
  <2>1. Up'
    BY <1>1, <1>2 DEF Up
  <2>2. View' = [c \in Blocks |-> Read(c)'] /\ View = [c \in Blocks |-> Read(c)]
    BY <1>2, <2>1 DEF View
  <2> QED  BY <1>9, <2>2
<1> QED  BY <1>2, <1>5, <1>6, <1>7, <1>8, <1>10

\* A held buffer becomes an entry of the log.
LEMMA LogWriteMaps ==
  ASSUME IInv, DInv, NEW p \in Procs, LogWrite(p)
  PROVE  DInv' /\ Stutter
<1> USE DEF DInv
<1>1. /\ UNCHANGED <<home, slot, head, cache, phase, tail, pc>>
      /\ pc[p] = "op" /\ held[p] # Nobody /\ held' = [held EXCEPT ![p] = Nobody]
  BY DEF LogWrite, disk
<1>2. PICK b \in Blocks : held[p] = b
  BY <1>1 DEF IInv, TypeOK
<1>3. phase = "idle" /\ Up
  BY <1>1, IdleFact
<1>4. lh' = Logged(b) /\ Len(lh) < LOGSIZE
  BY <1>2, FsLogAssumption DEF LogWrite, TooBig, DataOK
<1>5. Held(b) /\ cache[b] # Absent
  BY <1>2 DEF Held, DirtyOK
<1>6. \A c \in Blocks : Held(c)' => Held(c)
  BY <1>1, FsLogAssumption DEF Held, IInv, TypeOK
<1>7. \A c \in Blocks \ {b} : Held(c) => Held(c)'
  BY <1>1, <1>2 DEF Held, IInv, TypeOK
<1>8. /\ lh' \in Seq(Blocks) /\ Unique(lh') /\ Len(lh') <= LOGSIZE
      /\ b \in Listed(lh') /\ Listed(lh) \subseteq Listed(lh')
      /\ \A i \in 1..Len(lh') : cache[lh'[i]] # Absent
  <2>0. lh \in Seq(Blocks) /\ Unique(lh) /\ \A i \in 1..Len(lh) : cache[lh[i]] # Absent
    BY <1>3 DEF IInv, TypeOK, DataOK, DirtyOK
  <2>1. CASE b \in Listed(lh)
    BY <1>4, <2>0, <2>1, FsLogAssumption DEF Logged
  <2>2. CASE b \notin Listed(lh)
    <3>1. lh' = Append(lh, b)
      BY <1>4, <2>2 DEF Logged
    <3>2. /\ Len(lh') = Len(lh) + 1 /\ lh'[Len(lh) + 1] = b
          /\ \A i \in 1..Len(lh) : lh'[i] = lh[i] /\ lh[i] # b
      BY <2>0, <2>2, <3>1 DEF Listed
    <3>3. lh' \in Seq(Blocks) /\ Len(lh) \in Nat
      BY <2>0, <3>1
    <3>4. \A i \in 1..Len(lh') : i \in 1..Len(lh) \/ i = Len(lh) + 1
      BY <3>2, <3>3
    <3>5. Unique(lh')
      BY <2>0, <3>2, <3>4 DEF Unique
    <3>6. \A i \in 1..Len(lh') : cache[lh'[i]] # Absent
      BY <1>5, <2>0, <3>2, <3>4
    <3>7. Len(lh') <= LOGSIZE
      BY <1>4, <3>2, <3>3, FsLogAssumption
    <3>8. b \in Listed(lh') /\ Listed(lh) \subseteq Listed(lh')
      BY <3>2, <3>3 DEF Listed
    <3> QED  BY <3>3, <3>5, <3>6, <3>7, <3>8
  <2> QED  BY <2>1, <2>2
<1>9. DataOK' /\ HeadOK'
  BY <1>1, <1>8 DEF DataOK, HeadOK
<1>10. PhaseOK' /\ InstallOK'
  BY <1>1, <1>3 DEF PhaseOK, InstallOK, Settling
<1>11. CleanOK'
  BY <1>1, <1>7, <1>8 DEF CleanOK
<1>12. DirtyOK'
  BY <1>1, <1>3, <1>6, <1>8 DEF DirtyOK, Copied
<1>13. Stutter
  <2>1. Recovered' = Recovered /\ Active' = Active
    BY <1>1, RecoveredSame DEF Active
  <2> QED  BY <1>1, <2>1 DEF Stutter, View, Up, Read
<1> QED  BY <1>9, <1>10, <1>11, <1>12, <1>13

LEMMA BeginOpMaps ==
  ASSUME IInv, DInv, NEW p \in Procs, BeginOp(p)
  PROVE  DInv' /\ Recovered' = Recovered /\ View' = View /\ Active' \in {Active, Active \cup {p}}
<1>1. DInv' /\ Recovered' = Recovered /\ View' = View
  BY QuietMaps DEF BeginOp, disk, call
<1>2. pc \in [Procs -> {"idle", "asleep", "woken", "op", "commit"}] /\ pc[p] # "op"
  BY DEF IInv, TypeOK, BeginOp
<1>3. Active' \in {Active, Active \cup {p}}
  <2>1. CASE Admits
    <3>1. pc'[p] = "op" /\ \A q \in Procs \ {p} : pc'[q] = pc[q]
      BY <1>2, <2>1 DEF BeginOp
    <3>2. Active' = Active \cup {p}
      BY <3>1 DEF Active
    <3> QED  BY <3>2
  <2>2. CASE ~Admits
    <3>1. pc'[p] # "op" /\ \A q \in Procs \ {p} : pc'[q] = pc[q]
      BY <1>2, <2>2 DEF BeginOp
    <3>2. Active' = Active
      BY <1>2, <3>1 DEF Active
    <3> QED  BY <3>2
  <2> QED  BY <2>1, <2>2
<1> QED  BY <1>1, <1>3

LEMMA EndOpMaps ==
  ASSUME IInv, DInv, NEW p \in Procs, EndOp(p)
  PROVE  DInv' /\ Recovered' = Recovered /\ View' = View /\ Active' = Active \ {p}
<1>1. pc[p] = "op" /\ UNCHANGED <<home, slot, head, cache, lh, held>>
  BY DEF EndOp, disk
<1>2. phase = "idle"
  BY <1>1, IdleFact
<1>3. DInv' /\ Recovered' = Recovered /\ View' = View
  <2>1. CASE ~Last
    BY <1>1, <2>1, QuietMaps DEF EndOp
  <2>2. CASE Last
    <3>1. tail' = 1 /\ phase' \in {"done", "writeLog"}
      BY <2>2 DEF EndOp
    <3> QED  BY <1>1, <1>2, <3>1, QuietMaps
  <2> QED  BY <2>1, <2>2
<1>4. pc'[p] # "op" /\ \A q \in Procs \ {p} : pc'[q] = "op" <=> pc[q] = "op"
  BY DEF EndOp, Woken, IInv, TypeOK
<1>5. Active' = Active \ {p}
  BY <1>4 DEF Active
<1> QED  BY <1>3, <1>5

LEMMA DoneMaps ==
  ASSUME IInv, DInv, NEW p \in Procs, Done(p)
  PROVE  DInv' /\ Stutter
<1>1. lh = <<>>
  BY DEF IInv, TailOK, Done
<1>2. DInv' /\ Recovered' = Recovered /\ View' = View
  BY <1>1, QuietMaps DEF Done, disk, call
<1>3. \A q \in Procs : pc'[q] = "op" <=> pc[q] = "op"
  BY DEF Done, Woken, IInv, TypeOK
<1>4. Active' = Active
  BY <1>3 DEF Active
<1> QED  BY <1>2, <1>4 DEF Stutter

-----------------------------------------------------------------------------
(* The commit and the recovery.                                            *)

\* Nothing depends on the log's copies until the header lists them.
LEMMA WriteLogMaps == ASSUME IInv, DInv, WriteLog PROVE DInv' /\ Stutter
<1> USE DEF DInv
<1>1. UNCHANGED <<home, head, cache, lh, pc, held>> /\ phase = "writeLog" /\ head = <<>>
  BY DEF WriteLog, call, PhaseOK
<1>2. tail \in 1..Len(lh) /\ Len(lh) \in Nat /\ tail \in Slots
  BY <1>1, FsLogAssumption DEF IInv, TailOK, TypeOK, DataOK, Slots
<1>3. PICK b \in Blocks : b = lh[tail]
  BY <1>2 DEF IInv, TypeOK
<1>4. cache[b] \in Values /\ Read(b) = cache[b]
  BY <1>1, <1>2, <1>3 DEF DirtyOK, DataOK, Read
<1>5. /\ slot' \in [Slots -> Values \cup {Torn}] /\ \A i \in Slots \ {tail} : slot'[i] = slot[i]
      /\ \/ phase' = phase /\ tail' = tail
         \/ /\ slot'[tail] = cache[b]
            /\ \/ phase' = "writeLog" /\ tail' = tail + 1
               \/ phase' = "writeHead" /\ tail' = 1 /\ tail = Len(lh)
  BY <1>1, <1>2, <1>3, <1>4 DEF WriteLog, Step, AfterLog, DataOK
<1>6. phase' \in {"writeLog", "writeHead"}
  BY <1>1, <1>5
<1>7. DataOK' /\ PhaseOK' /\ CleanOK' /\ InstallOK'
  BY <1>1, <1>5, <1>6 DEF DataOK, PhaseOK, CleanOK, InstallOK, Settling, Held
<1>8. HeadOK'
  BY <1>1 DEF HeadOK
<1>9. DirtyOK'
  <2>1. ASSUME NEW i \in 1..Len(lh), Copied(i)' PROVE slot'[i] = cache[lh[i]]
    <3>1. i \in Slots /\ i \in Nat
      BY <1>2, FsLogAssumption DEF DataOK, Slots
    <3>2. CASE i = tail
      <4>1. ~(phase' = phase /\ tail' = tail)
        BY <1>1, <1>2, <2>1, <3>2 DEF Copied
      <4> QED  BY <1>3, <1>5, <3>2, <4>1
    <3>3. CASE i # tail
      <4>1. Copied(i)
        BY <1>1, <1>2, <1>5, <2>1, <3>1, <3>3 DEF Copied
      <4> QED  BY <1>1, <1>5, <3>1, <3>3, <4>1 DEF DirtyOK
    <3> QED  BY <3>2, <3>3
  <2> QED  BY <1>1, <2>1 DEF DirtyOK, Held
<1>10. Stutter
  <2>1. Recovered' = Recovered /\ Active' = Active
    BY <1>1, RecoveredSame DEF Active
  <2>2. Up /\ Up'
    BY <1>1, <1>6 DEF Up
  <2> QED  BY <1>1, <2>1, <2>2, ViewSame DEF Stutter, Read
<1> QED  BY <1>7, <1>8, <1>9, <1>10

\* The header's write is the commit: the log's copies are what the calls see.
LEMMA WriteHeadMaps ==
  ASSUME IInv, DInv, WriteHead
  PROVE  DInv' /\ Recovered' = View /\ View' = View /\ Active' = Active /\ Active = {}
<1> USE DEF DInv
<1>1. /\ UNCHANGED <<home, slot, cache, lh, tail, pc, held>>
      /\ phase = "writeHead" /\ head' = lh /\ phase' = "install" /\ head = <<>>
  BY DEF WriteHead, call, PhaseOK
<1>2. /\ tail = 1 /\ lh \in Seq(Blocks) /\ Unique(lh) /\ Len(lh) <= LOGSIZE /\ Len(lh) \in Nat
      /\ committing /\ outstanding = 0
  BY <1>1 DEF IInv, TailOK, TypeOK, CallsOK, Committing, DataOK
<1>3. (\A b \in Blocks : ~Held(b)) /\ Active = {}
  BY <1>2, NoneHeld, ActiveFact DEF IInv, CallsOK
<1>4. \A i \in 1..Len(lh) : lh[i] \in Blocks /\ cache[lh[i]] # Absent /\ slot[i] = cache[lh[i]] /\ slot[i] \in Values
  BY <1>1, <1>2 DEF DirtyOK, Copied, DataOK
<1>5. \A b \in Blocks : b \notin Listed(lh) => Read(b) = home[b]
  BY <1>3 DEF CleanOK, Read
<1>6. DataOK' /\ PhaseOK'
  BY <1>1 DEF DataOK, PhaseOK, Settling
<1>7. HeadOK'
  <2>1. \A b \in Blocks : home[b] \in Values
    BY <1>1 DEF HeadOK, Listed
  <2> QED  BY <1>1, <1>2, <1>4, <2>1 DEF HeadOK
<1>8. CleanOK' /\ DirtyOK'
  BY <1>1, <1>3 DEF CleanOK, DirtyOK, Held
<1>9. InstallOK'
  BY <1>1, <1>2, <1>4 DEF InstallOK, Installed
<1>10. Active' = Active /\ Up /\ Up'
  BY <1>1 DEF Active, Up
<1>11. View' = View
  BY <1>1, <1>10, ViewSame DEF Read
<1>12. ASSUME NEW b \in Blocks PROVE Recovered'[b] = Read(b)
  <2>1. CASE b \in Listed(lh)
    <3>1. \E i \in 1..Len(lh) : lh[i] = b
      BY <2>1 DEF Listed
    <3>2. PICK k \in 1..Len(lh) : lh[k] = b /\ k = CHOOSE i \in 1..Len(lh) : lh[i] = b
      BY <3>1
    <3>3. Recovered'[b] = slot[k]
      BY <1>1, <2>1, <3>2 DEF Recovered
    <3> QED  BY <1>4, <3>2, <3>3 DEF Read
  <2>2. CASE b \notin Listed(lh)
    <3>1. Recovered'[b] = home[b]
      BY <1>1, <2>2 DEF Recovered
    <3> QED  BY <1>5, <2>2, <3>1
  <2> QED  BY <2>1, <2>2
<1>13. Recovered' = View
  <2>1. View = [b \in Blocks |-> Read(b)]
    BY <1>10 DEF View
  <2>2. Recovered' = [b \in Blocks |-> Recovered'[b]]
    BY DEF Recovered
  <2> QED  BY <1>12, <2>1, <2>2
<1> QED  BY <1>3, <1>6, <1>7, <1>8, <1>9, <1>10, <1>11, <1>13

\* While a block goes home it is whole in the log, and its buffer holds the same.
LEMMA InstallMaps == ASSUME IInv, DInv, Install PROVE DInv' /\ Stutter
<1> USE DEF DInv
<1>1. /\ UNCHANGED <<slot, head, lh, pc, held>> /\ phase \in {"install", "recover"}
      /\ phase \in Settling /\ head = lh /\ lh # <<>>
  BY DEF Install, call, PhaseOK, Settling
<1>2. /\ tail \in 1..Len(lh) /\ Len(lh) \in Nat /\ Unique(lh)
      /\ \A i \in 1..Len(lh) : lh[i] \in Blocks /\ slot[i] \in Values /\ slot[i] \notin {Torn, Absent}
  BY <1>1, FsLogAssumption DEF IInv, TailOK, TypeOK, DataOK, HeadOK
<1>3. PICK b \in Blocks : b = lh[tail]
  BY <1>2
<1>4. b \in Listed(lh) /\ \A i \in 1..Len(lh) : i # tail => lh[i] # b
  BY <1>2, <1>3 DEF Listed, Unique
<1>5. \A c \in Blocks : ~Held(c) /\ ~Held(c)'
  <2>1. committing \/ phase \in Booting
    BY <1>1 DEF IInv, CallsOK, Committing, Booting
  <2> QED  BY <1>1, <2>1, NoneHeld DEF Held
<1>6. cache[b] = IF phase = "install" THEN slot[tail] ELSE Absent
  BY <1>1, <1>2, <1>3 DEF InstallOK, Installed
<1>7. /\ home' \in [Blocks -> Values \cup {Torn}] /\ cache' \in [Blocks -> Values \cup {Absent}]
      /\ \A c \in Blocks \ {b} : home'[c] = home[c] /\ cache'[c] = cache[c]
      /\ \/ cache' = cache /\ phase' = phase /\ tail' = tail
         \/ /\ home'[b] = slot[tail] /\ cache'[b] = slot[tail]
            /\ \/ phase' = phase /\ tail' = tail + 1
               \/ phase' = (IF phase = "install" THEN "clear" ELSE "recovered") /\ tail = Len(lh)
  <2>1. CASE home[b] # Torn
    <3>1. home' = [home EXCEPT ![b] = Torn] /\ cache' = cache /\ phase' = phase /\ tail' = tail
      BY <1>3, <2>1 DEF Install
    <3> QED  BY <3>1 DEF DataOK
  <2>2. CASE home[b] = Torn
    <3>1. /\ home' = [home EXCEPT ![b] = slot[tail]] /\ cache' = [cache EXCEPT ![b] = slot[tail]]
          /\ Step(IF phase = "install" THEN "clear" ELSE "recovered")
      BY <1>3, <2>2 DEF Install
    <3>2. \/ phase' = phase /\ tail' = tail + 1
          \/ phase' = (IF phase = "install" THEN "clear" ELSE "recovered") /\ tail = Len(lh)
      BY <1>2, <3>1 DEF Step
    <3> QED  BY <1>2, <3>1, <3>2 DEF DataOK
  <2> QED  BY <2>1, <2>2
<1>8. phase' \in {"install", "recover", "clear", "recovered"} /\ (phase \in {"install", "clear"} <=> phase' \in {"install", "clear"})
  BY <1>1, <1>7
<1>9. DataOK' /\ PhaseOK' /\ DirtyOK'
  BY <1>1, <1>5, <1>7, <1>8 DEF DataOK, PhaseOK, DirtyOK, Settling
<1>10. HeadOK' /\ CleanOK'
  BY <1>1, <1>4, <1>5, <1>7 DEF HeadOK, CleanOK
<1>11. InstallOK'
  <2> SUFFICES ASSUME NEW i \in 1..Len(lh)
               PROVE  IF Installed(i)' THEN home'[lh[i]] = slot[i] /\ cache'[lh[i]] \in {Absent, slot[i]}
                      ELSE cache'[lh[i]] = IF phase' = "install" THEN slot[i] ELSE Absent
    BY <1>1 DEF InstallOK
  <2>1. IF Installed(i) THEN home[lh[i]] = slot[i] /\ cache[lh[i]] \in {Absent, slot[i]}
        ELSE cache[lh[i]] = IF phase = "install" THEN slot[i] ELSE Absent
    BY <1>1 DEF InstallOK
  <2>2. Installed(i) <=> i < tail
    BY <1>1 DEF Installed
  <2>3. CASE i = tail
    BY <1>1, <1>2, <1>3, <1>6, <1>7, <2>3 DEF Installed
  <2>4. CASE i # tail
    <3>1. lh[i] \in Blocks \ {b}
      BY <1>2, <1>4, <2>4
    <3>2. home'[lh[i]] = home[lh[i]] /\ cache'[lh[i]] = cache[lh[i]]
      BY <1>7, <3>1
    <3>3. (Installed(i)' <=> Installed(i)) /\ (~Installed(i)' => phase' = phase)
      BY <1>1, <1>2, <1>7, <2>2, <2>4 DEF Installed
    <3> QED  BY <2>1, <3>2, <3>3
  <2> QED  BY <2>3, <2>4
<1>12. Recovered' = Recovered /\ Active' = Active
  BY <1>1, <1>4, <1>7, RecoveredSame DEF Active
<1>13. View' = View
  <2>1. CASE phase = "recover"
    <3>1. ~Up /\ ~Up'
      BY <1>7, <2>1 DEF Up
    <3> QED  BY <1>12, <3>1 DEF View
  <2>2. CASE phase = "install"
    <3>1. Up /\ Up'
      BY <1>7, <2>2 DEF Up
    <3>2. cache[b] = slot[tail] /\ cache'[b] = slot[tail] /\ slot[tail] # Absent
      BY <1>2, <1>6, <1>7, <2>2
    <3>3. \A c \in Blocks : Read(c)' = Read(c)
      BY <1>7, <3>2 DEF Read
    <3> QED  BY <3>1, <3>3, ViewSame
  <2> QED  BY <1>1, <2>1, <2>2
<1> QED  BY <1>9, <1>10, <1>11, <1>12, <1>13 DEF Stutter

\* The log may be erased when every block is at home.
LEMMA ClearMaps == ASSUME IInv, DInv, Clear PROVE DInv' /\ Stutter
<1> USE DEF DInv
<1>1. /\ UNCHANGED <<home, slot, cache, tail, pc, held>> /\ lh' = <<>> /\ head' = <<>>
      /\ phase \in {"clear", "recovered"} \/ (phase = "recover" /\ lh = <<>>)
      /\ phase' = IF phase = "clear" THEN "done" ELSE "idle"
  BY DEF Clear, call
<1>2. phase \in Settling /\ head = lh /\ head \in Seq(Blocks) /\ Unique(head)
  BY <1>1 DEF Settling, PhaseOK, IInv, TypeOK, DataOK
<1>3. \A b \in Blocks : ~Held(b) /\ ~Held(b)'
  <2>1. committing \/ phase \in Booting
    BY <1>1 DEF IInv, CallsOK, Committing, Booting
  <2> QED  BY <1>1, <2>1, NoneHeld DEF Held
<1>4. \A i \in 1..Len(lh) : home[lh[i]] = slot[i] /\ slot[i] \in Values /\ cache[lh[i]] \in {Absent, slot[i]}
  <2>1. \A i \in 1..Len(lh) : Installed(i)
    BY <1>1 DEF Installed
  <2> QED  BY <1>2, <2>1 DEF InstallOK, HeadOK
<1>5. ASSUME NEW b \in Blocks PROVE home[b] \in Values /\ cache[b] \in {Absent, home[b]} /\ Recovered[b] = home[b]
  <2>1. CASE b \in Listed(lh)
    <3>1. PICK i \in 1..Len(lh) : lh[i] = b
      BY <2>1 DEF Listed
    <3>2. Recovered[head[i]] = slot[i]
      BY <1>2, <3>1, RecoveredIs
    <3> QED  BY <1>2, <1>4, <3>1, <3>2
  <2>2. CASE b \notin Listed(lh)
    <3>1. Recovered[b] = home[b]
      BY <1>2, <2>2, RecoveredIs
    <3> QED  BY <1>2, <1>3, <2>2, <3>1 DEF HeadOK, CleanOK
  <2> QED  BY <2>1, <2>2
<1>6. Len(lh') = 0 /\ Listed(lh') = {} /\ Listed(head') = {}
  BY <1>1 DEF Listed
<1>7. DataOK' /\ HeadOK'
  BY <1>1, <1>5, <1>6, FsLogAssumption DEF DataOK, HeadOK, Unique
<1>8. PhaseOK' /\ InstallOK'
  BY <1>1 DEF PhaseOK, InstallOK, Settling
<1>9. CleanOK' /\ DirtyOK'
  BY <1>1, <1>3, <1>5, <1>6 DEF CleanOK, DirtyOK
<1>10. Recovered' = Recovered
  <2>1. \A b \in Blocks : Recovered'[b] = home[b]
    BY <1>1, <1>6 DEF Recovered
  <2>2. Recovered' = [b \in Blocks |-> Recovered'[b]] /\ Recovered = [b \in Blocks |-> Recovered[b]]
    BY DEF Recovered
  <2> QED  BY <1>5, <2>1, <2>2
<1>11. View' = View
  <2>1. View' = [b \in Blocks |-> Read(b)']
    BY <1>1 DEF View, Up
  <2>2. \A b \in Blocks : Read(b)' = home[b] /\ Read(b) = home[b]
    BY <1>1, <1>5 DEF Read
  <2>3. View = [b \in Blocks |-> home[b]]
    <3>1. CASE Up
      BY <2>2, <3>1 DEF View
    <3>2. CASE ~Up
      <4>1. View = Recovered /\ Recovered = [b \in Blocks |-> Recovered[b]]
        BY <3>2 DEF View, Recovered
      <4> QED  BY <1>5, <4>1
    <3> QED  BY <3>1, <3>2
  <2> QED  BY <2>1, <2>2, <2>3
<1>12. Active' = Active
  BY <1>1 DEF Active
<1> QED  BY <1>7, <1>8, <1>9, <1>10, <1>11, <1>12 DEF Stutter

LEMMA ReadHeadMaps == ASSUME IInv, DInv, ReadHead PROVE DInv' /\ Stutter
<1> USE DEF DInv
<1>1. /\ UNCHANGED <<home, slot, head, cache, tail, pc, held>> /\ lh' = head
      /\ phase = "readHead" /\ phase' = "recover" /\ tail = 1
      /\ \A b \in Blocks : cache[b] = Absent
  BY DEF ReadHead, disk, call, PhaseOK, IInv, TailOK
<1>2. \A b \in Blocks : ~Held(b) /\ ~Held(b)'
  <2>1. phase \in Booting
    BY <1>1 DEF Booting
  <2> QED  BY <1>1, <2>1, NoneHeld DEF Held
<1>3. head \in Seq(Blocks) /\ Len(head) \in Nat /\ \A i \in 1..Len(head) : head[i] \in Blocks
  BY DEF IInv, TypeOK
<1>4. DataOK' /\ HeadOK' /\ PhaseOK'
  BY <1>1 DEF DataOK, HeadOK, PhaseOK, Settling
<1>5. CleanOK' /\ DirtyOK'
  BY <1>1, <1>2 DEF CleanOK, DirtyOK
<1>6. InstallOK'
  BY <1>1, <1>3 DEF InstallOK, Installed
<1>7. Recovered' = Recovered /\ Active' = Active
  BY <1>1, RecoveredSame DEF Active
<1>8. View' = View
  BY <1>1, <1>7 DEF View, Up
<1> QED  BY <1>4, <1>5, <1>6, <1>7, <1>8 DEF Stutter

-----------------------------------------------------------------------------
(* Every step of the log is a step of the atomic disk, or none.            *)

LEMMA StepMaps ==
  ASSUME IInv, DInv, [Next]_vars
  PROVE  DInv' /\ [Atomic!Next]_<<Recovered, View, Active>>
<1> USE DEF Atomic!Next
<1>1. CASE UNCHANGED vars
  <2>1. DInv' /\ Recovered' = Recovered /\ View' = View
    BY <1>1, QuietMaps DEF vars, disk, call
  <2>2. Active' = Active
    BY <1>1 DEF vars, Active
  <2> QED  BY <2>1, <2>2
<1>2. CASE Crash
  BY <1>2, CrashMaps DEF Atomic!Crash
<1>3. ASSUME Stutter PROVE [Atomic!Next]_<<Recovered, View, Active>>
  BY <1>3 DEF Stutter
<1>4. ASSUME NEW b \in Blocks, Evict(b) PROVE DInv' /\ Stutter
  BY <1>4, EvictMaps
<1>5. ASSUME NEW p \in Procs, BeginOp(p) PROVE DInv' /\ [Atomic!Next]_<<Recovered, View, Active>>
  BY <1>5, BeginOpMaps DEF Atomic!Begin
<1>6. ASSUME NEW p \in Procs, NEW b \in Blocks, NEW v \in Values, Modify(p, b, v)
      PROVE DInv' /\ [Atomic!Next]_<<Recovered, View, Active>>
  BY <1>6, ModifyMaps DEF Atomic!Update
<1>7. ASSUME NEW p \in Procs, LogWrite(p) \/ Done(p) PROVE DInv' /\ Stutter
  BY <1>7, LogWriteMaps, DoneMaps
<1>8. ASSUME NEW p \in Procs, EndOp(p) PROVE DInv' /\ [Atomic!Next]_<<Recovered, View, Active>>
  BY <1>8, EndOpMaps DEF Atomic!End
<1>9. CASE WriteHead
  BY <1>9, WriteHeadMaps DEF Atomic!Commit
<1>10. ASSUME WriteLog \/ Install \/ Clear \/ ReadHead PROVE DInv' /\ Stutter
  BY <1>10, WriteLogMaps, InstallMaps, ClearMaps, ReadHeadMaps
<1> QED
  BY <1>1, <1>2, <1>3, <1>4, <1>5, <1>6, <1>7, <1>8, <1>9, <1>10 DEF Next

\* A crash at any step, also in a commit or in a recovery, leaves the disk as the last
\* commit made it; a commit takes the updates of all calls since the one before it, and
\* happens while no call is active.
THEOREM LogIsAtomic == Spec => AllOrNothing
<1>1. Init => DInv /\ Atomic!Init
  BY InitDInv DEF Atomic!Init
<1>2. IInv /\ DInv /\ [Next]_vars => DInv' /\ [Atomic!Next]_<<Recovered, View, Active>>
  BY StepMaps
<1> QED  BY <1>1, <1>2, Inductive, PTL DEF Spec, AllOrNothing, Atomic!Spec
=============================================================================
