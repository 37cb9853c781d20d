------------------------------- MODULE FsLog -------------------------------
(***************************************************************************)
(* The file-system log, cow_xv6/src/kernel/log.c (initial-xv6 has the same *)
(* file), over the part of bio.c it relies on: a cached block stays in the *)
(* cache while it is locked or pinned, and may be dropped otherwise.       *)
(*                                                                         *)
(* Several processes run file system calls between begin_op() and end_op();*)
(* the last one to end commits for all. bwrite() returns when the disk has *)
(* the block, so writes reach the disk in program order; a crash in the    *)
(* middle of one leaves a torn block. The header is the exception: its 124 *)
(* bytes lie in one sector. A crash can strike at any step, recovery       *)
(* included.                                                               *)
(***************************************************************************)
EXTENDS Integers, Sequences, FiniteSets

CONSTANTS
  Procs,
  Blocks,        \* blocks outside the log
  Values,        \* what a block may contain
  MAXOPBLOCKS,   \* what begin_op() reserves for a call
  OpBlocks,      \* the most blocks a call really writes
  LOGSIZE,       \* entries of the header
  LogBlocks,     \* sb.nlog: blocks of the log on disk, header included
  Torn, Absent, Nobody

ASSUME FsLogAssumption ==
  /\ MAXOPBLOCKS \in Nat \ {0} /\ OpBlocks \in 0..MAXOPBLOCKS
  /\ LOGSIZE \in Nat /\ MAXOPBLOCKS <= LOGSIZE /\ LogBlocks \in Nat \ {0}
  /\ IsFiniteSet(Procs)
  /\ Torn \notin Values /\ Absent \notin Values \cup {Torn} /\ Nobody \notin Blocks

VARIABLES
  home,          \* disk: the blocks at their places
  slot,          \* disk: the log blocks
  head,          \* disk: the header's block numbers
  cache,         \* the cached contents of a block, or Absent
  pins,          \* references to its buffer by bpin()
  lh,            \* log.lh: the block numbers
  outstanding, committing,
  phase, tail,   \* where commit() or recover_from_log() stands
  pc,            \* where a process stands
  held,          \* the block whose buffer it has locked
  wrote          \* the blocks its call has written

disk == <<home, slot, head>>
call == <<held, wrote>>
vars == <<disk, cache, pins, lh, outstanding, committing, phase, tail, pc, call>>

Slots == 1..LOGSIZE

\* mkfs leaves a clean log.
Init ==
  /\ home \in [Blocks -> Values]
  /\ slot = [i \in Slots |-> Torn]
  /\ head = <<>>
  /\ cache = [b \in Blocks |-> Absent]
  /\ pins = [b \in Blocks |-> 0]
  /\ lh = <<>> /\ outstanding = 0 /\ committing = FALSE
  /\ phase = "readHead" /\ tail = 1
  /\ pc = [p \in Procs |-> "idle"]
  /\ held = [p \in Procs |-> Nobody]
  /\ wrote = [p \in Procs |-> {}]

Crash ==
  /\ cache' = [b \in Blocks |-> Absent]
  /\ pins' = [b \in Blocks |-> 0]
  /\ lh' = <<>> /\ outstanding' = 0 /\ committing' = FALSE
  /\ phase' = "readHead" /\ tail' = 1
  /\ pc' = [p \in Procs |-> "idle"]
  /\ held' = [p \in Procs |-> Nobody]
  /\ wrote' = [p \in Procs |-> {}]
  /\ UNCHANGED disk

\* What bread() returns.
Read(b) == IF cache[b] # Absent THEN cache[b] ELSE home[b]
Listed(s) == {s[i] : i \in 1..Len(s)}

MayEvict(b) == pins[b] = 0 /\ \A p \in Procs : held[p] # b

\* bget() recycles the buffer of an unreferenced block.
Evict(b) ==
  /\ cache[b] # Absent /\ MayEvict(b)
  /\ cache' = [cache EXCEPT ![b] = Absent]
  /\ UNCHANGED <<disk, pins, lh, outstanding, committing, phase, tail, pc, call>>

-----------------------------------------------------------------------------
(* The calls.                                                              *)

Up == phase \notin {"readHead", "recover", "recovered"}

Admits == ~committing /\ Len(lh) + (outstanding + 1) * MAXOPBLOCKS <= LOGSIZE

\* begin_op(): enter, or sleep until somebody ends.
BeginOp(p) ==
  /\ Up /\ pc[p] \in {"idle", "woken"}
  /\ IF Admits
     THEN outstanding' = outstanding + 1 /\ pc' = [pc EXCEPT ![p] = "op"]
     ELSE pc' = [pc EXCEPT ![p] = "asleep"] /\ UNCHANGED outstanding
  /\ UNCHANGED <<disk, cache, pins, lh, committing, phase, tail, call>>

\* Bug variant: no wakeup(&log).
WokenNobody == pc
Woken == [p \in Procs |-> IF pc[p] = "asleep" THEN "woken" ELSE pc[p]]

\* A call locks a buffer and changes it ...
Modify(p, b, v) ==
  /\ pc[p] = "op" /\ held[p] = Nobody
  /\ \A q \in Procs : held[q] # b
  /\ Cardinality(wrote[p] \cup {b}) <= OpBlocks
  /\ cache' = [cache EXCEPT ![b] = v]
  /\ held' = [held EXCEPT ![p] = b]
  /\ UNCHANGED <<disk, pins, lh, outstanding, committing, phase, tail, pc, wrote>>

\* The first panic of log_write().
TooBig == Len(lh) >= LOGSIZE \/ Len(lh) >= LogBlocks - 1

\* Log absorption: a block is entered, and its buffer pinned, once.
Logged(b) == IF b \in Listed(lh) THEN lh ELSE Append(lh, b)
\* Bug variant: every log_write() pins.
PinnedAgain(b) == pins[b] + 1
Pinned(b) == IF b \in Listed(lh) THEN pins[b] ELSE pins[b] + 1

\* ... and log_write()s and releases it.
LogWrite(p) ==
  /\ pc[p] = "op" /\ held[p] # Nobody /\ ~TooBig
  /\ lh' = Logged(held[p])
  /\ pins' = [pins EXCEPT ![held[p]] = Pinned(held[p])]
  /\ wrote' = [wrote EXCEPT ![p] = @ \cup {held[p]}]
  /\ held' = [held EXCEPT ![p] = Nobody]
  /\ UNCHANGED <<disk, cache, outstanding, committing, phase, tail, pc>>

Last == outstanding = 1

\* end_op(): the last call starts the commit, the others wake who waits for space.
EndOp(p) ==
  /\ pc[p] = "op" /\ held[p] = Nobody
  /\ outstanding' = outstanding - 1
  /\ wrote' = [wrote EXCEPT ![p] = {}]
  /\ IF Last
     THEN /\ committing' = TRUE
          /\ phase' = IF lh = <<>> THEN "done" ELSE "writeLog"
          /\ tail' = 1
          /\ pc' = [pc EXCEPT ![p] = "commit"]
     ELSE /\ pc' = [Woken EXCEPT ![p] = "idle"]
          /\ UNCHANGED <<committing, phase, tail>>
  /\ UNCHANGED <<disk, cache, pins, lh, held>>

-----------------------------------------------------------------------------
(* commit() and recover_from_log(). A write to the disk is two steps.      *)

Step(to) ==
  IF tail < Len(lh) THEN tail' = tail + 1 /\ UNCHANGED phase
                    ELSE tail' = 1 /\ phase' = to

\* Bug variant: the blocks are installed before the header is written.
AfterLogInstall == "install"
AfterLog == "writeHead"

\* write_log(): the blocks from the cache to the log.
WriteLog ==
  /\ phase = "writeLog"
  /\ IF slot[tail] # Torn
     THEN slot' = [slot EXCEPT ![tail] = Torn] /\ UNCHANGED <<phase, tail>>
     ELSE slot' = [slot EXCEPT ![tail] = Read(lh[tail])] /\ Step(AfterLog)
  /\ UNCHANGED <<home, head, cache, pins, lh, outstanding, committing, pc, call>>

\* write_head(): "the real commit".
WriteHead ==
  /\ phase = "writeHead"
  /\ head' = lh
  /\ phase' = "install"
  /\ UNCHANGED <<home, slot, cache, pins, lh, outstanding, committing, tail, pc, call>>

Unpinned(b) == IF phase = "install" THEN pins[b] - 1 ELSE pins[b]

\* install_trans(): the log's blocks to their places, after a commit or in recovery.
\* A commit unpins the buffer.
Install ==
  /\ phase \in {"install", "recover"}
  /\ lh # <<>>
  /\ LET b == lh[tail] IN
     IF home[b] # Torn
     THEN home' = [home EXCEPT ![b] = Torn] /\ UNCHANGED <<cache, pins, phase, tail>>
     ELSE /\ home' = [home EXCEPT ![b] = slot[tail]]
          /\ cache' = [cache EXCEPT ![b] = slot[tail]]
          /\ pins' = [pins EXCEPT ![b] = Unpinned(b)]
          /\ Step(IF phase = "install" THEN "clear" ELSE "recovered")
  /\ UNCHANGED <<slot, head, lh, outstanding, committing, pc, call>>

\* lh.n = 0 and write_head(): the transaction is erased from the log.
Clear ==
  /\ \/ phase \in {"clear", "recovered"}
     \/ phase = "recover" /\ lh = <<>>
  /\ lh' = <<>> /\ head' = <<>>
  /\ phase' = IF phase = "clear" THEN "done" ELSE "idle"
  /\ UNCHANGED <<home, slot, cache, pins, outstanding, committing, tail, pc, call>>

\* The end of end_op().
Done(p) ==
  /\ phase = "done" /\ pc[p] = "commit"
  /\ committing' = FALSE
  /\ phase' = "idle"
  /\ pc' = [Woken EXCEPT ![p] = "idle"]
  /\ UNCHANGED <<disk, cache, pins, lh, outstanding, tail, call>>

\* read_head(), at boot.
ReadHead ==
  /\ phase = "readHead"
  /\ lh' = head
  /\ phase' = "recover"
  /\ UNCHANGED <<disk, cache, pins, outstanding, committing, tail, pc, call>>

Next ==
  \/ Crash
  \/ \E b \in Blocks : Evict(b)
  \/ \E p \in Procs :
       \/ BeginOp(p) \/ LogWrite(p) \/ EndOp(p) \/ Done(p)
       \/ \E b \in Blocks, v \in Values : Modify(p, b, v)
  \/ WriteLog \/ WriteHead \/ Install \/ Clear \/ ReadHead

Spec == Init /\ [][Next]_vars

-----------------------------------------------------------------------------
(* Properties.                                                             *)

Contents == Values \cup {Torn}

\* What recovery would make of the disk.
Recovered == [b \in Blocks |->
  IF b \in Listed(head) THEN slot[CHOOSE i \in 1..Len(head) : head[i] = b] ELSE home[b]]

Active == {p \in Procs : pc[p] = "op"}
View == IF Up THEN [b \in Blocks |-> Read(b)] ELSE Recovered

\* The log implements atomic transactions, whatever the interleaving of the calls,
\* of evictions and of crashes.
Atomic == INSTANCE AtomicDisk WITH durable <- Recovered, current <- View, active <- Active
AllOrNothing == Atomic!Spec

\* The entries of the log that still need a block's buffer.
Owed(b) == {i \in 1..Len(lh) : /\ lh[i] = b
                               /\ phase = "install" => i >= tail
                               /\ phase # "clear"}

\* A buffer is pinned exactly as often as the log still needs it.
PinsExact == Up => \A b \in Blocks : pins[b] = Cardinality(Owed(b))

\* Whoever sleeps in begin_op() will be woken: a call is active or commits.
SleepersAwaited == (\E p \in Procs : pc[p] = "asleep") => outstanding > 0 \/ committing
=============================================================================
