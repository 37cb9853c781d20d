----------------------------- MODULE AtomicDisk -----------------------------
(***************************************************************************)
(* What the log promises the file system calls: a call's updates reach the *)
(* disk together with those of the calls it overlaps, all or none of them, *)
(* and never while one of these calls is still active. A crash takes the   *)
(* file system back to the last commit.                                    *)
(***************************************************************************)
EXTENDS Integers

CONSTANTS Procs, Blocks, Values

VARIABLES
  durable,   \* the contents a crash leaves behind
  current,   \* the contents the calls see
  active     \* the processes between begin_op() and end_op()

Init ==
  /\ durable \in [Blocks -> Values] /\ current = durable
  /\ active = {}

Begin(p) ==
  /\ active' = active \cup {p}
  /\ UNCHANGED <<durable, current>>

Update(p, b, v) ==
  /\ p \in active
  /\ current' = [current EXCEPT ![b] = v]
  /\ UNCHANGED <<durable, active>>

End(p) ==
  /\ active' = active \ {p}
  /\ UNCHANGED <<durable, current>>

Commit ==
  /\ active = {}
  /\ durable' = current
  /\ UNCHANGED <<current, active>>

Crash ==
  /\ current' = durable
  /\ active' = {}
  /\ UNCHANGED durable

Next ==
  \/ \E p \in Procs : Begin(p) \/ End(p) \/ \E b \in Blocks, v \in Values : Update(p, b, v)
  \/ Commit \/ Crash

Spec == Init /\ [][Next]_<<durable, current, active>>
=============================================================================
