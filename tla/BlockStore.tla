----------------------------- MODULE BlockStore -----------------------------
(* What the buffer cache promises: blocks with a holder each.  Whoever      *)
(* holds a block, and nobody else, sees its latest content and may change   *)
(* it; nothing that happens to the block otherwise changes it.              *)
CONSTANTS Blocks, Procs, None

VARIABLES store, holder

Init == store = [b \in Blocks |-> 0] /\ holder = [b \in Blocks |-> None]

Take(b, p) == /\ holder[b] = None /\ holder' = [holder EXCEPT ![b] = p]
              /\ UNCHANGED store

Change(b) == /\ holder[b] # None
             /\ \E v \in {store'[b]} : store' = [store EXCEPT ![b] = v]
             /\ UNCHANGED holder

Give(b) == /\ holder[b] # None /\ holder' = [holder EXCEPT ![b] = None]
           /\ UNCHANGED store

Next == \E b \in Blocks : Change(b) \/ Give(b) \/ \E p \in Procs : Take(b, p)

Spec == Init /\ [][Next]_<<store, holder>>
=============================================================================
