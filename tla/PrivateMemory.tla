--------------------------- MODULE PrivateMemory ---------------------------
(***************************************************************************)
(* What fork, store, sbrk, exit and wait promise a program about memory:   *)
(* every process has an address space of its own. fork() gives the child a *)
(* copy of the parent's pages at that moment; afterwards a page changes    *)
(* only by a store of its owner, and a read-only page never changes.       *)
(***************************************************************************)
EXTENDS Integers

CONSTANTS Procs, InitProc, MaxPages, InitSize, TextPages, Values, Zero, NoPage

VARIABLE mem   \* mem[p][v]: what process p reads at page v, NoPage if unmapped

VPages == 0..(MaxPages - 1)
Empty  == [v \in VPages |-> NoPage]
Size(p) == LET present == {v \in VPages : mem[p][v] # NoPage} IN
           IF present = {} THEN 0
           ELSE 1 + CHOOSE v \in present : \A u \in present : u <= v

Init == mem = [p \in Procs |-> IF p = InitProc
                 THEN [v \in VPages |-> IF v < InitSize THEN Zero ELSE NoPage]
                 ELSE Empty]

Write(p, v, x) ==
  /\ mem[p][v] # NoPage /\ v \notin TextPages
  /\ mem' = [mem EXCEPT ![p][v] = x]

Fork(p, c) ==
  /\ mem[p] # Empty /\ mem[c] = Empty
  /\ mem' = [mem EXCEPT ![c] = mem[p]]

Resize(p, n) ==
  /\ mem[p] # Empty
  /\ mem' = [mem EXCEPT ![p] = [v \in VPages |->
               IF v >= n THEN NoPage
               ELSE IF v < Size(p) THEN mem[p][v] ELSE Zero]]

Exit(p) ==
  /\ p # InitProc
  /\ mem' = [mem EXCEPT ![p] = Empty]

Next == \E p \in Procs :
  \/ \E v \in VPages, x \in Values : Write(p, v, x)
  \/ \E c \in Procs : Fork(p, c)
  \/ \E n \in 1..MaxPages : Resize(p, n)
  \/ Exit(p)

Spec == Init /\ [][Next]_mem
=============================================================================
