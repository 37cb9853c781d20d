---------------------------- MODULE HalfDuplex ----------------------------
(***************************************************************************)
(* What networks/partB promises its two users ("TCP with help of UDP",     *)
(* README.md:53): they speak in turns, and every line that is typed is     *)
(* shown to the other user, whole and unchanged, before the next is typed. *)
(* An empty line is not shown, and nobody speaks after it.                 *)
(***************************************************************************)
EXTENDS Integers, Sequences

CONSTANT Lines    \* the lines a user may type

VARIABLES typed, shown

Init == typed = <<>> /\ shown = <<>>

Type(l) ==
  /\ typed = shown
  /\ typed' = Append(typed, l)
  /\ UNCHANGED shown

Show ==
  /\ typed # shown /\ typed[Len(typed)] # <<>>
  /\ shown' = typed
  /\ UNCHANGED typed

Next == Show \/ \E l \in Lines : Type(l)

Spec == Init /\ [][Next]_<<typed, shown>> /\ WF_<<typed, shown>>(Show)
=============================================================================
