---------------------------- MODULE MCTicTacToe ----------------------------
EXTENDS TicTacToe

MCClients == {"ann", "bob"}
Row(i) == {i} \X (1..3)
Column(i) == (1..3) \X {i}
Work(transport, ann, bob, rounds, loss, quit) ==
  [transport |-> transport, types |-> [c \in MCClients |-> IF c = "ann" THEN ann ELSE bob],
   games |-> rounds, losses |-> loss, quits |-> quit]

(* Every game; moves that are no cell (257 is 1 in a char, 208 is NUL), *)
(* quits, losses and second games with few cells.                       *)
MCWorks ==
  {Work("tcp", Cells, Cells, 1, 0, 0),
   Work("tcp", Row(1) \cup {<<0, 1>>, <<257, 2>>, <<208, 1>>, <<1, 208>>}, Row(2) \cup {<<4, 1>>}, 1, 0, 1),
   Work("tcp", Row(1), Column(1), 2, 0, 1),
   Work("udp", Row(1) \cup {<<208, 1>>}, Row(2), 1, 1, 0),
   Work("udp", Row(1), Row(2), 2, 0, 0)}
=============================================================================
