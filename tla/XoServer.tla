------------------------------ MODULE XoServer ------------------------------
(* The server of networks/partA (server-tcp2.c; udp_server_final.c has the  *)
(* same functions): a sequential program that asks, waits for the answer    *)
(* and goes on.  A step is what it does from one recv() to the next, given  *)
(* by the operators below as a new state and the messages sent, in order.   *)
EXTENDS Integers, Sequences, FiniteSets, SequencesExt

CONSTANT Clients

VARIABLES
  server,   \* where it waits; the players' addresses; p1, player_turn, moves_count, board
  result    \* of the last game, to state properties

Cells == (1..3) \X (1..3)
Symbol == <<"X", "O">>
initialize_board == [c \in Cells |-> " "]

(* A row or a column, then the diagonals. *)
\* Mutant: one diagonal is forgotten.
check_winner_but_one(board, symbol) ==
  \/ \E i \in 1..3 : (\A j \in 1..3 : board[<<i, j>>] = symbol) \/ (\A j \in 1..3 : board[<<j, i>>] = symbol)
  \/ \A i \in 1..3 : board[<<i, i>>] = symbol
check_winner(board, symbol) ==
  \/ \E i \in 1..3 : (\A j \in 1..3 : board[<<i, j>>] = symbol) \/ (\A j \in 1..3 : board[<<j, i>>] = symbol)
  \/ \A i \in 1..3 : board[<<i, i>>] = symbol
  \/ \A i \in 1..3 : board[<<i, 4 - i>>] = symbol

check_draw(moves) == moves = 9

ServerInit ==
  /\ server = [at |-> "accept", addr |-> <<>>, p1 |-> FALSE, turn |-> 1, moves |-> 0, board |-> initialize_board]
  /\ result = "none"

(* Messages, with the seat they go to. *)
To(i, m) == [to |-> i, m |-> m]
Both(m) == <<To(1, m), To(2, m)>>
send_board(board) == Both(<<"board", board>>)

(* What an operator below gives: the state and the messages. *)
Does(s, ms) == [server |-> s, sends |-> ms]

AskFirst(s) == Does([s EXCEPT !.at = "ask1"], <<To(1, <<"do">>)>>)

(* main(): the second player has come, or one more. *)
Seated(s, c) ==
  LET t == [s EXCEPT !.addr = Append(@, c)]
  IN  IF Len(t.addr) < 2 THEN Does(t, <<>>) ELSE AskFirst(t)

(* The second answer is there. *)
Opponent(p1, p2) ==
  CASE p1 /\ ~p2 -> <<To(1, <<"opponent">>)>>
    [] ~p1 /\ p2 -> <<To(2, <<"opponent">>)>>
    [] OTHER -> <<>>

Begins(s) ==
  Does([s EXCEPT !.at = "move", !.turn = 1, !.moves = 0, !.board = initialize_board],
       send_board(initialize_board) \o <<To(1, <<"your">>)>>)

Answered(s, yes) ==
  CASE s.at = "ask1" -> Does([s EXCEPT !.at = "ask2", !.p1 = yes], <<To(2, <<"do">>)>>)
    [] s.at = "ask2" /\ s.p1 /\ yes -> Begins(s)
    [] OTHER -> Does([s EXCEPT !.at = "left"], Opponent(s.p1, yes) \o Both(<<"exit">>))

(* A move is there; row and col are what the first two characters make. *)
Valid(s, cell) == cell \in Cells /\ s.board[cell] = " "

Rejected(s) == Does(s, <<To(s.turn, <<"invalid">>), To(s.turn, <<"your">>)>>)

Outcome(s) ==
  CASE check_winner(s.board, Symbol[s.turn]) -> Symbol[s.turn]
    [] check_draw(s.moves) /\ ~check_winner(s.board, Symbol[s.turn]) -> "draw"
    [] OTHER -> "playing"

After(s, r) ==
  IF r = "playing"
  THEN Does([s EXCEPT !.turn = 3 - @], send_board(s.board) \o <<To(3 - s.turn, <<"your">>)>>)
  ELSE Does([s EXCEPT !.at = "ask1"], send_board(s.board) \o Both(<<"over", r>>) \o <<To(1, <<"do">>)>>)

Placed(s, cell) == [s EXCEPT !.board[cell] = Symbol[s.turn], !.moves = @ + 1]

(* recv() has returned text, from the player at seat i as the server thinks. *)
Waits(s) == CASE s.at = "ask1" -> 1 [] s.at = "ask2" -> 2 [] s.at = "move" -> s.turn [] OTHER -> 0

Handled(s, m) ==
  CASE s.at = "move" /\ Valid(s, m.cell) -> After(Placed(s, m.cell), Outcome(Placed(s, m.cell)))
    [] s.at = "move" /\ ~Valid(s, m.cell) -> Rejected(s)
    [] OTHER -> Answered(s, m.yes)
=============================================================================
