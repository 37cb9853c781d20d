------------------------------- MODULE XoGame -------------------------------
(* What networks/partA promises two players (README.md:27-50): noughts and  *)
(* crosses.  They are asked before every game whether they want to play,    *)
(* the first to come has X and the first move, the moves alternate, and the *)
(* only exit is by either of them not wanting to play.                      *)
EXTENDS Integers, Sequences, Functions

CONSTANT Clients

VARIABLES
  seats,    \* the players, in the order they came
  said,     \* what each has answered to the last question, "" as yet
  gone,     \* the players who have hung up
  board,
  next,     \* the seat to move
  result    \* "none", "playing", "X", "O", "draw", "closed"

Cells == (1..3) \X (1..3)
Symbol == <<"X", "O">>
EmptyBoard == [c \in Cells |-> " "]
Quiet == [c \in Clients |-> ""]

(* Three cells are a line when the middle one is the mean of the others, *)
(* and a board has no other cells so spaced.                             *)
Aligned(a, b, c) == a # c /\ \A i \in {1, 2} : a[i] + c[i] = 2 * b[i]
HasLine(b, s) == \E x, y, z \in {c \in Cells : b[c] = s} : Aligned(x, y, z)

Init ==
  /\ seats = <<>> /\ said = Quiet /\ gone = {}
  /\ board = EmptyBoard /\ next = 1 /\ result = "none"

Sit(c) ==
  /\ Len(seats) < 2 /\ c \notin Range(seats)
  /\ seats' = Append(seats, c)
  /\ UNCHANGED <<said, gone, board, next, result>>

Say(c, w) ==
  /\ result # "playing" /\ said[c] = ""
  /\ said' = [said EXCEPT ![c] = w]
  /\ UNCHANGED <<seats, gone, board, next, result>>

Start ==
  /\ Len(seats) = 2 /\ result \notin {"playing", "closed"}
  /\ \A c \in Range(seats) : said[c] = "yes"
  /\ board' = EmptyBoard /\ next' = 1 /\ result' = "playing" /\ said' = Quiet
  /\ UNCHANGED <<seats, gone>>

Play(c, cell) ==
  /\ result = "playing" /\ c = seats[next] /\ board[cell] = " "
  /\ board' = [board EXCEPT ![cell] = Symbol[next]]
  /\ result' = CASE HasLine(board', Symbol[next]) -> Symbol[next]
                 [] ~HasLine(board', Symbol[next]) /\ (\A d \in Cells : board'[d] # " ") -> "draw"
                 [] OTHER -> "playing"
  /\ next' = IF result' = "playing" THEN 3 - next ELSE next
  /\ UNCHANGED <<seats, said, gone>>

Close ==
  /\ result \notin {"playing", "closed"}
  /\ \E c \in Range(seats) : said[c] = "no" \/ c \in gone
  /\ result' = "closed"
  /\ UNCHANGED <<seats, said, gone, board, next>>

HangUp(c) ==
  /\ gone' = gone \cup {c}
  /\ UNCHANGED <<seats, said, board, next, result>>

Next ==
  \/ Start \/ Close
  \/ \E c \in Clients : Sit(c) \/ HangUp(c) \/ Say(c, "yes") \/ Say(c, "no") \/ \E cell \in Cells : Play(c, cell)

Spec == Init /\ [][Next]_<<seats, said, gone, board, next, result>>
=============================================================================
