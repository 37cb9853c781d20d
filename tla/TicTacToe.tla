----------------------------- MODULE TicTacToe -----------------------------
(* Two players, the server and the network between them (networks/partA).   *)
(* The client of TCP reads a stream: one recv() returns any number of the   *)
(* messages sent and not yet read, together, and the client looks in that   *)
(* text for "exit", "Do" and "Your".  The datagrams of UDP come one by one, *)
(* in any order, and may be lost.  The users answer what they like.         *)
EXTENDS XoServer, Functions

CONSTANT Works    \* [transport, types, games, losses, quits]: what a behaviour may do

(* Over UDP the server takes whoever sends for the player it waits for, and *)
(* is for two.                                                              *)
ASSUME TwoOverUdp == \A w \in Works : w.transport # "tcp" => \E a, b \in Clients : Clients = {a, b}

VARIABLES
  work,     \* the one of Works this behaviour is about
  down,     \* sent to each client and not yet read
  up,       \* sent by each client and not yet read
  at,       \* where each client waits: "new", "read", "do", "your", "left"
  said,     \* what each has answered since the last game began
  mute,     \* the clients that had a move to send and sent no byte
  gone,     \* the clients killed by their users
  games,    \* begun so far
  lost      \* datagrams lost so far

vars == <<server, result, work, down, up, at, said, mute, gone, games, lost>>

Tcp == work.transport = "tcp"
Nobody == [c \in Clients |-> ""]

(* '0' + row and '0' + col in a char each, up to the first NUL. *)
Byte(n) == (48 + n) % 256
NoCell == <<0, 0>>
MoveText(row, col) ==
  [yes |-> FALSE, bytes |-> (IF Byte(row) = 0 THEN 0 ELSE IF Byte(col) = 0 THEN 1 ELSE 2),
   cell |-> IF Byte(row) = 0 THEN NoCell ELSE <<Byte(row) - 48, Byte(col) - 48>>]
AnswerText(word) == [yes |-> word = "yes", bytes |-> 4, cell |-> NoCell]
NoText == [yes |-> FALSE, bytes |-> 0, cell |-> NoCell]

Init ==
  /\ ServerInit
  /\ work \in Works
  /\ down = [c \in Clients |-> <<>>] /\ up = [c \in Clients |-> <<>>]
  /\ at = [c \in Clients |-> "new"]
  /\ said = Nobody
  /\ mute = {} /\ gone = {} /\ games = 0 /\ lost = 0

------------------------------------------------------------------------------
(* The server. *)

(* Of the datagrams of UDP only those a client acts on are kept: the others *)
(* are printed, whenever they come, and change nothing.                     *)
Parts(s, sends, c) ==
  LET Kept(x) == s.addr[x.to] = c /\ (Tcp \/ x.m[1] \in {"do", "your", "exit"})
  IN  FlattenSeq([i \in DOMAIN sends |-> IF Kept(sends[i]) THEN <<sends[i].m>> ELSE <<>>])
Sent(s, sends) == [c \in Clients |-> IF c \in gone THEN <<>> ELSE down[c] \o Parts(s, sends, c)]

(* What the program does until its next recv(); sending to a connection *)
(* the peer has closed may raise SIGPIPE, which ends it.                *)
Proceeds(does) ==
  \/ /\ server' = does.server
     /\ down' = Sent(does.server, does.sends)
  \/ \E k \in DOMAIN does.sends :
       /\ Tcp /\ does.server.addr[does.sends[k].to] \in gone
       /\ server' = [server EXCEPT !.at = "killed"]
       /\ down' = Sent(does.server, SubSeq(does.sends, 1, k - 1))

(* accept(), or the recvfrom() of a first datagram. *)
Accepts(c) ==
  /\ server.at = "accept" /\ up[c] # <<>>
  /\ up' = [up EXCEPT ![c] = Tail(@)]
  /\ Proceeds(Seated(server, c))
  /\ UNCHANGED <<result, work, at, said, mute, gone, games, lost>>

(* recv() reads from the player it waits for, the end of file when that one *)
(* has gone; recvfrom() from anybody, who becomes that player.              *)
Received(c, m) ==
  LET i == Waits(server)
  IN  /\ i # 0
      /\ Tcp => c = server.addr[i]
      /\ \/ up[c] # <<>> /\ m = Head(up[c]) /\ up' = [up EXCEPT ![c] = Tail(@)]
         \/ Tcp /\ c \in gone /\ up[c] = <<>> /\ m = NoText /\ UNCHANGED up

Serves(c) ==
  \E m \in {NoText} \cup Range(up[c]) :
    /\ Received(c, m)
    /\ \E s \in {[server EXCEPT !.addr[Waits(server)] = c]} :
         \E does \in {Handled(s, m)} :
           /\ Proceeds(does)
           /\ result' = CASE server'.at = "left" -> "closed"
                          [] server'.at = "move" -> "playing"
                          [] server.at = "move" /\ server'.at = "ask1" -> Outcome(Placed(s, m.cell))
                          [] OTHER -> result
    /\ LET begins == server.at = "ask2" /\ server'.at = "move"
       IN  /\ games' = IF begins THEN games + 1 ELSE games
           /\ said' = IF begins THEN Nobody ELSE said
    /\ UNCHANGED <<work, at, mute, gone, lost>>

------------------------------------------------------------------------------
(* The clients. *)

(* connect(), or the first datagram. *)
Connect(c) ==
  /\ at[c] = "new"
  /\ at' = [at EXCEPT ![c] = "read"]
  /\ up' = [up EXCEPT ![c] = <<NoText>>]
  /\ UNCHANGED <<server, result, work, down, said, mute, gone, games, lost>>

\* Mutant: the text is compared with the prompts, not searched for them.
KindsAtStart(text) == {text[1][1]}
Kinds(text) == {text[i][1] : i \in DOMAIN text}

(* One recv() and what the client makes of its text. *)
Understands(c, text) ==
  at' = [at EXCEPT ![c] = CASE "exit" \in Kinds(text) -> "left"
                            [] "exit" \notin Kinds(text) /\ "do" \in Kinds(text) -> "do"
                            [] Kinds(text) \cap {"exit", "do"} = {} /\ "your" \in Kinds(text) -> "your"
                            [] OTHER -> "read"]

Reads(c) ==
  /\ at[c] = "read" /\ down[c] # <<>>
  /\ \E n \in DOMAIN down[c] :
       \/ /\ Tcp
          /\ Understands(c, SubSeq(down[c], 1, n))
          /\ down' = [down EXCEPT ![c] = SubSeq(@, n + 1, Len(@))]
       \/ /\ ~Tcp
          /\ Understands(c, <<down[c][n]>>)
          /\ down' = [down EXCEPT ![c] = RemoveAt(@, n)]
  /\ UNCHANGED <<server, result, work, up, said, mute, gone, games, lost>>

(* The user types a line at "Do you want to play?"; no more than work.games *)
(* games are agreed to.                                                     *)
Answers(c) ==
  /\ at[c] = "do"
  /\ at' = [at EXCEPT ![c] = "read"]
  /\ \E word \in {"no"} \cup {w \in {"yes"} : games < work.games} :
       /\ up' = [up EXCEPT ![c] = Append(@, AnswerText(word))]
       /\ said' = [said EXCEPT ![c] = word]
  /\ UNCHANGED <<server, result, work, down, mute, gone, games, lost>>

(* The user types two numbers at last; an empty text is not sent by TCP. *)
Moves(c) ==
  /\ at[c] = "your"
  /\ at' = [at EXCEPT ![c] = "read"]
  /\ \E rc \in work.types[c] :
       \E m \in {MoveText(rc[1], rc[2])} :
         IF Tcp /\ m.bytes = 0
         THEN mute' = mute \cup {c} /\ UNCHANGED up
         ELSE up' = [up EXCEPT ![c] = Append(@, m)] /\ UNCHANGED mute
  /\ UNCHANGED <<server, result, work, down, said, gone, games, lost>>

------------------------------------------------------------------------------
(* What users and networks do. *)

Quits(c) ==
  /\ Cardinality(gone) < work.quits /\ at[c] \notin {"new", "left"}
  /\ gone' = gone \cup {c}
  /\ at' = [at EXCEPT ![c] = "left"]
  /\ down' = [down EXCEPT ![c] = <<>>]
  /\ UNCHANGED <<server, result, work, up, said, mute, games, lost>>

Loses(c) ==
  /\ ~Tcp /\ lost < work.losses
  /\ lost' = lost + 1
  /\ \/ \E n \in DOMAIN down[c] : down' = [down EXCEPT ![c] = RemoveAt(@, n)] /\ UNCHANGED up
     \/ up[c] # <<>> /\ up' = [up EXCEPT ![c] = Tail(@)] /\ UNCHANGED down
  /\ UNCHANGED <<server, result, work, at, said, mute, gone, games>>

(* Nothing more to do: the server has left, or it waits for what will not *)
(* come.  A client whose server is gone reads the end of file forever.    *)
Settled ==
  /\ server.at \in {"left", "killed"} \/ lost > 0 \/ mute # {} \/ gone # {}
  /\ \A c \in Clients : at[c] = "left" \/ (at[c] = "read" /\ down[c] = <<>>)
  /\ UNCHANGED vars

Step(c) == Accepts(c) \/ Serves(c) \/ Connect(c) \/ Reads(c) \/ Answers(c) \/ Moves(c) \/ Quits(c) \/ Loses(c)
Next == Settled \/ \E c \in Clients : Step(c)
Spec == Init /\ [][Next]_vars

------------------------------------------------------------------------------
(* Properties. *)

(* The two programs play noughts and crosses, over either transport: turns *)
(* alternate between the players seated first and second, nobody's cell is *)
(* overwritten, a line or a full board ends the game (check_winner(),      *)
(* check_draw()), a game starts when both have said yes, and the server    *)
(* exits only when one of them has said no or has left.                    *)
XO == INSTANCE XoGame WITH seats <- server.addr, board <- server.board, next <- server.turn
PlaysXO == XO!Spec

(* Nobody waits for the other without cause: whenever the server waits, the *)
(* player it waits for is asked, or is answering, or the answer is on its   *)
(* way, unless a datagram was lost, a player left or a move had no byte to  *)
(* send.  A prompt read together with other text is still found by          *)
(* strstr().                                                                *)
Asked(c) == up[c] # <<>> \/ at[c] \in {"do", "your"} \/ \E i \in DOMAIN down[c] : down[c][i][1] \in {"do", "your"}
NobodyStuck ==
  Waits(server) # 0 /\ lost = 0 /\ gone = {} /\ mute = {} => Asked(server.addr[Waits(server)])
=============================================================================
