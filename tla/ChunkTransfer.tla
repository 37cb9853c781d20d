--------------------------- MODULE ChunkTransfer ---------------------------
(***************************************************************************)
(* networks/partB: fake_server.c and fake_client.c. The two programs run   *)
(* the same loop; in round k the server sends if k is even and the client  *)
(* if k is odd. The sender cuts a line into numbered chunks, sends them    *)
(* all, and repeats those whose acknowledgement is missing when select()   *)
(* finds nothing to read and 0.1 s have passed. The receiver acknowledges  *)
(* each chunk and shows the line when it has counted enough of them.       *)
(*                                                                         *)
(* A datagram carries no round number and no mark that tells a chunk from  *)
(* an acknowledgement: each side reads whatever comes as what it expects.  *)
(* The text of a chunk is modelled as <<round, number>>.                   *)
(*                                                                         *)
(* The for loops that send are one step: a sender reads nothing between    *)
(* two sendto() calls, so what the peer does meanwhile can be put after.   *)
(***************************************************************************)
EXTENDS Integers, Sequences, FiniteSets

CONSTANTS
  MaxRounds,  \* bound on the rounds
  MaxChunks,  \* bound on the chunks of a line
  MinChunks,  \* 0 if the users may enter an empty line, otherwise 1
  MaxFlight,  \* bound on the datagrams under way to one peer when chunks are repeated
  Faults      \* what the network and the clock may do, a subset of AllFaults

AllFaults == {"loseHello", "loseChunk", "loseAck", "reorder", "early"}

ASSUME ChunkAssumption ==
  /\ MaxRounds \in Nat \ {0} /\ MaxChunks \in Nat /\ MaxFlight \in Nat
  /\ MinChunks \in {0, 1}
  /\ Faults \subseteq AllFaults

Peers == {"server", "client"}
Other(p) == CHOOSE q \in Peers : q # p
Numbers == 0..(MaxChunks - 1)
Rounds  == 0..(MaxRounds - 1)

\* struct message: num and total; the acknowledgement is the number alone.
Hello == [kind |-> "hello", num |-> 0, total |-> 0, round |-> 0]
Chunk(k, i, n) == [kind |-> "chunk", num |-> i, total |-> n, round |-> k]
Ack(i) == [kind |-> "ack", num |-> i, total |-> 0, round |-> 0]

Blank   == <<>>         \* full_message is filled with NULs
Garbage == <<"garbage">> \* received_msg before anything was read into it
Line(k, n) == [i \in 1..n |-> <<k, i - 1>>]

VARIABLES
  round,   \* k
  phase,   \* where each program stands
  size,    \* chunks: of the line being sent
  acked,   \* the i with ack_rec[i] = 1 (recv is their number)
  got,     \* full_message, chunk by chunk
  count,   \* received_chunks
  msg,     \* received_msg: total and text of the last datagram read into it
  chan,    \* datagrams under way to each peer
  typed,   \* the lines the users have entered
  shown    \* the lines shown as "Complete message received"

sendVars == <<size, acked>>
recvVars == <<got, count, msg>>
talk     == <<typed, shown>>
vars     == <<round, phase, size, acked, got, count, msg, chan, typed, shown>>

-----------------------------------------------------------------------------
Sends(p, k) == (k % 2 = 0) = (p = "server")

\* The top of the loop, with the locals of the branch that is taken. The memory
\* received_msg lies in is not cleared.
Begin(p, k) ==
  /\ round' = [round EXCEPT ![p] = k]
  /\ phase' = [phase EXCEPT ![p] = IF k = MaxRounds THEN "over"
                                  ELSE IF Sends(p, k) THEN "typing" ELSE "receiving"]
  /\ size'  = [size EXCEPT ![p] = 0]
  /\ acked' = [acked EXCEPT ![p] = {}]
  /\ got'   = [got EXCEPT ![p] = [i \in Numbers |-> Blank]]
  /\ count' = [count EXCEPT ![p] = 0]
  /\ msg'   = [msg EXCEPT ![p] = [total |-> -1, text |-> Garbage]]

Init ==
  /\ round = [p \in Peers |-> 0]
  /\ phase = [p \in Peers |-> IF p = "server" THEN "boot" ELSE "receiving"]
  /\ size  = [p \in Peers |-> 0]
  /\ acked = [p \in Peers |-> {}]
  /\ got   = [p \in Peers |-> [i \in Numbers |-> Blank]]
  /\ count = [p \in Peers |-> 0]
  /\ msg   = [p \in Peers |-> [total |-> -1, text |-> Garbage]]
  /\ chan  = [p \in Peers |-> IF p = "server" THEN <<Hello>> ELSE <<>>]
  /\ typed = <<>> /\ shown = <<>>

\* The network hands over the oldest datagram, or any one if it reorders.
Arrives(p, i) == i \in 1..Len(chan[p]) /\ (i = 1 \/ "reorder" \in Faults)
Without(s, i) == [j \in 1..(Len(s) - 1) |-> IF j < i THEN s[j] ELSE s[j + 1]]

FaultOf(d) == CASE d.kind = "chunk" -> "loseChunk" [] d.kind = "ack" -> "loseAck"
                [] OTHER -> "loseHello"

Lose(p, i) ==
  /\ i \in 1..Len(chan[p]) /\ FaultOf(chan[p][i]) \in Faults
  /\ chan' = [chan EXCEPT ![p] = Without(@, i)]
  /\ UNCHANGED <<round, phase, sendVars, recvVars, talk>>

-----------------------------------------------------------------------------
\* The server's first recvfrom() blocks until the client's empty datagram tells
\* it the client's address.
Boot(i) ==
  /\ phase["server"] = "boot" /\ Arrives("server", i)
  /\ chan' = [chan EXCEPT !["server"] = Without(@, i)]
  /\ phase' = [phase EXCEPT !["server"] = "typing"]
  /\ UNCHANGED <<round, sendVars, recvVars, talk>>

\* fgets(), and one sendto() per chunk.
Enter(p, n) ==
  /\ phase[p] = "typing"
  /\ typed' = Append(typed, Line(round[p], n))
  /\ size' = [size EXCEPT ![p] = n]
  /\ chan' = [chan EXCEPT ![Other(p)] = @ \o [i \in 1..n |-> Chunk(round[p], i - 1, n)]]
  /\ phase' = [phase EXCEPT ![p] = "sending"]
  /\ UNCHANGED <<round, acked, recvVars, shown>>

InFlight(q, kinds) == {chan[q][j].num : j \in {i \in 1..Len(chan[q]) : chan[q][i].kind \in kinds}}

\* The chunks whose acknowledgement is overdue. Unless timeouts come early, a
\* round trip takes less than 0.1 s: only a loss makes a chunk overdue.
Overdue(p) ==
  {i \in 0..(size[p] - 1) :
     /\ i \notin acked[p]
     /\ "early" \in Faults \/ i \notin InFlight(Other(p), {"chunk"})}

\* The for loop goes through the chunks in order.
Ascending(due) ==
  {s \in [1..Cardinality(due) -> due] : \A i, j \in DOMAIN s : i < j => s[i] < s[j]}

\* select() finds nothing to read: some of the overdue chunks are sent again.
Retransmit(p, due) ==
  /\ phase[p] = "sending" /\ chan[p] = <<>>
  /\ due # {} /\ due \subseteq Overdue(p)
  /\ Len(chan[Other(p)]) + Cardinality(due) <= MaxFlight
  /\ \E order \in Ascending(due) :
       chan' = [chan EXCEPT ![Other(p)] =
                  @ \o [j \in 1..Cardinality(due) |-> Chunk(round[p], order[j], size[p])]]
  /\ UNCHANGED <<round, phase, sendVars, recvVars, talk>>

\* ... or the line had no chunks and the round is over at once.
NothingToSend(p) ==
  /\ phase[p] = "sending" /\ chan[p] = <<>> /\ size[p] = 0
  /\ Begin(p, round[p] + 1)
  /\ UNCHANGED <<chan, talk>>

\* Bug variant: the sender stops one acknowledgement early.
AllAckedButOne(p, acks) == Cardinality(acks) + 1 >= size[p]

AllAcked(p, acks) == Cardinality(acks) = size[p]

Ticked(p, q) == acked[p] \cup {q}

\* A datagram is read as an acknowledgement: of a chunk, the first four bytes are
\* its number. ack_rec[q] with q >= chunks is outside the array; from there on the
\* program may do anything, and the model stops it.
ReceiveAck(p, i) ==
  /\ phase[p] = "sending" /\ Arrives(p, i)
  /\ LET q == chan[p][i].num
         acks == Ticked(p, q)
     IN IF q >= size[p]
        THEN /\ phase' = [phase EXCEPT ![p] = "wild"]
             /\ UNCHANGED <<round, sendVars, recvVars>>
        ELSE IF AllAcked(p, acks)
        THEN Begin(p, round[p] + 1)
        ELSE /\ acked' = [acked EXCEPT ![p] = acks]
             /\ UNCHANGED <<round, phase, size, recvVars>>
  /\ chan' = [chan EXCEPT ![p] = Without(@, i)]
  /\ UNCHANGED talk

\* Bug variant: the NUL is written one chunk early.
ShownCut(text, n) == [j \in 1..(n - 1) |-> text[j - 1]]

\* printf("%s"): the text up to the first NUL, which is at the latest the one
\* written after received_chunks chunks.
Shown(text, n) ==
  LET whole == {m \in 0..n : m <= MaxChunks /\ \A j \in 0..(m - 1) : text[j] # Blank}
      m == CHOOSE m \in whole : \A l \in whole : l <= m
  IN [j \in 1..m |-> text[j - 1]]

\* A datagram is read as a chunk. An acknowledgement overwrites only the number:
\* total and text stay those of the datagram before, or whatever was in memory.
ReceiveChunk(p, i, total) ==
  /\ phase[p] = "receiving" /\ Arrives(p, i)
  /\ LET d == chan[p][i]
         text == IF d.kind = "chunk" THEN <<d.round, d.num>> ELSE msg[p].text
         full == [got[p] EXCEPT ![d.num] = text]
     IN /\ total \in IF d.kind = "chunk" THEN {d.total}
                     ELSE IF msg[p].total = -1 THEN 0..MaxChunks ELSE {msg[p].total}
        /\ chan' = [chan EXCEPT ![p] = Without(@, i), ![Other(p)] = Append(@, Ack(d.num))]
        /\ IF count[p] + 1 = total
           THEN /\ Begin(p, round[p] + 1)
                /\ shown' = Append(shown, Shown(full, total))
           ELSE /\ got' = [got EXCEPT ![p] = full]
                /\ count' = [count EXCEPT ![p] = @ + 1]
                /\ msg' = [msg EXCEPT ![p] = [total |-> total, text |-> text]]
                /\ UNCHANGED <<round, phase, sendVars, shown>>
  /\ UNCHANGED typed

-----------------------------------------------------------------------------
Peer(p) ==
  \/ \E n \in MinChunks..MaxChunks : Enter(p, n)
  \/ \E due \in SUBSET Numbers : Retransmit(p, due)
  \/ NothingToSend(p)
  \/ \E i \in 1..Len(chan[p]) :
       \/ ReceiveAck(p, i)
       \/ \E total \in 0..MaxChunks : ReceiveChunk(p, i, total)

\* The rounds that are modelled are over.
Done == (\A p \in Peers : phase[p] = "over") /\ UNCHANGED vars

Next ==
  \/ \E i \in 1..Len(chan["server"]) : Boot(i)
  \/ \E p \in Peers : Peer(p) \/ \E i \in 1..Len(chan[p]) : Lose(p, i)
  \/ Done

Spec == Init /\ [][Next]_vars

\* Both programs poll without pause, a timeout comes when nothing else does, and
\* the network does not lose every copy of a chunk. Nobody has to type.
Fairness ==
  /\ WF_vars(\E i \in 1..Len(chan["server"]) : Boot(i))
  /\ \A p \in Peers :
       /\ WF_vars(\E due \in SUBSET Numbers : Retransmit(p, due))
       /\ WF_vars(NothingToSend(p))
       /\ WF_vars(\E i \in 1..Len(chan[p]) : ReceiveAck(p, i))
       /\ \A num \in Numbers :
            SF_vars(\E i \in 1..Len(chan[p]), total \in 0..MaxChunks :
                      chan[p][i].num = num /\ ReceiveChunk(p, i, total))
FairSpec == Spec /\ Fairness

-----------------------------------------------------------------------------
(* Properties.                                                             *)

\* The users talk in turns and every line arrives whole: chunks may be lost and
\* repeated as long as acknowledgements are not and a round trip takes less than
\* 0.1 s.
Lines == {Line(k, n) : k \in Rounds, n \in MinChunks..MaxChunks}
Conversation == INSTANCE HalfDuplex
Reliable == Conversation!Spec

\* "all messages sent now will check for acknowledgments" (fake_server.c:99): a
\* chunk the sender ticks off has reached the receiver.
AckedWasReceived == \A p \in Peers : \A i \in acked[p] :
  \/ round[Other(p)] > round[p]
  \/ round[Other(p)] = round[p] /\ got[Other(p)][i] = <<round[p], i>>

\* In every round one program "will send message" (fake_client.c:84) to the other:
\* until somebody enters an empty line they never both wait for the other's chunks.
SomebodyTalks ==
  \/ \E i \in 1..Len(typed) : typed[i] = <<>>
  \/ \E p \in Peers : phase[p] \in {"typing", "sending", "wild", "over"} \/ chan[p] # <<>>
=============================================================================
