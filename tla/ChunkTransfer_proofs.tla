------------------------ MODULE ChunkTransfer_proofs ------------------------
(* Proofs about ChunkTransfer, for any number of rounds and chunks, when    *)
(* the network loses chunks and nothing else goes wrong.                    *)
EXTENDS ChunkTransfer, FiniteSetTheorems, TLAPS

LossOnly == Faults \subseteq {"loseChunk"}

Datagrams == [kind : {"hello", "chunk", "ack"}, num : Nat, total : Nat, round : Nat]

TypeOK ==
  /\ DOMAIN round = Peers /\ DOMAIN phase = Peers /\ DOMAIN size = Peers /\ DOMAIN acked = Peers
  /\ DOMAIN got = Peers /\ DOMAIN count = Peers /\ DOMAIN chan = Peers
  /\ shown \in Seq(Lines)

\* A channel with a acknowledgements before chunks of round k, no number twice.
Nums(c, lo, hi) == {c[j].num : j \in lo..hi}
Mixed(c, a, k, n) ==
  /\ c \in Seq(Datagrams) /\ a \in 0..Len(c)
  /\ \A i \in 1..a : c[i].kind = "ack"
  /\ \A i \in (a + 1)..Len(c) : c[i] = Chunk(k, c[i].num, n) /\ c[i].num \in 0..(n - 1)
  /\ \A i, j \in 1..a : c[i].num = c[j].num => i = j
  /\ \A i, j \in (a + 1)..Len(c) : c[i].num = c[j].num => i = j

\* The receiver has the chunks in G.
Got(r, k, G) ==
  /\ DOMAIN got[r] = Numbers
  /\ \A i \in Numbers : got[r][i] = IF i \in G THEN <<k, i>> ELSE Blank
  /\ count[r] = Cardinality(G)

\* The sender of round k, s, has entered no line yet.
Typing(k, s) ==
  /\ k \in Rounds /\ round[s] = k /\ round[Other(s)] = k
  /\ \/ phase[s] = "typing" /\ chan[s] = <<>>
     \/ phase[s] = "boot" /\ s = "server" /\ chan[s] = <<Hello>>
  /\ phase[Other(s)] = "receiving" /\ chan[Other(s)] = <<>> /\ Got(Other(s), k, {})
  /\ acked[s] = {} /\ acked[Other(s)] = {}
  /\ typed = shown

\* The line is under way: every chunk that was received is ticked off or its
\* acknowledgement under way, and no chunk under way was received.
Sending(k, s, n, G) ==
  /\ k \in Rounds /\ round[s] = k /\ round[Other(s)] = k
  /\ phase[s] = "sending" /\ size[s] = n /\ n \in MinChunks..MaxChunks
  /\ phase[Other(s)] = "receiving" /\ Got(Other(s), k, G)
  /\ acked[Other(s)] = {}
  /\ G \subseteq 0..(n - 1) /\ (n > 0 => G # 0..(n - 1))
  /\ acked[s] \subseteq G
  /\ Mixed(chan[s], Len(chan[s]), 0, 0) /\ Nums(chan[s], 1, Len(chan[s])) = G \ acked[s]
  /\ Mixed(chan[Other(s)], 0, k, n) /\ Nums(chan[Other(s)], 1, Len(chan[Other(s)])) \cap G = {}
  /\ typed = Append(shown, Line(k, n))

\* The other has the line and goes on to the next round, of which a chunks-less part
\* or m chunks are behind the a acknowledgements s still has to read.
Ahead(k, r, full, m) ==
  \/ /\ full /\ round[r] = k + 1 /\ phase[r] = IF k + 1 = MaxRounds THEN "over" ELSE "typing"
     /\ typed = shown
  \/ /\ k + 1 \in Rounds /\ round[r] = k + 1 /\ phase[r] = "sending" /\ size[r] = m
     /\ typed = Append(shown, Line(k + 1, m))
  \/ /\ k + 1 \in Rounds /\ full /\ round[r] = k + 2 /\ phase[r] \in {"receiving", "over"}
     /\ typed = Append(shown, <<>>)
Waiting(k, s, n, a, m) ==
  /\ k \in Rounds /\ round[s] = k
  /\ phase[s] = "sending" /\ size[s] = n /\ n \in 1..MaxChunks
  /\ acked[s] \subseteq 0..(n - 1) /\ acked[s] # 0..(n - 1) /\ acked[Other(s)] = {}
  /\ chan[Other(s)] = <<>>
  /\ m \in MinChunks..MaxChunks
  /\ Mixed(chan[s], a, k + 1, m) /\ Nums(chan[s], 1, a) = (0..(n - 1)) \ acked[s]
  /\ Ahead(k, Other(s), a = Len(chan[s]), m)

\* An empty line: the other waits for it for ever.
Frozen(k, s) ==
  /\ k \in Rounds /\ round[s] = k + 1 /\ round[Other(s)] = k
  /\ phase[s] \in {"receiving", "over"} /\ phase[Other(s)] = "receiving"
  /\ chan[s] = <<>> /\ chan[Other(s)] = <<>>
  /\ acked[s] = {} /\ acked[Other(s)] = {}
  /\ typed = Append(shown, <<>>)

Over == \A p \in Peers : /\ phase[p] = "over" /\ chan[p] = <<>> /\ acked[p] = {}
                         /\ typed = shown

Round(k, s) ==
  \/ Typing(k, s)
  \/ \E n \in Nat : \E G \in SUBSET Nat : Sending(k, s, n, G)
  \/ \E n, a, m \in Nat : Waiting(k, s, n, a, m)
  \/ Frozen(k, s)
IInv == TypeOK /\ (Over \/ \E k \in Nat : \E s \in Peers : Sends(s, k) /\ Round(k, s))

\* What the users see is a step of their conversation.
Talks == [Conversation!Next]_talk

-----------------------------------------------------------------------------
LEMMA PeerFact ==
  \A p \in Peers : /\ Other(p) \in Peers /\ Other(p) # p /\ Other(Other(p)) = p
                   /\ \A q \in Peers : q = p \/ q = Other(p)
BY DEF Peers, Other

LEMMA TurnFact ==
  \A p \in Peers, k \in Nat : /\ Sends(Other(p), k) <=> ~Sends(p, k)
                              /\ Sends(p, k + 1) <=> ~Sends(p, k)
<1> SUFFICES ASSUME NEW p \in Peers, NEW k \in Nat
             PROVE  (Sends(Other(p), k) <=> ~Sends(p, k)) /\ (Sends(p, k + 1) <=> ~Sends(p, k))
  OBVIOUS
<1>1. Other(p) = "server" <=> p # "server"
  BY PeerFact DEF Peers
<1>2. (k + 1) % 2 = 0 <=> ~(k % 2 = 0)
  OBVIOUS
<1> QED  BY <1>1, <1>2 DEF Sends

LEMMA LineFact ==
  ASSUME NEW k \in Rounds, NEW n \in MinChunks..MaxChunks
  PROVE  Line(k, n) \in Lines /\ (n = 0 <=> Line(k, n) = <<>>)
<1>1. Line(k, n) \in Lines
  BY DEF Lines
<1>2. n \in Nat
  BY ChunkAssumption
<1>3. Line(k, n) \in Seq(Nat \X Int) /\ Len(Line(k, n)) = n
  BY <1>2, ChunkAssumption DEF Line, Rounds
<1> QED  BY <1>1, <1>2, <1>3

-----------------------------------------------------------------------------
(* Channels.                                                               *)

LEMMA WithoutFact ==
  ASSUME NEW c \in Seq(Datagrams), NEW i \in 1..Len(c)
  PROVE  /\ Without(c, i) \in Seq(Datagrams) /\ Len(Without(c, i)) = Len(c) - 1
         /\ \A j \in 1..(Len(c) - 1) : Without(c, i)[j] = IF j < i THEN c[j] ELSE c[j + 1]
BY DEF Without

LEMMA FirstRead ==
  ASSUME NEW a \in Nat, NEW k, NEW n, NEW c, Mixed(c, a, k, n), a > 0
  PROVE  /\ Mixed(Without(c, 1), a - 1, k, n)
         /\ Nums(Without(c, 1), 1, a - 1) = Nums(c, 1, a) \ {c[1].num}
         /\ c[1].num \in Nums(c, 1, a) /\ c[1].kind = "ack"
         /\ a = Len(c) <=> a - 1 = Len(Without(c, 1))
<1> DEFINE d == Without(c, 1)
<1>1. c \in Seq(Datagrams) /\ Len(c) \in Nat /\ a \in 1..Len(c) /\ 1 \in 1..Len(c)
  BY DEF Mixed
<1>2. d \in Seq(Datagrams) /\ Len(d) = Len(c) - 1 /\ \A j \in 1..Len(d) : d[j] = c[j + 1]
  <2>1. /\ d \in Seq(Datagrams) /\ Len(d) = Len(c) - 1
        /\ \A j \in 1..(Len(c) - 1) : d[j] = IF j < 1 THEN c[j] ELSE c[j + 1]
    BY <1>1, WithoutFact, Zenon
  <2>2. \A j \in 1..Len(d) : j \in 1..(Len(c) - 1) /\ ~(j < 1)
    BY <1>1, <2>1
  <2> QED  BY <2>1, <2>2
<1> HIDE DEF d
<1>3. Mixed(d, a - 1, k, n)
  <2>1. \A i \in 1..(a - 1) : d[i].kind = "ack"
    BY <1>1, <1>2 DEF Mixed
  <2>2. \A i \in a..Len(d) : d[i] = Chunk(k, d[i].num, n) /\ d[i].num \in 0..(n - 1)
    BY <1>1, <1>2 DEF Mixed
  <2>3. \A i, j \in 1..(a - 1) : d[i].num = d[j].num => i = j
    BY <1>1, <1>2 DEF Mixed
  <2>4. ASSUME NEW i \in a..Len(d), NEW j \in a..Len(d), d[i].num = d[j].num PROVE i = j
    <3>1. i \in 1..Len(d) /\ j \in 1..Len(d) /\ i + 1 \in (a + 1)..Len(c) /\ j + 1 \in (a + 1)..Len(c)
      BY <1>1, <1>2
    <3>2. c[i + 1].num = c[j + 1].num
      BY <1>2, <2>4, <3>1
    <3>3. i + 1 = j + 1
      BY <3>1, <3>2 DEF Mixed
    <3> QED  BY <1>1, <3>3
  <2>5. (a - 1) + 1 = a /\ a - 1 \in 0..Len(d)
    BY <1>1, <1>2
  <2> QED  BY <1>2, <2>1, <2>2, <2>3, <2>4, <2>5 DEF Mixed
<1>4. Nums(d, 1, a - 1) = Nums(c, 1, a) \ {c[1].num}
  <2>1. ASSUME NEW x \in Nums(d, 1, a - 1) PROVE x \in Nums(c, 1, a) \ {c[1].num}
    <3>1. PICK j \in 1..(a - 1) : x = d[j].num
      BY DEF Nums
    <3>2. x = c[j + 1].num /\ j + 1 \in 1..a /\ j + 1 # 1
      BY <1>1, <1>2, <3>1
    <3> QED  BY <1>1, <3>2 DEF Nums, Mixed
  <2>2. ASSUME NEW x \in Nums(c, 1, a), x # c[1].num PROVE x \in Nums(d, 1, a - 1)
    <3>1. PICK j \in 1..a : x = c[j].num
      BY DEF Nums
    <3>2. j - 1 \in 1..(a - 1) /\ d[j - 1] = c[j]
      BY <1>1, <1>2, <2>2, <3>1
    <3> QED  BY <3>1, <3>2 DEF Nums
  <2> QED  BY <2>1, <2>2
<1>5. c[1].num \in Nums(c, 1, a) /\ c[1].kind = "ack"
  BY <1>1 DEF Nums, Mixed
<1> QED  BY <1>1, <1>2, <1>3, <1>4, <1>5 DEF d

\* A chunk leaves the channel, read or lost.
LEMMA ChunkGone ==
  ASSUME NEW a \in Nat, NEW k, NEW n, NEW c, Mixed(c, a, k, n), NEW i \in (a + 1)..Len(c)
  PROVE  /\ Mixed(Without(c, i), a, k, n)
         /\ Nums(Without(c, i), 1, a) = Nums(c, 1, a)
         /\ Nums(Without(c, i), a + 1, Len(c) - 1) = Nums(c, a + 1, Len(c)) \ {c[i].num}
         /\ Len(Without(c, i)) = Len(c) - 1
<1> DEFINE d == Without(c, i)
<1>1. c \in Seq(Datagrams) /\ Len(c) \in Nat /\ a \in 0..Len(c) /\ i \in 1..Len(c)
  BY DEF Mixed
<1>2. d \in Seq(Datagrams) /\ Len(d) = Len(c) - 1 /\ \A j \in 1..Len(d) : d[j] = IF j < i THEN c[j] ELSE c[j + 1]
  BY <1>1, WithoutFact
<1> HIDE DEF d
<1>3. Mixed(d, a, k, n)
  <2>1. \A j \in 1..a : d[j] = c[j]
    BY <1>1, <1>2
  <2>0. \A j \in (a + 1)..Len(d) : \E l \in (a + 1)..Len(c) : d[j] = c[l] /\ l = IF j < i THEN j ELSE j + 1
    <3> SUFFICES ASSUME NEW j \in (a + 1)..Len(d)
                 PROVE  \E l \in (a + 1)..Len(c) : d[j] = c[l] /\ l = IF j < i THEN j ELSE j + 1
      OBVIOUS
    <3>1. j \in 1..Len(d) /\ j \in (a + 1)..Len(c) /\ j + 1 \in (a + 1)..Len(c)
      BY <1>1, <1>2
    <3>2. d[j] = IF j < i THEN c[j] ELSE c[j + 1]
      BY <1>2, <3>1
    <3> QED  BY <3>1, <3>2
  <2>2. \A j \in (a + 1)..Len(d) : d[j] = Chunk(k, d[j].num, n) /\ d[j].num \in 0..(n - 1)
    BY <2>0 DEF Mixed
  <2>3. ASSUME NEW j \in (a + 1)..Len(d), NEW l \in (a + 1)..Len(d), d[j].num = d[l].num PROVE j = l
    <3>1. PICK x \in (a + 1)..Len(c) : d[j] = c[x] /\ x = IF j < i THEN j ELSE j + 1
      BY <2>0
    <3>2. PICK y \in (a + 1)..Len(c) : d[l] = c[y] /\ y = IF l < i THEN l ELSE l + 1
      BY <2>0
    <3>3. x = y
      BY <2>3, <3>1, <3>2 DEF Mixed
    <3> QED  BY <1>1, <1>2, <3>1, <3>2, <3>3
  <2>4. a \in 0..Len(d)
    BY <1>1, <1>2
  <2>5. (\A j \in 1..a : d[j].kind = "ack") /\ \A j, l \in 1..a : d[j].num = d[l].num => j = l
    BY <2>1 DEF Mixed
  <2> QED  BY <1>2, <2>2, <2>3, <2>4, <2>5 DEF Mixed
<1>4. Nums(d, 1, a) = Nums(c, 1, a)
  <2>1. \A j \in 1..a : d[j] = c[j]
    BY <1>1, <1>2
  <2> QED  BY <2>1 DEF Nums
<1>5. Nums(d, a + 1, Len(d)) = Nums(c, a + 1, Len(c)) \ {c[i].num}
  <2>1. ASSUME NEW x \in Nums(d, a + 1, Len(d)) PROVE x \in Nums(c, a + 1, Len(c)) \ {c[i].num}
    <3>1. PICK j \in (a + 1)..Len(d) : x = d[j].num
      BY DEF Nums
    <3>2. PICK l \in (a + 1)..Len(c) : x = c[l].num /\ l # i
      BY <1>1, <1>2, <3>1
    <3> QED  BY <3>2 DEF Nums, Mixed
  <2>2. ASSUME NEW x \in Nums(c, a + 1, Len(c)), x # c[i].num PROVE x \in Nums(d, a + 1, Len(d))
    <3>1. PICK j \in (a + 1)..Len(c) : x = c[j].num
      BY DEF Nums
    <3>2. PICK l \in (a + 1)..Len(d) : d[l] = c[j]
      <4>1. CASE j < i
        <5>1. j \in (a + 1)..Len(d) /\ d[j] = c[j]
          BY <1>1, <1>2, <4>1
        <5> QED  BY <5>1
      <4>2. CASE j > i
        <5>1. j - 1 \in (a + 1)..Len(d) /\ d[j - 1] = c[j]
          BY <1>1, <1>2, <4>2
        <5> QED  BY <5>1
      <4> QED  BY <1>1, <2>2, <3>1, <4>1, <4>2
    <3> QED  BY <3>1, <3>2 DEF Nums
  <2> QED  BY <2>1, <2>2
<1> QED  BY <1>2, <1>3, <1>4, <1>5 DEF d

LEMMA AckSent ==
  ASSUME NEW c, Mixed(c, Len(c), 0, 0), NEW q \in Nat, q \notin Nums(c, 1, Len(c))
  PROVE  /\ Mixed(Append(c, Ack(q)), Len(Append(c, Ack(q))), 0, 0)
         /\ Nums(Append(c, Ack(q)), 1, Len(Append(c, Ack(q)))) = Nums(c, 1, Len(c)) \cup {q}
<1> DEFINE d == Append(c, Ack(q))
<1>1. c \in Seq(Datagrams) /\ Len(c) \in Nat /\ Ack(q) \in Datagrams /\ Ack(q).num = q /\ Ack(q).kind = "ack"
  BY DEF Mixed, Datagrams, Ack
<1>2. d \in Seq(Datagrams) /\ Len(d) = Len(c) + 1 /\ d[Len(c) + 1] = Ack(q) /\ \A j \in 1..Len(c) : d[j] = c[j]
  BY <1>1
<1> HIDE DEF d
<1>3. \A j \in 1..Len(d) : j \in 1..Len(c) \/ j = Len(c) + 1
  BY <1>1, <1>2
<1>4. \A j \in 1..Len(c) : c[j].num # q
  BY DEF Nums
<1>5. Mixed(d, Len(d), 0, 0)
  <2>1. \A j \in 1..Len(d) : d[j].kind = "ack"
    BY <1>1, <1>2, <1>3 DEF Mixed
  <2>2. \A i, j \in 1..Len(d) : d[i].num = d[j].num => i = j
    BY <1>1, <1>2, <1>3, <1>4 DEF Mixed
  <2> QED  BY <1>1, <1>2, <2>1, <2>2 DEF Mixed
<1>6. Nums(d, 1, Len(d)) = Nums(c, 1, Len(c)) \cup {q}
  BY <1>1, <1>2, <1>3 DEF Nums
<1> QED  BY <1>5, <1>6 DEF d

LEMMA SameNums ==
  ASSUME NEW c, NEW d, NEW lo, NEW hi, \A j \in lo..hi : d[j] = c[j]
  PROVE  Nums(d, lo, hi) = Nums(c, lo, hi)
BY DEF Nums

LEMMA ConcatFact ==
  ASSUME NEW c \in Seq(Datagrams), NEW e \in Seq(Datagrams)
  PROVE  /\ c \o e \in Seq(Datagrams) /\ Len(c \o e) = Len(c) + Len(e)
         /\ \A j \in 1..Len(c) : (c \o e)[j] = c[j]
         /\ \A j \in 1..Len(e) : (c \o e)[Len(c) + j] = e[j]
OBVIOUS

\* Behind c, m chunks were added, whose numbers f lists.
Longer(d, c, k, n, m, f) ==
  /\ d \in Seq(Datagrams) /\ Len(d) = Len(c) + m
  /\ \A j \in 1..Len(c) : d[j] = c[j]
  /\ \A j \in 1..m : d[Len(c) + j] = Chunk(k, f[j], n)

LEMMA LongerFact ==
  ASSUME NEW m \in Nat, NEW k \in Nat, NEW n \in Nat, NEW c \in Seq(Datagrams),
         NEW f, \A j \in 1..m : f[j] \in 0..(n - 1)
  PROVE  Longer(c \o [j \in 1..m |-> Chunk(k, f[j], n)], c, k, n, m, f)
<1> DEFINE e == [j \in 1..m |-> Chunk(k, f[j], n)]
<1>1. \A j \in 1..m : Chunk(k, f[j], n) \in Datagrams
  BY DEF Chunk, Datagrams
<1>2. e \in Seq(Datagrams) /\ Len(e) = m /\ \A j \in 1..m : e[j] = Chunk(k, f[j], n)
  BY <1>1
<1> HIDE DEF e
<1>3. Longer(c \o e, c, k, n, m, f)
  BY <1>2, ConcatFact DEF Longer
<1> QED  BY <1>3 DEF e

\* The m numbers are of chunks, and new.
Fresh(f, m, n, used) ==
  /\ \A j \in 1..m : f[j] \in 0..(n - 1) /\ f[j] \notin used
  /\ \A i, j \in 1..m : f[i] = f[j] => i = j

Sent(f, m) == {f[j] : j \in 1..m}

\* A line, or chunks that are sent again.
LEMMA ChunksSent ==
  ASSUME NEW a \in Nat, NEW k \in Nat, NEW n \in Nat, NEW c, Mixed(c, a, k, n),
         NEW m \in Nat, NEW f, Fresh(f, m, n, Nums(c, a + 1, Len(c))),
         NEW d, Longer(d, c, k, n, m, f)
  PROVE  /\ Mixed(d, a, k, n) /\ Nums(d, 1, a) = Nums(c, 1, a)
         /\ Len(d) = Len(c) + m
         /\ Nums(d, a + 1, Len(d)) \subseteq Nums(c, a + 1, Len(c)) \cup Sent(f, m)
<1>0. /\ \A j \in 1..m : f[j] \in 0..(n - 1) /\ f[j] \notin Nums(c, a + 1, Len(c))
      /\ \A i, j \in 1..m : f[i] = f[j] => i = j
  BY DEF Fresh
<1>1. c \in Seq(Datagrams) /\ Len(c) \in Nat /\ a \in 0..Len(c)
  BY DEF Mixed
<1>3. /\ d \in Seq(Datagrams) /\ Len(d) = Len(c) + m
      /\ \A j \in 1..Len(c) : d[j] = c[j]
      /\ \A j \in 1..m : d[Len(c) + j] = Chunk(k, f[j], n)
  BY DEF Longer
<1>4. \A j \in 1..Len(d) : j \in 1..Len(c) \/ \E i \in 1..m : j = Len(c) + i /\ d[j] = Chunk(k, f[i], n)
  <2> SUFFICES ASSUME NEW j \in 1..Len(d), j \notin 1..Len(c)
               PROVE  \E i \in 1..m : j = Len(c) + i /\ d[j] = Chunk(k, f[i], n)
    OBVIOUS
  <2>1. PICK i \in 1..m : j = Len(c) + i
    <3>1. j - Len(c) \in 1..m /\ j = Len(c) + (j - Len(c))
      BY <1>1, <1>3
    <3> QED  BY <3>1
  <2> QED  BY <1>3, <2>1
<1>5. \A j \in 1..m : Chunk(k, f[j], n).num = f[j]
  BY DEF Chunk
<1>6. \A j \in (a + 1)..Len(c) : c[j].num \in Nums(c, a + 1, Len(c))
  BY DEF Nums
<1>7. Mixed(d, a, k, n)
  <2>0. \A j \in 1..a : d[j] = c[j]
    BY <1>1, <1>3
  <2>1. (\A j \in 1..a : d[j].kind = "ack") /\ \A i, j \in 1..a : d[i].num = d[j].num => i = j
    BY <2>0 DEF Mixed
  <2>2. ASSUME NEW j \in (a + 1)..Len(d) PROVE d[j] = Chunk(k, d[j].num, n) /\ d[j].num \in 0..(n - 1)
    <3>1. CASE j \in 1..Len(c)
      BY <1>1, <1>3, <3>1 DEF Mixed
    <3>2. CASE j \notin 1..Len(c)
      <4>1. PICK i \in 1..m : d[j] = Chunk(k, f[i], n)
        BY <1>1, <1>4, <3>2
      <4>2. d[j].num = f[i]
        BY <1>5, <4>1
      <4> QED  BY <1>0, <4>1, <4>2
    <3> QED  BY <3>1, <3>2
  <2>3. ASSUME NEW i \in (a + 1)..Len(d), NEW j \in (a + 1)..Len(d), d[i].num = d[j].num PROVE i = j
    <3>0. i \in 1..Len(d) /\ j \in 1..Len(d)
      BY <1>1, <1>3
    <3>1. CASE i \in 1..Len(c) /\ j \in 1..Len(c)
      <4>1. i \in (a + 1)..Len(c) /\ j \in (a + 1)..Len(c) /\ d[i] = c[i] /\ d[j] = c[j]
        BY <1>1, <1>3, <3>1
      <4>2. c[i].num = c[j].num
        BY <2>3, <4>1
      <4> QED  BY <4>1, <4>2 DEF Mixed
    <3>2. CASE i \notin 1..Len(c) /\ j \notin 1..Len(c)
      <4>1. PICK x \in 1..m : i = Len(c) + x /\ d[i] = Chunk(k, f[x], n)
        BY <1>4, <3>0, <3>2
      <4>2. PICK y \in 1..m : j = Len(c) + y /\ d[j] = Chunk(k, f[y], n)
        BY <1>4, <3>0, <3>2
      <4>3. f[x] = f[y]
        BY <1>5, <2>3, <4>1, <4>2
      <4>4. x = y
        BY <1>0, <4>3
      <4> QED  BY <4>1, <4>2, <4>4
    <3>3. CASE i \in 1..Len(c) /\ j \notin 1..Len(c)
      <4>1. PICK y \in 1..m : d[j] = Chunk(k, f[y], n)
        BY <1>4, <3>0, <3>3
      <4>2. d[j].num = f[y]
        BY <1>5, <4>1
      <4>3. i \in (a + 1)..Len(c) /\ d[i] = c[i]
        BY <1>1, <1>3, <3>3
      <4>4. d[i].num \in Nums(c, a + 1, Len(c))
        BY <1>6, <4>3
      <4> QED  BY <1>0, <2>3, <4>2, <4>4
    <3>4. CASE i \notin 1..Len(c) /\ j \in 1..Len(c)
      <4>1. PICK x \in 1..m : d[i] = Chunk(k, f[x], n)
        BY <1>4, <3>0, <3>4
      <4>2. d[i].num = f[x]
        BY <1>5, <4>1
      <4>3. j \in (a + 1)..Len(c) /\ d[j] = c[j]
        BY <1>1, <1>3, <3>4
      <4>4. d[j].num \in Nums(c, a + 1, Len(c))
        BY <1>6, <4>3
      <4> QED  BY <1>0, <2>3, <4>2, <4>4
    <3> QED  BY <3>1, <3>2, <3>3, <3>4
  <2>4. d \in Seq(Datagrams) /\ a \in 0..Len(d)
    BY <1>1, <1>3
  <2> QED  BY <2>1, <2>2, <2>3, <2>4 DEF Mixed
<1>8. Nums(d, 1, a) = Nums(c, 1, a)
  <2>1. \A j \in 1..a : d[j] = c[j]
    BY <1>1, <1>3
  <2> QED  BY <2>1, SameNums
<1>9. ASSUME NEW x \in Nums(d, a + 1, Len(d)) PROVE x \in Nums(c, a + 1, Len(c)) \/ \E j \in 1..m : x = f[j]
  <2>1. PICK j \in (a + 1)..Len(d) : x = d[j].num
    BY DEF Nums
  <2>2. j \in 1..Len(d)
    BY <1>1, <1>3
  <2>3. CASE j \in 1..Len(c)
    BY <1>1, <1>3, <1>6, <2>1, <2>3
  <2>4. CASE j \notin 1..Len(c)
    <3>1. PICK y \in 1..m : d[j] = Chunk(k, f[y], n)
      BY <1>4, <2>2, <2>4
    <3> QED  BY <1>5, <2>1, <3>1
  <2> QED  BY <2>3, <2>4
<1> QED  BY <1>3, <1>7, <1>8, <1>9 DEF Sent

\* The same when no acknowledgements are in front.
LEMMA OnlyChunksGone ==
  ASSUME NEW k, NEW n, NEW c, Mixed(c, 0, k, n), NEW i \in 1..Len(c)
  PROVE  /\ Mixed(Without(c, i), 0, k, n)
         /\ Nums(Without(c, i), 1, Len(c) - 1) = Nums(c, 1, Len(c)) \ {c[i].num}
         /\ Len(Without(c, i)) = Len(c) - 1
<1>1. \A a \in Nat : Mixed(c, a, k, n) =>
        \A j \in (a + 1)..Len(c) :
          /\ Mixed(Without(c, j), a, k, n)
          /\ Nums(Without(c, j), a + 1, Len(c) - 1) = Nums(c, a + 1, Len(c)) \ {c[j].num}
          /\ Len(Without(c, j)) = Len(c) - 1
  BY ChunkGone
<1> QED  BY <1>1

LEMMA OnlyChunksSent ==
  ASSUME NEW k \in Nat, NEW n \in Nat, NEW c, Mixed(c, 0, k, n),
         NEW m \in Nat, NEW f, Fresh(f, m, n, Nums(c, 1, Len(c))), NEW d, Longer(d, c, k, n, m, f)
  PROVE  /\ Mixed(d, 0, k, n)
         /\ Nums(d, 1, Len(d)) \subseteq Nums(c, 1, Len(c)) \cup Sent(f, m)
<1>1. ASSUME NEW a \in Nat, Mixed(c, a, k, n), Fresh(f, m, n, Nums(c, a + 1, Len(c)))
      PROVE  /\ Mixed(d, a, k, n)
             /\ Nums(d, a + 1, Len(d)) \subseteq Nums(c, a + 1, Len(c)) \cup Sent(f, m)
  BY <1>1, ChunksSent
<1> QED  BY <1>1

LEMMA NoDatagrams ==
  /\ \A k, n : Mixed(<<>>, 0, k, n) /\ Len(<<>>) = 0
  /\ \A hi \in Int : hi < 1 => Nums(<<>>, 1, hi) = {}
  /\ \A c, k, n, x, y : Mixed(c, Len(c), k, n) => Mixed(c, Len(c), x, y)
<1>1. \A k, n : Mixed(<<>>, 0, k, n) /\ Len(<<>>) = 0
  BY DEF Mixed
<1>2. \A hi \in Int : hi < 1 => Nums(<<>>, 1, hi) = {}
  BY DEF Nums
<1>3. ASSUME NEW c, NEW k, NEW n, NEW x, NEW y, Mixed(c, Len(c), k, n) PROVE Mixed(c, Len(c), x, y)
  BY <1>3 DEF Mixed
<1> QED  BY <1>1, <1>2, <1>3

LEMMA CountFact ==
  ASSUME NEW n \in Nat, NEW A, A \subseteq 0..(n - 1)
  PROVE  /\ Cardinality(A) \in Nat /\ (Cardinality(A) = n <=> A = 0..(n - 1))
         /\ \A q \in Nat : q \notin A => Cardinality(A \cup {q}) = Cardinality(A) + 1
<1>1. IsFiniteSet(0..(n - 1)) /\ Cardinality(0..(n - 1)) = n
  BY FS_Interval
<1>2. IsFiniteSet(A) /\ Cardinality(A) \in Nat
  BY <1>1, FS_Subset, FS_CardinalityType
<1>3. Cardinality(A) = n => A = 0..(n - 1)
  BY <1>1, FS_Subset
<1>4. \A q \in Nat : q \notin A => Cardinality(A \cup {q}) = Cardinality(A) + 1
  BY <1>2, FS_AddElement
<1> QED  BY <1>1, <1>2, <1>3, <1>4

-----------------------------------------------------------------------------
(* Which step comes next.                                                  *)

LEMMA StepFact ==
  ASSUME Next, NEW s \in Peers
  PROVE  \/ \E i \in 1..Len(chan["server"]) : Boot(i)
         \/ Peer(s) \/ \E i \in 1..Len(chan[s]) : Lose(s, i)
         \/ Peer(Other(s)) \/ \E i \in 1..Len(chan[Other(s)]) : Lose(Other(s), i)
         \/ UNCHANGED vars
BY PeerFact DEF Next, Done

LEMMA TurnOf ==
  ASSUME NEW p \in Peers, Peer(p)
  PROVE  \/ phase[p] = "typing" /\ \E n \in MinChunks..MaxChunks : Enter(p, n)
         \/ /\ phase[p] = "sending" /\ chan[p] = <<>>
            /\ \/ \E due \in SUBSET Numbers : Retransmit(p, due)
               \/ NothingToSend(p)
         \/ phase[p] = "sending" /\ \E i \in 1..Len(chan[p]) : ReceiveAck(p, i)
         \/ phase[p] = "receiving" /\ \E i \in 1..Len(chan[p]), total \in 0..MaxChunks : ReceiveChunk(p, i, total)
<1>1. ASSUME NEW n \in MinChunks..MaxChunks, Enter(p, n) PROVE phase[p] = "typing"
  BY <1>1 DEF Enter
<1>2. ASSUME NEW due \in SUBSET Numbers, Retransmit(p, due) PROVE phase[p] = "sending" /\ chan[p] = <<>>
  BY <1>2 DEF Retransmit
<1>3. ASSUME NothingToSend(p) PROVE phase[p] = "sending" /\ chan[p] = <<>>
  BY <1>3 DEF NothingToSend
<1>4. ASSUME NEW i \in 1..Len(chan[p]), ReceiveAck(p, i) PROVE phase[p] = "sending"
  BY <1>4 DEF ReceiveAck
<1>5. ASSUME NEW i \in 1..Len(chan[p]), NEW total \in 0..MaxChunks, ReceiveChunk(p, i, total) PROVE phase[p] = "receiving"
  BY <1>5 DEF ReceiveChunk
<1> QED  BY <1>1, <1>2, <1>3, <1>4, <1>5 DEF Peer

\* Only chunks are lost, and datagrams arrive in the order they were sent.
LEMMA NetworkFact ==
  ASSUME LossOnly, NEW p \in Peers, NEW i
  PROVE  /\ Lose(p, i) => chan[p][i].kind = "chunk"
         /\ Arrives(p, i) => i = 1 /\ 1 \in 1..Len(chan[p])
<1>1. Lose(p, i) => chan[p][i].kind = "chunk"
  BY DEF LossOnly, Lose, FaultOf
<1>2. Arrives(p, i) => i = 1 /\ 1 \in 1..Len(chan[p])
  BY DEF LossOnly, Arrives
<1> QED  BY <1>1, <1>2

LEMMA BeginFact ==
  ASSUME TypeOK, NEW p \in Peers, NEW k \in Nat, Begin(p, k)
  PROVE  /\ round'[p] = k
         /\ phase'[p] = IF k = MaxRounds THEN "over" ELSE IF Sends(p, k) THEN "typing" ELSE "receiving"
         /\ acked'[p] = {}
         /\ \A j : Got(p, j, {})'
         /\ round'[Other(p)] = round[Other(p)] /\ phase'[Other(p)] = phase[Other(p)]
         /\ size'[Other(p)] = size[Other(p)] /\ acked'[Other(p)] = acked[Other(p)]
         /\ \A j, G : Got(Other(p), j, G) => Got(Other(p), j, G)'
         /\ DOMAIN round' = Peers /\ DOMAIN phase' = Peers /\ DOMAIN size' = Peers /\ DOMAIN acked' = Peers
         /\ DOMAIN got' = Peers /\ DOMAIN count' = Peers
<1>1. Other(p) \in Peers /\ Other(p) # p
  BY PeerFact
<1>2. got'[p] = [i \in Numbers |-> Blank] /\ count'[p] = 0
  BY DEF TypeOK, Begin
<1>3. \A j : Got(p, j, {})'
  BY <1>2, FS_EmptySet DEF Got
<1>4. got'[Other(p)] = got[Other(p)] /\ count'[Other(p)] = count[Other(p)]
  BY <1>1 DEF TypeOK, Begin
<1>5. \A j, G : Got(Other(p), j, G) => Got(Other(p), j, G)'
  BY <1>4 DEF Got
<1> QED  BY <1>1, <1>3, <1>5 DEF TypeOK, Begin

-----------------------------------------------------------------------------
(* Steps from each part of a round.                                        *)

\* What every step has to show.
Kept == IInv' /\ Talks

LEMMA RoundKept ==
  ASSUME TypeOK', NEW k \in Nat, NEW s \in Peers, Sends(s, k), Round(k, s)'
  PROVE  IInv'
BY DEF IInv

LEMMA Silence ==
  ASSUME UNCHANGED talk
  PROVE  Talks
BY DEF Talks

LEMMA SomeLine ==
  /\ MaxChunks \in Nat /\ MinChunks \in Nat
  /\ \A n \in MinChunks..MaxChunks : n \in Nat /\ MaxChunks \in MinChunks..MaxChunks
BY ChunkAssumption

\* The line the user has entered, chunk by chunk.
UpTo(n) == [i \in 1..n |-> i - 1]

LEMMA LineAdded ==
  ASSUME NEW c, NEW k \in Nat, NEW n \in Nat, Mixed(c, Len(c), k, n), NEW d, Longer(d, c, k, n, n, UpTo(n))
  PROVE  Mixed(d, Len(c), k, n)
<1>1. Len(c) \in Nat
  BY DEF Mixed
<1>2. Nums(c, Len(c) + 1, Len(c)) = {}
  BY <1>1 DEF Nums
<1>3. Fresh(UpTo(n), n, n, Nums(c, Len(c) + 1, Len(c)))
  BY <1>2 DEF Fresh, UpTo
<1>4. ASSUME NEW a \in Nat, Mixed(c, a, k, n), Fresh(UpTo(n), n, n, Nums(c, a + 1, Len(c)))
      PROVE  Mixed(d, a, k, n)
  BY <1>4, ChunksSent
<1> QED  BY <1>1, <1>3, <1>4

LEMMA LineSent ==
  ASSUME NEW c, NEW k \in Nat, NEW n \in Nat, Mixed(c, Len(c), k, n),
         NEW d, d = c \o [i \in 1..n |-> Chunk(k, i - 1, n)]
  PROVE  Mixed(d, Len(c), k, n) /\ Longer(d, c, k, n, n, UpTo(n))
<1>1. \A j \in 1..n : UpTo(n)[j] = j - 1 /\ UpTo(n)[j] \in 0..(n - 1)
  BY DEF UpTo
<1>2. [i \in 1..n |-> Chunk(k, i - 1, n)] = [j \in 1..n |-> Chunk(k, UpTo(n)[j], n)]
  BY <1>1
<1>3. c \in Seq(Datagrams)
  BY DEF Mixed
<1>4. Longer(d, c, k, n, n, UpTo(n))
  <2>1. Longer(c \o [j \in 1..n |-> Chunk(k, UpTo(n)[j], n)], c, k, n, n, UpTo(n))
    BY <1>1, <1>3, LongerFact
  <2> QED  BY <1>2, <2>1
<1> QED  BY <1>4, LineAdded

LEMMA FromTyping ==
  ASSUME LossOnly, TypeOK, Next, NEW k \in Nat, NEW s \in Peers, Sends(s, k), Typing(k, s)
  PROVE  Kept
<1> DEFINE r == Other(s)
<1>1. r \in Peers /\ r # s /\ Other(r) = s
  BY PeerFact
<1>2. chan[r] = <<>> /\ phase[r] = "receiving"
  BY DEF Typing
<1>3. ASSUME NEW i \in 1..Len(chan["server"]), Boot(i) PROVE Kept
  <2>1. s = "server" /\ phase[s] = "boot" /\ chan[s] = <<Hello>>
    BY <1>1, <1>2, <1>3 DEF Boot, Typing, Peers
  <2>2. i = 1 /\ Without(<<Hello>>, 1) = <<>>
    BY <1>3, <2>1 DEF Without
  <2>3. /\ chan'[s] = <<>> /\ chan'[r] = chan[r] /\ phase'[s] = "typing" /\ phase'[r] = phase[r]
        /\ DOMAIN chan' = Peers /\ DOMAIN phase' = Peers
        /\ UNCHANGED <<round, size, acked, got, count, typed, shown>>
    BY <1>1, <1>3, <2>1, <2>2 DEF Boot, TypeOK, sendVars, recvVars, talk
  <2>4. TypeOK'
    BY <2>3 DEF TypeOK
  <2>5. Typing(k, s)'
    BY <1>1, <2>3 DEF Typing, Got
  <2>6. UNCHANGED talk
    BY <2>3 DEF talk
  <2> QED  BY <2>4, <2>5, <2>6, RoundKept, Silence DEF Round, Kept
<1>4. ASSUME NEW n \in MinChunks..MaxChunks, Enter(s, n) PROVE Kept
  <2>1. n \in Nat /\ k \in Rounds
    BY SomeLine DEF Typing
  <2>2. phase[s] = "typing" /\ chan[s] = <<>> /\ round[s] = k
    BY <1>4 DEF Enter, Typing
  <2>3. /\ chan'[s] = <<>> /\ chan'[r] = <<>> \o [i \in 1..n |-> Chunk(k, i - 1, n)]
        /\ phase'[s] = "sending" /\ phase'[r] = phase[r] /\ size'[s] = n
        /\ DOMAIN chan' = Peers /\ DOMAIN phase' = Peers /\ DOMAIN size' = Peers
        /\ typed' = Append(typed, Line(k, n))
        /\ UNCHANGED <<round, acked, got, count, shown>>
    BY <1>1, <1>2, <1>4, <2>2 DEF Enter, TypeOK, recvVars
  <2>4. TypeOK'
    BY <2>3 DEF TypeOK
  <2>5. Mixed(chan'[r], 0, k, n)
    <3>1. Mixed(<<>>, 0, k, n) /\ Len(<<>>) = 0
      BY NoDatagrams
    <3>2. chan'[r] = <<>> \o [i \in 1..n |-> Chunk(k, i - 1, n)]
      BY <2>3
    <3>3. Mixed(<<>>, Len(<<>>), k, n)
      BY <3>1
    <3>4. Mixed(chan'[r], Len(<<>>), k, n)
      BY <2>1, <3>2, <3>3, LineSent, Zenon
    <3> QED  BY <3>1, <3>4
  <2>6. Mixed(chan'[s], Len(chan'[s]), 0, 0) /\ Nums(chan'[s], 1, Len(chan'[s])) = {}
    BY <2>3, NoDatagrams
  <2>7. n > 0 => {} # 0..(n - 1)
    BY <2>1
  <2>8. Sending(k, s, n, {})'
    BY <1>1, <2>1, <2>3, <2>5, <2>6, <2>7 DEF Sending, Typing, Got
  <2>9. Talks
    <3>1. Line(k, n) \in Lines
      BY <2>1, LineFact
    <3> QED  BY <2>3, <3>1 DEF Talks, Typing, Conversation!Next, Conversation!Type
  <2> QED  BY <2>1, <2>4, <2>8, <2>9, RoundKept DEF Round, Kept
<1>5. ASSUME NEW p \in Peers, NEW i \in 1..Len(chan[p]), Lose(p, i) PROVE FALSE
  <2>1. p = s
    BY <1>1, <1>2, <1>5, PeerFact
  <2>2. chan[s] = <<Hello>> /\ i = 1
    <3>1. chan[s] = <<Hello>> \/ chan[s] = <<>>
      BY DEF Typing
    <3>2. Len(<<Hello>>) = 1 /\ Len(<<>>) = 0
      OBVIOUS
    <3>3. i \in 1..Len(chan[s]) /\ 1..0 = {} /\ 1..1 = {1}
      BY <2>1
    <3> QED  BY <3>1, <3>2, <3>3
  <2> QED  BY <1>5, <2>1, <2>2, NetworkFact DEF Hello
<1>6. Peer(s) => \E n \in MinChunks..MaxChunks : Enter(s, n)
  BY TurnOf DEF Typing
<1>7. ~Peer(r)
  BY <1>1, <1>2, TurnOf
<1>8. ASSUME UNCHANGED vars PROVE Kept
  <2>1. TypeOK' /\ Typing(k, s)' /\ UNCHANGED talk
    BY <1>8 DEF TypeOK, Typing, Got, vars, talk
  <2> QED  BY <2>1, RoundKept, Silence DEF Round, Kept
<1> QED  BY <1>1, <1>3, <1>4, <1>5, <1>6, <1>7, <1>8, StepFact

LEMMA SendingLose ==
  ASSUME LossOnly, TypeOK, NEW k \in Nat, NEW s \in Peers, Sends(s, k), NEW n \in Nat, NEW G \in SUBSET Nat,
         Sending(k, s, n, G), NEW p \in Peers, NEW i \in 1..Len(chan[p]), Lose(p, i)
  PROVE  Kept
<1> DEFINE r == Other(s)
<1>1. r \in Peers /\ r # s /\ Other(r) = s /\ (p = s \/ p = r)
  BY PeerFact
<1>2. p = r
  <2>1. chan[p][i].kind = "chunk"
    BY NetworkFact
  <2>2. \A j \in 1..Len(chan[s]) : chan[s][j].kind = "ack"
    BY DEF Sending, Mixed
  <2> QED  BY <1>1, <2>1, <2>2
<1>3. /\ chan'[r] = Without(chan[r], i) /\ chan'[s] = chan[s] /\ DOMAIN chan' = Peers
      /\ UNCHANGED <<round, phase, size, acked, got, count, typed, shown>>
  BY <1>1, <1>2 DEF Lose, TypeOK, sendVars, recvVars, talk
<1>4. Mixed(chan[r], 0, k, n) /\ Nums(chan[r], 1, Len(chan[r])) \cap G = {}
  BY DEF Sending
<1>5. /\ Mixed(chan'[r], 0, k, n)
      /\ Nums(chan'[r], 1, Len(chan'[r])) \cap G = {}
  <2>1. i \in 1..Len(chan[r])
    BY <1>2
  <2>2. /\ Mixed(Without(chan[r], i), 0, k, n)
        /\ Nums(Without(chan[r], i), 1, Len(chan[r]) - 1) = Nums(chan[r], 1, Len(chan[r])) \ {chan[r][i].num}
        /\ Len(Without(chan[r], i)) = Len(chan[r]) - 1
    BY <1>4, <2>1, OnlyChunksGone
  <2> QED  BY <1>3, <1>4, <2>2
<1>6. Sending(k, s, n, G)'
  BY <1>1, <1>3, <1>5 DEF Sending, Got
<1>7. TypeOK' /\ UNCHANGED talk
  BY <1>3 DEF TypeOK, talk
<1> QED  BY <1>6, <1>7, RoundKept, Silence DEF Round, Kept

LEMMA SendingNothing ==
  ASSUME LossOnly, TypeOK, NEW k \in Nat, NEW s \in Peers, Sends(s, k), NEW n \in Nat, NEW G \in SUBSET Nat,
         Sending(k, s, n, G), NothingToSend(s)
  PROVE  Kept
<1> DEFINE r == Other(s)
<1>1. r \in Peers /\ r # s /\ Other(r) = s
  BY PeerFact
<1>2. n = 0 /\ G = {} /\ round[s] = k /\ chan[s] = <<>> /\ Begin(s, k + 1) /\ UNCHANGED <<chan, talk>>
  BY DEF Sending, NothingToSend
<1>3. ~Sends(s, k + 1)
  BY TurnFact
<1>4. chan[r] = <<>>
  <2>1. chan[r] \in Seq(Datagrams) /\ \A j \in (0 + 1)..Len(chan[r]) : chan[r][j].num \in 0..(0 - 1)
    BY <1>2 DEF Sending, Mixed
  <2>2. Len(chan[r]) = 0
    <3>1. 1 \notin (0 + 1)..Len(chan[r])
      BY <2>1
    <3> QED  BY <2>1, <3>1
  <2> QED  BY <2>1, <2>2
<1>5. /\ round'[s] = k + 1 /\ round'[r] = k /\ phase'[s] \in {"receiving", "over"} /\ phase'[r] = "receiving"
      /\ acked'[s] = {} /\ acked'[r] = {} /\ TypeOK'
  BY <1>1, <1>2, <1>3, BeginFact DEF Sending, TypeOK, talk
<1>6. typed' = Append(shown', <<>>)
  <2>1. k \in Rounds /\ 0 \in MinChunks..MaxChunks
    BY <1>2 DEF Sending
  <2> QED  BY <1>2, <2>1, LineFact DEF Sending, talk
<1>7. Frozen(k, s)'
  BY <1>1, <1>2, <1>4, <1>5, <1>6 DEF Frozen, Sending
<1> QED  BY <1>2, <1>5, <1>7, RoundKept, Silence DEF Round, Kept

LEMMA SendingAgain ==
  ASSUME LossOnly, TypeOK, NEW k \in Nat, NEW s \in Peers, Sends(s, k), NEW n \in Nat, NEW G \in SUBSET Nat,
         Sending(k, s, n, G), NEW due \in SUBSET Numbers, Retransmit(s, due)
  PROVE  Kept
<1> DEFINE r == Other(s)
           m == Cardinality(due)
<1>1. r \in Peers /\ r # s /\ Other(r) = s
  BY PeerFact
<1>2. /\ chan[s] = <<>> /\ round[s] = k /\ size[s] = n /\ Mixed(chan[r], 0, k, n)
      /\ Nums(chan[r], 1, Len(chan[r])) \cap G = {} /\ G = acked[s]
  <2>1. Nums(<<>>, 1, Len(<<>>)) = {}
    BY NoDatagrams
  <2> QED  BY <2>1 DEF Sending, Retransmit
<1>3. due \subseteq 0..(n - 1) /\ due \cap G = {} /\ \A q \in due : q \notin Nums(chan[r], 1, Len(chan[r]))
  <2> SUFFICES ASSUME NEW q \in due
               PROVE  q \in 0..(n - 1) /\ q \notin G /\ q \notin Nums(chan[r], 1, Len(chan[r]))
    OBVIOUS
  <2>1. q \in Overdue(s)
    BY DEF Retransmit
  <2>2. q \in 0..(n - 1) /\ q \notin G /\ q \notin InFlight(r, {"chunk"})
    BY <1>2, <2>1 DEF Overdue, LossOnly
  <2>3. \A j \in 1..Len(chan[r]) : chan[r][j].kind = "chunk"
    <3>1. \A j \in 1..Len(chan[r]) : chan[r][j] = Chunk(k, chan[r][j].num, n)
      BY <1>2 DEF Mixed
    <3>2. \A q1 : Chunk(k, q1, n).kind = "chunk"
      BY DEF Chunk
    <3> QED  BY <3>1, <3>2, Zenon
  <2> QED  BY <2>2, <2>3 DEF InFlight, Nums
<1>4. PICK order \in Ascending(due) :
        chan' = [chan EXCEPT ![r] = @ \o [j \in 1..m |-> Chunk(k, order[j], n)]]
  BY <1>2 DEF Retransmit
<1>5. m \in Nat
  BY <1>3, CountFact
<1>6. DOMAIN order = 1..m /\ (\A j \in 1..m : order[j] \in due) /\ \A i, j \in 1..m : i < j => order[i] < order[j]
  BY DEF Ascending
<1>7. Longer(chan'[r], chan[r], k, n, m, order) /\ chan'[s] = chan[s] /\ DOMAIN chan' = Peers
  <2>1. \A j \in 1..m : order[j] \in 0..(n - 1)
    BY <1>3, <1>6
  <2>2. chan[r] \in Seq(Datagrams)
    BY <1>2 DEF Mixed
  <2>3. Longer(chan[r] \o [j \in 1..m |-> Chunk(k, order[j], n)], chan[r], k, n, m, order)
    BY <1>5, <2>1, <2>2, LongerFact
  <2> QED  BY <1>1, <1>4, <2>3 DEF TypeOK
<1>8. Fresh(order, m, n, Nums(chan[r], 1, Len(chan[r])))
  <2>1. \A j \in 1..m : order[j] \in 0..(n - 1) /\ order[j] \notin Nums(chan[r], 1, Len(chan[r]))
    BY <1>3, <1>6
  <2>2. ASSUME NEW i \in 1..m, NEW j \in 1..m, order[i] = order[j] PROVE i = j
    <3>1. i < j \/ i = j \/ j < i
      BY <1>5
    <3>2. \A q \in due : q \in Int
      BY <1>3
    <3>3. order[i] \in Int /\ order[j] \in Int
      BY <1>6, <3>2
    <3> QED  BY <1>6, <2>2, <3>1, <3>3
  <2> QED  BY <2>1, <2>2 DEF Fresh
<1>9. /\ Mixed(chan'[r], 0, k, n)
      /\ Nums(chan'[r], 1, Len(chan'[r])) \cap G = {}
  <2>1. /\ Mixed(chan'[r], 0, k, n)
        /\ Nums(chan'[r], 1, Len(chan'[r])) \subseteq Nums(chan[r], 1, Len(chan[r])) \cup Sent(order, m)
    BY <1>2, <1>5, <1>7, <1>8, OnlyChunksSent
  <2>2. Sent(order, m) \cap G = {}
    BY <1>3, <1>6 DEF Sent
  <2> QED  BY <1>2, <2>1, <2>2
<1>10. UNCHANGED <<round, phase, size, acked, got, count, typed, shown>>
  BY DEF Retransmit, sendVars, recvVars, talk
<1>11. Sending(k, s, n, G)'
  BY <1>1, <1>7, <1>9, <1>10 DEF Sending, Got
<1>12. TypeOK' /\ UNCHANGED talk
  BY <1>7, <1>10 DEF TypeOK, talk
<1> QED  BY <1>11, <1>12, RoundKept, Silence DEF Round, Kept

LEMMA SendingAcked ==
  ASSUME LossOnly, TypeOK, NEW k \in Nat, NEW s \in Peers, Sends(s, k), NEW n \in Nat, NEW G \in SUBSET Nat,
         Sending(k, s, n, G), NEW i \in 1..Len(chan[s]), ReceiveAck(s, i)
  PROVE  Kept
<1> DEFINE r == Other(s)
           q == chan[s][1].num
           c == Without(chan[s], 1)
<1>1. r \in Peers /\ r # s /\ Other(r) = s
  BY PeerFact
<1>2. i = 1 /\ 1 \in 1..Len(chan[s])
  BY NetworkFact DEF ReceiveAck
<1>3. /\ Mixed(c, Len(c), 0, 0) /\ Nums(c, 1, Len(c)) = Nums(chan[s], 1, Len(chan[s])) \ {q}
      /\ q \in Nums(chan[s], 1, Len(chan[s]))
  <2>0. Mixed(chan[s], Len(chan[s]), 0, 0)
    BY DEF Sending
  <2>1. Mixed(chan[s], Len(chan[s]), 0, 0) /\ Len(chan[s]) \in Nat /\ Len(chan[s]) > 0
    <3>1. Len(chan[s]) \in Nat
      BY <2>0 DEF Mixed
    <3> QED  BY <1>2, <2>0, <3>1
  <2>2. /\ Mixed(c, Len(chan[s]) - 1, 0, 0)
        /\ Nums(c, 1, Len(chan[s]) - 1) = Nums(chan[s], 1, Len(chan[s])) \ {q}
        /\ q \in Nums(chan[s], 1, Len(chan[s])) /\ Len(chan[s]) - 1 = Len(c)
    BY <2>1, FirstRead
  <2> QED  BY <2>2
<1>4. q \in G \ acked[s] /\ q \in 0..(n - 1) /\ size[s] = n /\ acked[s] \cup {q} \subseteq G
  BY <1>3 DEF Sending
<1>5. ~AllAcked(s, acked[s] \cup {q})
  <2>1. acked[s] \cup {q} # 0..(n - 1) /\ acked[s] \cup {q} \subseteq 0..(n - 1)
    <3>1. G \subseteq 0..(n - 1) /\ (n > 0 => G # 0..(n - 1))
      BY DEF Sending
    <3>2. n > 0
      BY <1>4
    <3> QED  BY <1>4, <3>1, <3>2
  <2> QED  BY <1>4, <2>1, CountFact DEF AllAcked
<1>6. ~(q >= size[s])
  BY <1>4
<1>7. /\ acked' = [acked EXCEPT ![s] = acked[s] \cup {q}] /\ chan' = [chan EXCEPT ![s] = c]
      /\ UNCHANGED <<round, phase, size, got, count, typed, shown>>
  BY <1>2, <1>5, <1>6 DEF ReceiveAck, Ticked, recvVars, talk
<1> HIDE DEF c, q
<1>8. /\ acked'[s] = acked[s] \cup {q} /\ acked'[r] = acked[r] /\ chan'[s] = c /\ chan'[r] = chan[r]
      /\ DOMAIN acked' = Peers /\ DOMAIN chan' = Peers
  BY <1>1, <1>7 DEF TypeOK
<1>9. G \ acked'[s] = Nums(c, 1, Len(c))
  BY <1>3, <1>8 DEF Sending
<1>10. Sending(k, s, n, G)'
  BY <1>1, <1>3, <1>4, <1>7, <1>8, <1>9 DEF Sending, Got
<1>11. TypeOK' /\ UNCHANGED talk
  BY <1>7, <1>8 DEF TypeOK, talk
<1> QED  BY <1>10, <1>11, RoundKept, Silence DEF Round, Kept

\* The text a receiver shows when it has all the chunks of a line.
LEMMA ShownWhole ==
  ASSUME NEW k \in Nat, NEW n \in 1..MaxChunks, NEW text, DOMAIN text = Numbers, \A i \in 0..(n - 1) : text[i] = <<k, i>>
  PROVE  Shown(text, n) = Line(k, n)
<1> DEFINE whole == {m \in 0..n : m <= MaxChunks /\ \A j \in 0..(m - 1) : text[j] # Blank}
<1>1. \A j \in 0..(n - 1) : text[j] # Blank
  <2>1. \A j : <<k, j>> # <<>>
    OBVIOUS
  <2> QED  BY <2>1 DEF Blank
<1>2. n \in Nat /\ n \in whole /\ \A l \in whole : l \in Nat /\ l <= n
  BY <1>1, ChunkAssumption
<1>3. (CHOOSE m \in whole : \A l \in whole : l <= m) = n
  <2>1. \E m \in whole : \A l \in whole : l <= m
    BY <1>2
  <2>2. PICK m : m = CHOOSE x \in whole : \A l \in whole : l <= x
    OBVIOUS
  <2>3. m \in whole /\ \A l \in whole : l <= m
    BY <2>1, <2>2
  <2> QED  BY <1>2, <2>2, <2>3
<1>4. Shown(text, n) = [j \in 1..n |-> text[j - 1]]
  BY <1>3 DEF Shown
<1>5. \A j \in 1..n : text[j - 1] = <<k, j - 1>>
  BY <1>2
<1> QED  BY <1>4, <1>5 DEF Line

\* A chunk is read: the acknowledgement is sent, and if it was not the last one
\* the receiver goes on.
ChunkRead(k, s, r, n, G, q, full) ==
  /\ q \notin G
  /\ full = [got[r] EXCEPT ![q] = <<k, q>>]
  /\ chan'[s] = Append(chan[s], Ack(q)) /\ chan'[r] = Without(chan[r], 1) /\ DOMAIN chan' = Peers
  /\ Mixed(chan'[s], Len(chan'[s]), 0, 0)
  /\ Nums(chan'[s], 1, Len(chan'[s])) = (G \cup {q}) \ acked[s]
  /\ Mixed(chan'[r], 0, k, n)
  /\ Nums(chan'[r], 1, Len(chan'[r])) = Nums(chan[r], 1, Len(chan[r])) \ {q}
  /\ Len(chan'[r]) = Len(chan[r]) - 1
  /\ typed' = typed
  /\ \/ /\ count[r] + 1 = n /\ Begin(r, k + 1)
        /\ shown' = Append(shown, Shown(full, n))
     \/ /\ count[r] + 1 # n
        /\ got' = [got EXCEPT ![r] = full] /\ count' = [count EXCEPT ![r] = @ + 1]
        /\ UNCHANGED <<round, phase, size, acked, shown>>

LEMMA SendingRead ==
  ASSUME LossOnly, TypeOK, NEW k \in Nat, NEW s \in Peers, Sends(s, k), NEW n \in Nat, NEW G \in SUBSET Nat,
         Sending(k, s, n, G), NEW r \in Peers, r = Other(s),
         NEW i \in 1..Len(chan[r]), NEW total \in 0..MaxChunks, ReceiveChunk(r, i, total)
  PROVE  \E q \in 0..(n - 1) : \E full : ChunkRead(k, s, r, n, G, q, full)
<1> DEFINE d == chan[r][1]
           q == d.num
           full == [got[r] EXCEPT ![q] = <<k, q>>]
<1>1. r # s /\ Other(r) = s
  BY PeerFact
<1>2. i = 1 /\ 1 \in 1..Len(chan[r])
  BY NetworkFact DEF ReceiveChunk
<1>3. d = Chunk(k, q, n) /\ q \in 0..(n - 1)
  BY <1>2 DEF Sending, Mixed
<1>4. d.kind = "chunk" /\ d.round = k /\ d.total = n
  <2>1. Chunk(k, q, n).kind = "chunk" /\ Chunk(k, q, n).round = k /\ Chunk(k, q, n).total = n
    BY DEF Chunk
  <2> QED  BY <1>3, <2>1, Zenon
<1>5. q \notin G
  BY <1>2 DEF Sending, Nums
<1>6. total = n
  BY <1>2, <1>4 DEF ReceiveChunk
<1>7. chan' = [chan EXCEPT ![r] = Without(@, 1), ![s] = Append(@, Ack(q))] /\ typed' = typed
  BY <1>1, <1>2 DEF ReceiveChunk
<1>8. \/ /\ count[r] + 1 = n /\ Begin(r, k + 1)
         /\ shown' = Append(shown, Shown(full, n))
      \/ /\ count[r] + 1 # n
         /\ got' = [got EXCEPT ![r] = full] /\ count' = [count EXCEPT ![r] = @ + 1]
         /\ UNCHANGED <<round, phase, size, acked, shown>>
  BY <1>1, <1>2, <1>4, <1>6 DEF ReceiveChunk, Sending, sendVars
<1> HIDE DEF full, q, d
<1>9. chan'[s] = Append(chan[s], Ack(q)) /\ chan'[r] = Without(chan[r], 1) /\ DOMAIN chan' = Peers
  BY <1>1, <1>7 DEF TypeOK
<1>10. /\ Mixed(chan'[s], Len(chan'[s]), 0, 0)
       /\ Nums(chan'[s], 1, Len(chan'[s])) = (G \cup {q}) \ acked[s]
  <2>1. Mixed(chan[s], Len(chan[s]), 0, 0) /\ Nums(chan[s], 1, Len(chan[s])) = G \ acked[s] /\ acked[s] \subseteq G
    BY DEF Sending
  <2>2. q \notin Nums(chan[s], 1, Len(chan[s])) /\ q \in Nat
    BY <1>3, <1>5, <2>1
  <2>3. /\ Mixed(Append(chan[s], Ack(q)), Len(Append(chan[s], Ack(q))), 0, 0)
        /\ Nums(Append(chan[s], Ack(q)), 1, Len(Append(chan[s], Ack(q)))) = Nums(chan[s], 1, Len(chan[s])) \cup {q}
    BY <2>1, <2>2, AckSent
  <2> QED  BY <1>5, <1>9, <2>1, <2>3
<1>11. /\ Mixed(chan'[r], 0, k, n)
       /\ Nums(chan'[r], 1, Len(chan'[r])) = Nums(chan[r], 1, Len(chan[r])) \ {q}
       /\ Len(chan'[r]) = Len(chan[r]) - 1
  <2>1. Mixed(chan[r], 0, k, n)
    BY DEF Sending
  <2>2. /\ Mixed(Without(chan[r], 1), 0, k, n)
        /\ Nums(Without(chan[r], 1), 1, Len(chan[r]) - 1) = Nums(chan[r], 1, Len(chan[r])) \ {chan[r][1].num}
        /\ Len(Without(chan[r], 1)) = Len(chan[r]) - 1
    BY <1>2, <2>1, OnlyChunksGone
  <2> QED  BY <1>9, <2>2 DEF q, d
<1>12. q \in 0..(n - 1)
  BY <1>3
<1> QED  BY <1>5, <1>7, <1>8, <1>9, <1>10, <1>11, <1>12 DEF full, ChunkRead

LEMMA SendingReceive ==
  ASSUME LossOnly, TypeOK, NEW k \in Nat, NEW s \in Peers, Sends(s, k), NEW n \in Nat, NEW G \in SUBSET Nat,
         Sending(k, s, n, G), NEW r \in Peers, r = Other(s),
         NEW i \in 1..Len(chan[r]), NEW total \in 0..MaxChunks, ReceiveChunk(r, i, total)
  PROVE  Kept
<1>a. PICK q \in 0..(n - 1) : \E full : ChunkRead(k, s, r, n, G, q, full)
  BY SendingRead
<1>0. PICK full : ChunkRead(k, s, r, n, G, q, full)
  BY <1>a
<1>1. /\ q \in Nat /\ r # s /\ Other(r) = s
      /\ q \notin G
      /\ full = [got[r] EXCEPT ![q] = <<k, q>>]
      /\ chan'[s] = Append(chan[s], Ack(q)) /\ chan'[r] = Without(chan[r], 1) /\ DOMAIN chan' = Peers
      /\ Mixed(chan'[s], Len(chan'[s]), 0, 0)
      /\ Nums(chan'[s], 1, Len(chan'[s])) = (G \cup {q}) \ acked[s]
      /\ Mixed(chan'[r], 0, k, n)
      /\ Nums(chan'[r], 1, Len(chan'[r])) = Nums(chan[r], 1, Len(chan[r])) \ {q}
      /\ Len(chan'[r]) = Len(chan[r]) - 1
      /\ typed' = typed
      /\ \/ /\ count[r] + 1 = n /\ Begin(r, k + 1)
            /\ shown' = Append(shown, Shown(full, n))
         \/ /\ count[r] + 1 # n
            /\ got' = [got EXCEPT ![r] = full] /\ count' = [count EXCEPT ![r] = @ + 1]
            /\ UNCHANGED <<round, phase, size, acked, shown>>
  BY <1>0, PeerFact DEF ChunkRead
<1>2. /\ k \in Rounds /\ k < MaxRounds /\ n \in 1..MaxChunks /\ n \in MinChunks..MaxChunks /\ MaxChunks \in MinChunks..MaxChunks
      /\ 0..(n - 1) \subseteq Numbers /\ G \subseteq 0..(n - 1) /\ G \cup {q} \subseteq 0..(n - 1)
  <2>1. k \in Rounds /\ n \in MinChunks..MaxChunks /\ G \subseteq 0..(n - 1)
    BY DEF Sending
  <2>2. k < MaxRounds
    BY <2>1, ChunkAssumption DEF Rounds
  <2>3. n \in 1..MaxChunks /\ MaxChunks \in MinChunks..MaxChunks /\ 0..(n - 1) \subseteq Numbers
    BY <2>1, ChunkAssumption DEF Numbers
  <2> QED  BY <2>1, <2>2, <2>3
<1>3. /\ Got(r, k, G) /\ acked[s] \subseteq G /\ acked[r] = {} /\ round[s] = k /\ round[r] = k
      /\ phase[s] = "sending" /\ phase[r] = "receiving" /\ size[s] = n
      /\ typed = Append(shown, Line(k, n)) /\ Nums(chan[r], 1, Len(chan[r])) \cap G = {}
  BY DEF Sending
<1>4. count[r] + 1 = Cardinality(G \cup {q}) /\ (count[r] + 1 = n <=> G \cup {q} = 0..(n - 1))
  <2>1. count[r] = Cardinality(G)
    BY <1>3 DEF Got
  <2>2. Cardinality(G \cup {q}) = Cardinality(G) + 1
    BY <1>1, <1>2, CountFact
  <2>3. Cardinality(G \cup {q}) = n <=> G \cup {q} = 0..(n - 1)
    BY <1>2, CountFact
  <2> QED  BY <2>1, <2>2, <2>3
<1>5. /\ DOMAIN full = Numbers
      /\ \A j \in Numbers : full[j] = IF j \in G \cup {q} THEN <<k, j>> ELSE Blank
  <2>1. DOMAIN got[r] = Numbers /\ \A j \in Numbers : got[r][j] = IF j \in G THEN <<k, j>> ELSE Blank
    BY <1>3 DEF Got
  <2> QED  BY <1>1, <1>2, <2>1
<1>6. CASE count[r] + 1 # n
  <2>1. /\ got' = [got EXCEPT ![r] = full] /\ count' = [count EXCEPT ![r] = @ + 1]
        /\ UNCHANGED <<round, phase, size, acked, shown>>
    BY <1>1, <1>6
  <2>2. Got(r, k, G \cup {q})'
    <3>1. got'[r] = full /\ count'[r] = count[r] + 1
      BY <2>1 DEF TypeOK
    <3> QED  BY <1>4, <1>5, <3>1 DEF Got
  <2>3. TypeOK'
    BY <1>1, <2>1 DEF TypeOK
  <2>4. UNCHANGED talk
    BY <1>1, <2>1 DEF talk
  <2>5. Nums(chan'[r], 1, Len(chan'[r])) \cap (G \cup {q}) = {}
    BY <1>1, <1>3
  <2>6. n > 0 => G \cup {q} # 0..(n - 1)
    BY <1>4, <1>6
  <2>7. Sending(k, s, n, G \cup {q})'
    BY <1>1, <1>2, <1>3, <2>1, <2>2, <2>5, <2>6 DEF Sending
  <2>8. G \cup {q} \in SUBSET Nat
    BY <1>2
  <2> QED  BY <2>3, <2>4, <2>7, <2>8, RoundKept, Silence DEF Round, Kept
<1>7. CASE count[r] + 1 = n
  <2>1. Begin(r, k + 1) /\ shown' = Append(shown, Shown(full, n)) /\ G \cup {q} = 0..(n - 1)
    BY <1>1, <1>4, <1>7
  <2>2. shown' = typed /\ typed' = typed /\ Line(k, n) \in Lines /\ Line(k, n) # <<>>
    <3>1. \A j \in 0..(n - 1) : full[j] = <<k, j>>
      BY <1>2, <1>5, <2>1
    <3>2. Shown(full, n) = Line(k, n)
      BY <1>2, <1>5, <3>1, ShownWhole
    <3>3. Line(k, n) \in Lines /\ Line(k, n) # <<>>
      BY <1>2, LineFact
    <3> QED  BY <1>1, <1>3, <2>1, <3>2, <3>3
  <2>3. /\ round'[r] = k + 1 /\ phase'[r] = IF k + 1 = MaxRounds THEN "over" ELSE "typing"
        /\ acked'[r] = {} /\ round'[s] = k /\ phase'[s] = "sending" /\ size'[s] = n /\ acked'[s] = acked[s]
        /\ DOMAIN round' = Peers /\ DOMAIN phase' = Peers /\ DOMAIN size' = Peers /\ DOMAIN acked' = Peers
        /\ DOMAIN got' = Peers /\ DOMAIN count' = Peers
    <3>1. Sends(r, k + 1)
      BY TurnFact
    <3>2. k + 1 \in Nat
      OBVIOUS
    <3>3. /\ round'[r] = k + 1 /\ phase'[r] = IF k + 1 = MaxRounds THEN "over" ELSE "typing"
          /\ acked'[r] = {} /\ round'[Other(r)] = round[Other(r)] /\ phase'[Other(r)] = phase[Other(r)]
          /\ size'[Other(r)] = size[Other(r)] /\ acked'[Other(r)] = acked[Other(r)]
          /\ DOMAIN round' = Peers /\ DOMAIN phase' = Peers /\ DOMAIN size' = Peers /\ DOMAIN acked' = Peers
          /\ DOMAIN got' = Peers /\ DOMAIN count' = Peers
      BY <2>1, <3>1, <3>2, BeginFact
    <3> QED  BY <1>1, <1>3, <3>3
  <2>4. TypeOK'
    <3>1. shown' \in Seq(Lines)
      BY <1>3, <2>2 DEF TypeOK
    <3> QED  BY <1>1, <2>3, <3>1 DEF TypeOK
  <2>5. chan'[r] = <<>>
    <3>0. \A j \in 1..Len(chan'[r]) : chan'[r][j].num \in Nums(chan'[r], 1, Len(chan'[r]))
      BY DEF Nums
    <3>1. \A j \in 1..Len(chan'[r]) : chan'[r][j].num \in 0..(n - 1) /\ chan'[r][j].num \in Nums(chan'[r], 1, Len(chan'[r]))
      <4>1. Mixed(chan'[r], 0, k, n)
        BY <1>1
      <4> QED  BY <3>0, <4>1 DEF Mixed
    <3>2. \A j \in 1..Len(chan'[r]) : FALSE
      BY <1>1, <1>3, <2>1, <3>1
    <3>3. chan'[r] \in Seq(Datagrams)
      BY <1>1 DEF Mixed
    <3>4. Len(chan'[r]) = 0
      BY <3>2, <3>3
    <3> QED  BY <3>3, <3>4
  <2>6. PICK a \in Nat : a = Len(chan'[s]) /\ Mixed(chan'[s], a, k + 1, MaxChunks)
    <3>1. Len(chan'[s]) \in Nat
      BY <1>1 DEF Mixed
    <3> QED  BY <1>1, <3>1, NoDatagrams
  <2>7. Waiting(k, s, n, a, MaxChunks)'
    <3>1. Ahead(k, r, a = Len(chan[s]), MaxChunks)'
      BY <1>1, <2>2, <2>3, <2>6 DEF Ahead
    <3>2. acked'[s] \subseteq 0..(n - 1) /\ acked'[s] # 0..(n - 1)
      BY <1>1, <1>2, <1>3, <2>3
    <3>3. Nums(chan'[s], 1, a) = (0..(n - 1)) \ acked'[s]
      BY <1>1, <2>1, <2>3, <2>6
    <3> QED  BY <1>1, <1>2, <2>3, <2>5, <2>6, <3>1, <3>2, <3>3 DEF Waiting
  <2>8. Talks
    <3>1. typed # shown /\ typed[Len(typed)] # <<>>
      BY <1>3, <2>2 DEF TypeOK
    <3> QED  BY <2>2, <3>1 DEF Talks, Conversation!Next, Conversation!Show
  <2>9. MaxChunks \in Nat
    BY ChunkAssumption
  <2> QED  BY <2>4, <2>6, <2>7, <2>8, <2>9, RoundKept DEF Round, Kept
<1> QED  BY <1>6, <1>7

LEMMA FromSending ==
  ASSUME LossOnly, TypeOK, Next, NEW k \in Nat, NEW s \in Peers, Sends(s, k), NEW n \in Nat, NEW G \in SUBSET Nat,
         Sending(k, s, n, G)
  PROVE  Kept
<1>1. /\ Other(s) \in Peers /\ Other(s) # s /\ Other(Other(s)) = s /\ (s = "server" \/ Other(s) = "server")
  BY PeerFact DEF Peers
<1>2. phase[s] = "sending" /\ phase[Other(s)] = "receiving"
  BY DEF Sending
<1>3. ASSUME NEW i \in 1..Len(chan["server"]), Boot(i) PROVE FALSE
  BY <1>1, <1>2, <1>3 DEF Boot
<1>4. Peer(s) => Kept
  BY <1>2, TurnOf, SendingAgain, SendingNothing, SendingAcked
<1>5. Peer(Other(s)) => Kept
  BY <1>1, <1>2, TurnOf, SendingReceive
<1>6. ASSUME UNCHANGED vars PROVE Kept
  <2>1. TypeOK' /\ Sending(k, s, n, G)' /\ UNCHANGED talk
    BY <1>6 DEF TypeOK, Sending, Got, vars, talk
  <2> QED  BY <2>1, RoundKept, Silence DEF Round, Kept
<1> QED  BY <1>1, <1>3, <1>4, <1>5, <1>6, StepFact, SendingLose

\* While it waits, the sender has acknowledgements to read.
LEMMA AcksLeft ==
  ASSUME NEW k \in Nat, NEW s \in Peers, NEW n \in Nat, NEW a \in Nat, NEW m \in Nat, Waiting(k, s, n, a, m)
  PROVE  a > 0 /\ chan[s] # <<>>
<1>1. Nums(chan[s], 1, a) = (0..(n - 1)) \ acked[s] /\ acked[s] \subseteq 0..(n - 1) /\ acked[s] # 0..(n - 1)
  BY DEF Waiting
<1>2. chan[s] \in Seq(Datagrams) /\ a \in 0..Len(chan[s])
  BY DEF Waiting, Mixed
<1>3. ASSUME a = 0 PROVE FALSE
  <2>1. Nums(chan[s], 1, a) = {}
    BY <1>3 DEF Nums
  <2>2. (0..(n - 1)) \subseteq acked[s]
    BY <1>1, <2>1
  <2> QED  BY <1>1, <2>2
<1> QED  BY <1>2, <1>3

LEMMA WaitingLose ==
  ASSUME LossOnly, TypeOK, NEW k \in Nat, NEW s \in Peers, Sends(s, k), NEW n \in Nat, NEW a \in Nat, NEW m \in Nat,
         Waiting(k, s, n, a, m), NEW p \in Peers, NEW i \in 1..Len(chan[p]), Lose(p, i)
  PROVE  Kept
<1> DEFINE r == Other(s)
<1>1. r \in Peers /\ r # s /\ Other(r) = s /\ (p = s \/ p = r)
  BY PeerFact
<1>2. p = s
  <2>1. chan[r] = <<>> /\ Len(<<>>) = 0
    BY DEF Waiting
  <2> QED  BY <1>1, <2>1
<1>3. Mixed(chan[s], a, k + 1, m) /\ Nums(chan[s], 1, a) = (0..(n - 1)) \ acked[s]
  BY DEF Waiting
<1>4. i \in (a + 1)..Len(chan[s])
  <2>1. chan[s][i].kind = "chunk"
    BY <1>2, NetworkFact
  <2>2. i \notin 1..a /\ Len(chan[s]) \in Nat
    BY <1>3, <2>1 DEF Mixed
  <2> QED  BY <1>2, <2>2
<1>5. /\ Mixed(Without(chan[s], i), a, k + 1, m)
      /\ Nums(Without(chan[s], i), 1, a) = Nums(chan[s], 1, a)
  BY <1>3, <1>4, ChunkGone
<1>6. /\ chan'[s] = Without(chan[s], i) /\ chan'[r] = chan[r] /\ DOMAIN chan' = Peers
      /\ UNCHANGED <<round, phase, size, acked, got, count, typed, shown>>
  BY <1>1, <1>2 DEF Lose, TypeOK, sendVars, recvVars, talk
<1>7. a # Len(chan[s])
  BY <1>4
<1>8. Ahead(k, r, a = Len(chan[s]), m)'
  BY <1>6, <1>7 DEF Ahead, Waiting
<1>9. Waiting(k, s, n, a, m)'
  BY <1>1, <1>3, <1>5, <1>6, <1>8 DEF Waiting
<1>10. TypeOK' /\ UNCHANGED talk
  BY <1>6 DEF TypeOK, talk
<1> QED  BY <1>9, <1>10, RoundKept, Silence DEF Round, Kept

\* The other, who knows the line, enters the next.
LEMMA WaitingEnter ==
  ASSUME LossOnly, TypeOK, NEW k \in Nat, NEW s \in Peers, Sends(s, k), NEW n \in Nat, NEW a \in Nat, NEW m \in Nat,
         Waiting(k, s, n, a, m), NEW r \in Peers, r = Other(s), NEW l \in MinChunks..MaxChunks, Enter(r, l)
  PROVE  Kept
<1>1. r # s /\ Other(r) = s
  BY PeerFact
<1>2. phase[r] = "typing" /\ a = Len(chan[s]) /\ round[r] = k + 1 /\ k + 1 # MaxRounds /\ typed = shown
  BY DEF Waiting, Ahead, Enter
<1>3. k + 1 \in Rounds /\ l \in Nat
  <2>1. k \in Rounds
    BY DEF Waiting
  <2> QED  BY <1>2, <2>1, ChunkAssumption DEF Rounds
<1>4. /\ chan'[s] = chan[s] \o [i \in 1..l |-> Chunk(k + 1, i - 1, l)] /\ chan'[r] = chan[r] /\ DOMAIN chan' = Peers
      /\ phase'[r] = "sending" /\ phase'[s] = phase[s] /\ DOMAIN phase' = Peers
      /\ size'[r] = l /\ size'[s] = size[s] /\ DOMAIN size' = Peers
      /\ typed' = Append(typed, Line(k + 1, l))
      /\ UNCHANGED <<round, acked, got, count, shown>>
  BY <1>1, <1>2 DEF Enter, TypeOK, recvVars
<1>5. Mixed(chan'[s], a, k + 1, l) /\ Nums(chan'[s], 1, a) = Nums(chan[s], 1, a)
  <2>1. Mixed(chan[s], Len(chan[s]), k + 1, l) /\ k + 1 \in Nat
    BY <1>2, NoDatagrams DEF Waiting
  <2>2. Mixed(chan'[s], Len(chan[s]), k + 1, l) /\ Nums(chan'[s], 1, Len(chan[s])) = Nums(chan[s], 1, Len(chan[s]))
    <3>1. chan'[s] = chan[s] \o [i \in 1..l |-> Chunk(k + 1, i - 1, l)]
      BY <1>4
    <3>2. Mixed(chan'[s], Len(chan[s]), k + 1, l)
      BY <1>3, <2>1, <3>1, LineSent
    <3>3. Longer(chan'[s], chan[s], k + 1, l, l, UpTo(l))
      BY <1>3, <2>1, <3>1, LineSent
    <3>4. \A j \in 1..Len(chan[s]) : chan'[s][j] = chan[s][j]
      BY <3>3 DEF Longer
    <3>5. Nums(chan'[s], 1, Len(chan[s])) = Nums(chan[s], 1, Len(chan[s]))
      BY <3>4, SameNums
    <3> QED  BY <3>2, <3>5
  <2> QED  BY <1>2, <2>2
<1>6. Ahead(k, r, a = Len(chan[s]), l)'
  BY <1>2, <1>3, <1>4 DEF Ahead
<1>7. Waiting(k, s, n, a, l)'
  BY <1>1, <1>4, <1>5, <1>6 DEF Waiting
<1>8. TypeOK'
  BY <1>4 DEF TypeOK
<1>9. Talks
  <2>1. Line(k + 1, l) \in Lines
    BY <1>3, LineFact
  <2> QED  BY <1>2, <1>4, <2>1 DEF Talks, Conversation!Next, Conversation!Type
<1> QED  BY <1>3, <1>7, <1>8, <1>9, RoundKept DEF Round, Kept

LEMMA WaitingNothing ==
  ASSUME LossOnly, TypeOK, NEW k \in Nat, NEW s \in Peers, Sends(s, k), NEW n \in Nat, NEW a \in Nat, NEW m \in Nat,
         Waiting(k, s, n, a, m), NEW r \in Peers, r = Other(s), NothingToSend(r)
  PROVE  Kept
<1>1. r # s /\ Other(r) = s
  BY PeerFact
<1>2. /\ phase[r] = "sending" /\ size[r] = 0 /\ Begin(r, round[r] + 1) /\ UNCHANGED <<chan, talk>>
      /\ k + 1 \in Rounds /\ round[r] = k + 1 /\ m = 0 /\ typed = Append(shown, Line(k + 1, 0))
  BY DEF Waiting, Ahead, NothingToSend
<1>3. a = Len(chan[s])
  <2>1. chan[s] \in Seq(Datagrams) /\ a \in 0..Len(chan[s]) /\ \A j \in (a + 1)..Len(chan[s]) : chan[s][j].num \in 0..(0 - 1)
    BY <1>2 DEF Waiting, Mixed
  <2>2. \A j \in (a + 1)..Len(chan[s]) : FALSE
    BY <2>1
  <2>3. Len(chan[s]) \notin (a + 1)..Len(chan[s])
    BY <2>2
  <2> QED  BY <2>1, <2>3
<1>4. ~Sends(r, k + 2)
  <2>1. Sends(r, (k + 1) + 1) <=> ~Sends(r, k + 1)
    BY TurnFact
  <2>2. Sends(r, k + 1)
    BY TurnFact
  <2>3. (k + 1) + 1 = k + 2
    OBVIOUS
  <2> QED  BY <2>1, <2>2, <2>3
<1>5. /\ round'[r] = k + 2 /\ phase'[r] \in {"receiving", "over"} /\ acked'[r] = {}
      /\ round'[s] = round[s] /\ phase'[s] = phase[s] /\ size'[s] = size[s] /\ acked'[s] = acked[s]
      /\ TypeOK'
  <2>1. Begin(r, k + 2) /\ k + 2 \in Nat
    BY <1>2
  <2> QED  BY <1>1, <1>2, <1>4, <2>1, BeginFact DEF TypeOK, talk
<1>6. Line(k + 1, 0) = <<>>
  <2>1. 0 \in MinChunks..MaxChunks
    BY <1>2 DEF Waiting
  <2> QED  BY <1>2, <2>1, LineFact
<1>7. chan' = chan /\ typed' = typed /\ shown' = shown
  BY <1>2 DEF talk
<1>8. Ahead(k, r, a = Len(chan[s]), m)'
  BY <1>2, <1>3, <1>5, <1>6, <1>7 DEF Ahead
<1>9. Waiting(k, s, n, a, m)'
  BY <1>1, <1>5, <1>7, <1>8 DEF Waiting
<1> QED  BY <1>2, <1>5, <1>9, RoundKept, Silence DEF Round, Kept

\* The chunks of the other's line are repeated behind the acknowledgements.
LEMMA WaitingAgain ==
  ASSUME LossOnly, TypeOK, NEW k \in Nat, NEW s \in Peers, Sends(s, k), NEW n \in Nat, NEW a \in Nat, NEW m \in Nat,
         Waiting(k, s, n, a, m), NEW r \in Peers, r = Other(s), NEW due \in SUBSET Numbers, Retransmit(r, due)
  PROVE  Kept
<1> DEFINE l == Cardinality(due)
<1>1. r # s /\ Other(r) = s
  BY PeerFact
<1>2. /\ phase[r] = "sending" /\ size[r] = m /\ round[r] = k + 1 /\ k + 1 \in Rounds
      /\ typed = Append(shown, Line(k + 1, m)) /\ Mixed(chan[s], a, k + 1, m)
  BY DEF Waiting, Ahead, Retransmit
<1>3. due \subseteq 0..(m - 1) /\ \A q \in due : q \notin Nums(chan[s], a + 1, Len(chan[s]))
  <2> SUFFICES ASSUME NEW q \in due
               PROVE  q \in 0..(m - 1) /\ q \notin Nums(chan[s], a + 1, Len(chan[s]))
    OBVIOUS
  <2>1. q \in Overdue(r)
    BY DEF Retransmit
  <2>2. q \in 0..(m - 1) /\ q \notin InFlight(s, {"chunk"})
    BY <1>1, <1>2, <2>1 DEF Overdue, LossOnly
  <2>3. \A j \in (a + 1)..Len(chan[s]) : j \in 1..Len(chan[s]) /\ chan[s][j].kind = "chunk"
    <3>1. \A j \in (a + 1)..Len(chan[s]) : chan[s][j] = Chunk(k + 1, chan[s][j].num, m)
      BY <1>2 DEF Mixed
    <3>2. \A q1 : Chunk(k + 1, q1, m).kind = "chunk"
      BY DEF Chunk
    <3>3. \A j \in (a + 1)..Len(chan[s]) : chan[s][j].kind = "chunk"
      BY <3>1, <3>2, Zenon
    <3> QED  BY <3>3
  <2> QED  BY <2>2, <2>3 DEF InFlight, Nums
<1>4. PICK order \in Ascending(due) :
        chan' = [chan EXCEPT ![s] = @ \o [j \in 1..l |-> Chunk(k + 1, order[j], m)]]
  BY <1>1, <1>2 DEF Retransmit
<1>5. l \in Nat /\ k + 1 \in Nat
  <2>1. l \in Nat
    BY <1>3, CountFact
  <2> QED  BY <2>1
<1>6. DOMAIN order = 1..l /\ (\A j \in 1..l : order[j] \in due) /\ \A i, j \in 1..l : i < j => order[i] < order[j]
  BY DEF Ascending
<1>7. Longer(chan'[s], chan[s], k + 1, m, l, order) /\ chan'[r] = chan[r] /\ DOMAIN chan' = Peers
  <2>1. \A j \in 1..l : order[j] \in 0..(m - 1)
    BY <1>3, <1>6
  <2>2. chan[s] \in Seq(Datagrams)
    BY <1>2 DEF Mixed
  <2>3. Longer(chan[s] \o [j \in 1..l |-> Chunk(k + 1, order[j], m)], chan[s], k + 1, m, l, order)
    BY <1>5, <2>1, <2>2, LongerFact
  <2> QED  BY <1>1, <1>4, <2>3 DEF TypeOK
<1>8. Fresh(order, l, m, Nums(chan[s], a + 1, Len(chan[s])))
  <2>1. \A j \in 1..l : order[j] \in 0..(m - 1) /\ order[j] \notin Nums(chan[s], a + 1, Len(chan[s]))
    BY <1>3, <1>6
  <2>2. ASSUME NEW i \in 1..l, NEW j \in 1..l, order[i] = order[j] PROVE i = j
    <3>1. i < j \/ i = j \/ j < i
      BY <1>5
    <3>2. \A q \in due : q \in Int
      BY <1>3
    <3>3. order[i] \in Int /\ order[j] \in Int
      BY <1>6, <3>2
    <3> QED  BY <1>6, <2>2, <3>1, <3>3
  <2> QED  BY <2>1, <2>2 DEF Fresh
<1>9. Mixed(chan'[s], a, k + 1, m)
  BY <1>2, <1>5, <1>7, <1>8, ChunksSent
<1>10. Nums(chan'[s], 1, a) = Nums(chan[s], 1, a)
  <2>1. \A j \in 1..a : chan'[s][j] = chan[s][j]
    BY <1>2, <1>7 DEF Longer, Mixed
  <2> QED  BY <2>1, SameNums
<1>11. UNCHANGED <<round, phase, size, acked, got, count, typed, shown>>
  BY DEF Retransmit, sendVars, recvVars, talk
<1>12. Ahead(k, r, a = Len(chan[s]), m)'
  BY <1>2, <1>11 DEF Ahead
<1>13. Waiting(k, s, n, a, m)'
  BY <1>1, <1>7, <1>9, <1>10, <1>11, <1>12 DEF Waiting
<1>14. TypeOK' /\ UNCHANGED talk
  BY <1>7, <1>11 DEF TypeOK, talk
<1> QED  BY <1>13, <1>14, RoundKept, Silence DEF Round, Kept

\* The last acknowledgement: the sender follows the other to the next round.
LEMMA WaitingOver ==
  ASSUME LossOnly, TypeOK, NEW k \in Nat, NEW s \in Peers, Sends(s, k), NEW n \in Nat, NEW m \in Nat,
         Waiting(k, s, n, 1, m), NEW r \in Peers, r = Other(s), Begin(s, k + 1), UNCHANGED talk,
         DOMAIN chan' = Peers, chan'[r] = <<>>, Mixed(chan'[s], 0, k + 1, m),
         1 = Len(chan[s]) <=> 0 = Len(chan'[s])
  PROVE  Kept
<1>1. r # s /\ Other(r) = s /\ ~Sends(s, k + 1) /\ Sends(r, k + 1) /\ k + 1 \in Nat /\ Sends(s, k)
  BY PeerFact, TurnFact
<1>2. k \in Rounds /\ Ahead(k, r, 1 = Len(chan[s]), m) /\ acked[r] = {} /\ m \in MinChunks..MaxChunks
  BY DEF Waiting
<1>3. /\ round'[s] = k + 1 /\ phase'[s] = IF k + 1 = MaxRounds THEN "over" ELSE "receiving"
      /\ acked'[s] = {} /\ Got(s, k + 1, {})'
      /\ round'[r] = round[r] /\ phase'[r] = phase[r] /\ size'[r] = size[r] /\ acked'[r] = {}
  BY <1>1, <1>2, BeginFact
<1>4. TypeOK'
  BY <1>1, BeginFact DEF TypeOK, talk
<1>5. chan'[s] \in Seq(Datagrams) /\ (0 = Len(chan'[s]) => chan'[s] = <<>>)
  BY DEF Mixed
<1>6. typed' = typed /\ shown' = shown
  BY DEF talk
<1>7. k + 1 # MaxRounds => k + 1 \in Rounds
  BY <1>2, ChunkAssumption DEF Rounds
<1>8. CASE /\ 1 = Len(chan[s]) /\ round[r] = k + 1 /\ phase[r] = IF k + 1 = MaxRounds THEN "over" ELSE "typing"
           /\ typed = shown
  <2>1. chan'[s] = <<>>
    BY <1>5, <1>8
  <2>2. CASE k + 1 = MaxRounds
    <3>1. Over'
      BY <1>3, <1>6, <1>8, <2>1, <2>2, PeerFact DEF Over
    <3> QED  BY <1>4, <3>1, Silence DEF IInv, Kept
  <2>3. CASE k + 1 # MaxRounds
    <3>1. Typing(k + 1, r)'
      BY <1>1, <1>3, <1>6, <1>7, <1>8, <2>1, <2>3 DEF Typing
    <3> QED  BY <1>1, <1>4, <3>1, RoundKept, Silence DEF Round, Kept
  <2> QED  BY <2>2, <2>3
<1>9. CASE /\ k + 1 \in Rounds /\ round[r] = k + 1 /\ phase[r] = "sending" /\ size[r] = m
           /\ typed = Append(shown, Line(k + 1, m))
  <2>1. k + 1 # MaxRounds
    BY <1>9 DEF Rounds
  <2>2. Mixed(chan'[r], Len(chan'[r]), 0, 0) /\ Nums(chan'[r], 1, Len(chan'[r])) = {} \ acked'[r]
    BY <1>3, NoDatagrams
  <2>3. m > 0 => {} # 0..(m - 1)
    <3>1. m > 0 => 0 \in 0..(m - 1)
      OBVIOUS
    <3> QED  BY <3>1
  <2>4. Sending(k + 1, r, m, {})'
    BY <1>1, <1>2, <1>3, <1>6, <1>9, <2>1, <2>2, <2>3 DEF Sending
  <2> QED  BY <1>1, <1>4, <2>3, <2>4, RoundKept, Silence DEF Round, Kept
<1>10. CASE /\ k + 1 \in Rounds /\ 1 = Len(chan[s]) /\ round[r] = k + 2 /\ phase[r] \in {"receiving", "over"}
            /\ typed = Append(shown, <<>>)
  <2>1. chan'[s] = <<>> /\ k + 1 # MaxRounds /\ (k + 1) + 1 = k + 2
    BY <1>5, <1>10 DEF Rounds
  <2>2. Frozen(k + 1, r)'
    BY <1>1, <1>3, <1>6, <1>10, <2>1 DEF Frozen
  <2> QED  BY <1>1, <1>4, <2>2, RoundKept, Silence DEF Round, Kept
<1> QED  BY <1>2, <1>8, <1>9, <1>10 DEF Ahead

LEMMA WaitingAcked ==
  ASSUME LossOnly, TypeOK, NEW k \in Nat, NEW s \in Peers, Sends(s, k), NEW n \in Nat, NEW a \in Nat, NEW m \in Nat,
         Waiting(k, s, n, a, m), NEW i \in 1..Len(chan[s]), ReceiveAck(s, i)
  PROVE  Kept
<1> DEFINE r == Other(s)
           q == chan[s][1].num
           c == Without(chan[s], 1)
<1>1. r \in Peers /\ r # s /\ Other(r) = s
  BY PeerFact
<1>2. i = 1 /\ 1 \in 1..Len(chan[s])
  BY NetworkFact DEF ReceiveAck
<1>3. a > 0 /\ a - 1 \in Nat
  BY AcksLeft
<1>4. /\ Mixed(c, a - 1, k + 1, m) /\ Nums(c, 1, a - 1) = Nums(chan[s], 1, a) \ {q}
      /\ q \in Nums(chan[s], 1, a) /\ (a = Len(chan[s]) <=> a - 1 = Len(c))
  <2>1. Mixed(chan[s], a, k + 1, m)
    BY DEF Waiting
  <2> QED  BY <1>3, <2>1, FirstRead
<1>5. /\ q \in 0..(n - 1) /\ q \notin acked[s] /\ size[s] = n /\ round[s] = k
      /\ acked[s] \cup {q} \subseteq 0..(n - 1) /\ Nums(c, 1, a - 1) = (0..(n - 1)) \ (acked[s] \cup {q})
  BY <1>4 DEF Waiting
<1>6. AllAcked(s, acked[s] \cup {q}) <=> acked[s] \cup {q} = 0..(n - 1)
  BY <1>5, CountFact DEF AllAcked
<1>7. ~(q >= size[s])
  BY <1>5
<1>8. /\ chan' = [chan EXCEPT ![s] = c] /\ UNCHANGED talk
      /\ IF AllAcked(s, acked[s] \cup {q}) THEN Begin(s, k + 1)
         ELSE acked' = [acked EXCEPT ![s] = acked[s] \cup {q}] /\ UNCHANGED <<round, phase, size, got, count>>
  BY <1>2, <1>5, <1>7 DEF ReceiveAck, Ticked, recvVars
<1> HIDE DEF c, q
<1>9. chan'[s] = c /\ chan'[r] = chan[r] /\ DOMAIN chan' = Peers
  BY <1>1, <1>8 DEF TypeOK
<1>10. CASE AllAcked(s, acked[s] \cup {q})
  <2>1. Nums(c, 1, a - 1) = {} /\ Begin(s, k + 1)
    BY <1>5, <1>6, <1>8, <1>10
  <2>2. a = 1
    <3>1. 1 \in 1..(a - 1) => c[1].num \in Nums(c, 1, a - 1)
      BY DEF Nums
    <3> QED  BY <1>3, <2>1, <3>1
  <2>3. Waiting(k, s, n, 1, m) /\ Mixed(chan'[s], 0, k + 1, m) /\ (1 = Len(chan[s]) <=> 0 = Len(chan'[s]))
    BY <1>4, <1>9, <2>2
  <2>4. chan'[r] = <<>>
    BY <1>9 DEF Waiting
  <2> QED  BY <1>1, <1>8, <1>9, <2>1, <2>3, <2>4, WaitingOver
<1>11. CASE ~AllAcked(s, acked[s] \cup {q})
  <2>1. /\ acked'[s] = acked[s] \cup {q} /\ acked'[r] = acked[r] /\ DOMAIN acked' = Peers
        /\ UNCHANGED <<round, phase, size, got, count, typed, shown>>
    BY <1>1, <1>8, <1>11 DEF TypeOK, talk
  <2>2. acked'[s] \subseteq 0..(n - 1) /\ acked'[s] # 0..(n - 1) /\ Nums(chan'[s], 1, a - 1) = (0..(n - 1)) \ acked'[s]
    BY <1>5, <1>6, <1>9, <1>11, <2>1
  <2>3. PICK b \in Nat : b = a - 1
    BY <1>3
  <2>4. Ahead(k, r, b = Len(chan[s]), m)'
    <3>1. b = Len(chan'[s]) <=> a = Len(chan[s])
      BY <1>4, <1>9, <2>3
    <3>2. Ahead(k, r, a = Len(chan[s]), m)
      BY DEF Waiting
    <3> QED  BY <2>1, <3>1, <3>2 DEF Ahead
  <2>5. Waiting(k, s, n, b, m)'
    BY <1>1, <1>4, <1>9, <2>1, <2>2, <2>3, <2>4 DEF Waiting
  <2>6. TypeOK'
    BY <1>9, <2>1 DEF TypeOK
  <2> QED  BY <1>8, <2>5, <2>6, RoundKept, Silence DEF Round, Kept
<1> QED  BY <1>10, <1>11

LEMMA FromWaiting ==
  ASSUME LossOnly, TypeOK, Next, NEW k \in Nat, NEW s \in Peers, Sends(s, k), NEW n \in Nat, NEW a \in Nat, NEW m \in Nat,
         Waiting(k, s, n, a, m)
  PROVE  Kept
<1>1. /\ Other(s) \in Peers /\ Other(s) # s /\ Other(Other(s)) = s /\ (s = "server" \/ Other(s) = "server")
  BY PeerFact DEF Peers
<1>2. /\ phase[s] = "sending" /\ phase[Other(s)] \in {"typing", "sending", "receiving", "over"}
      /\ chan[Other(s)] = <<>> /\ chan[s] # <<>>
  BY AcksLeft DEF Waiting, Ahead
<1>3. ASSUME NEW i \in 1..Len(chan["server"]), Boot(i) PROVE FALSE
  BY <1>1, <1>2, <1>3 DEF Boot
<1>4. Peer(s) => Kept
  BY <1>2, TurnOf, WaitingAcked
<1>5. Peer(Other(s)) => Kept
  <2>1. \A i : i \notin 1..Len(chan[Other(s)])
    BY <1>2
  <2> QED  BY <1>1, <2>1, TurnOf, WaitingEnter, WaitingAgain, WaitingNothing
<1>6. ASSUME UNCHANGED vars PROVE Kept
  <2>1. TypeOK' /\ Waiting(k, s, n, a, m)' /\ UNCHANGED talk
    BY <1>6 DEF TypeOK, Waiting, Ahead, vars, talk
  <2> QED  BY <2>1, RoundKept, Silence DEF Round, Kept
<1> QED  BY <1>1, <1>3, <1>4, <1>5, <1>6, StepFact, WaitingLose

LEMMA FromFrozen ==
  ASSUME LossOnly, TypeOK, Next, NEW k \in Nat, NEW s \in Peers, Sends(s, k), Frozen(k, s)
  PROVE  Kept
<1>1. /\ Other(s) \in Peers /\ \A p \in Peers : p = s \/ p = Other(s)
  BY PeerFact
<1>2. \A p \in Peers : phase[p] \in {"receiving", "over"} /\ chan[p] = <<>>
  BY <1>1 DEF Frozen
<1>3. \A p \in Peers : \A i : i \notin 1..Len(chan[p])
  BY <1>2
<1>4. \A p \in Peers : ~Peer(p)
  BY <1>2, <1>3, TurnOf
<1>5. UNCHANGED vars
  BY <1>1, <1>3, <1>4, StepFact DEF Peers
<1>6. TypeOK' /\ Frozen(k, s)' /\ UNCHANGED talk
  BY <1>5 DEF TypeOK, Frozen, vars, talk
<1> QED  BY <1>6, RoundKept, Silence DEF Round, Kept

LEMMA FromOver ==
  ASSUME LossOnly, TypeOK, Next, Over
  PROVE  Kept
<1>1. \A p \in Peers : phase[p] = "over" /\ chan[p] = <<>>
  BY DEF Over
<1>2. \A p \in Peers : \A i : i \notin 1..Len(chan[p])
  BY <1>1
<1>3. \A p \in Peers : ~Peer(p)
  BY <1>1, <1>2, TurnOf
<1>4. UNCHANGED vars
  BY <1>2, <1>3 DEF Next, Done, Peers
<1>5. TypeOK' /\ Over' /\ UNCHANGED talk
  BY <1>4 DEF TypeOK, Over, vars, talk
<1> QED  BY <1>5, Silence DEF IInv, Kept

-----------------------------------------------------------------------------
(* The invariant.                                                          *)

LEMMA Inductive ==
  ASSUME LossOnly, IInv, [Next]_vars
  PROVE  Kept
<1>1. CASE UNCHANGED vars
  <2>1. UNCHANGED talk
    BY <1>1 DEF vars, talk
  <2>2. TypeOK'
    BY <1>1 DEF IInv, TypeOK, vars
  <2>3. Over => Over'
    BY <1>1 DEF Over, vars
  <2>4. \A k, s : Round(k, s) => Round(k, s)'
    BY <1>1 DEF Round, Typing, Sending, Waiting, Ahead, Frozen, Got, vars
  <2> QED  BY <2>1, <2>2, <2>3, <2>4, Silence DEF IInv, Kept
<1>2. CASE Next
  BY <1>2, FromTyping, FromSending, FromWaiting, FromFrozen, FromOver DEF IInv, Round
<1> QED  BY <1>1, <1>2

LEMMA Start ==
  ASSUME Init
  PROVE  IInv /\ Conversation!Init
<1>1. "server" \in Peers /\ "client" \in Peers /\ Other("server") = "client"
  BY PeerFact DEF Peers
<1>2. TypeOK
  BY DEF Init, TypeOK
<1>3. Sends("server", 0) /\ 0 \in Rounds
  BY ChunkAssumption DEF Sends, Rounds
<1>4. Got("client", 0, {})
  BY <1>1, FS_EmptySet DEF Init, Got
<1>5. Typing(0, "server")
  BY <1>1, <1>3, <1>4 DEF Init, Typing
<1>6. Conversation!Init
  BY DEF Init, Conversation!Init
<1> QED  BY <1>1, <1>2, <1>3, <1>5, <1>6 DEF IInv, Round

LEMMA Invariance ==
  ASSUME LossOnly
  PROVE  Spec => []IInv
<1>1. Init => IInv
  BY Start
<1>2. IInv /\ [Next]_vars => IInv'
  BY Inductive DEF Kept
<1> QED  BY <1>1, <1>2, PTL DEF Spec

\* A chunk that its sender ticks off was received, whatever chunks are lost.
THEOREM AlwaysReceived ==
  ASSUME LossOnly
  PROVE  Spec => []AckedWasReceived
<1>1. IInv => AckedWasReceived
  <2> SUFFICES ASSUME IInv, NEW p \in Peers, NEW i \in acked[p]
               PROVE  round[Other(p)] > round[p] \/ (round[Other(p)] = round[p] /\ got[Other(p)][i] = <<round[p], i>>)
    BY DEF AckedWasReceived
  <2>1. ~Over
    BY DEF Over
  <2>2. PICK k \in Nat, s \in Peers : Sends(s, k) /\ Round(k, s)
    BY <2>1 DEF IInv
  <2>3. p = s \/ p = Other(s)
    BY PeerFact
  <2>4. ~Typing(k, s) /\ ~Frozen(k, s)
    BY <2>3 DEF Typing, Frozen
  <2>5. ASSUME NEW n \in Nat, NEW G \in SUBSET Nat, Sending(k, s, n, G)
        PROVE  round[Other(p)] = round[p] /\ got[Other(p)][i] = <<round[p], i>>
    <3>1. p = s /\ i \in G /\ G \subseteq 0..(n - 1) /\ n \in 0..MaxChunks
      BY <2>3, <2>5, ChunkAssumption DEF Sending
    <3>2. i \in Numbers
      BY <3>1, ChunkAssumption DEF Numbers
    <3> QED  BY <2>5, <3>1, <3>2 DEF Sending, Got
  <2>6. ASSUME NEW n \in Nat, NEW a \in Nat, NEW m \in Nat, Waiting(k, s, n, a, m)
        PROVE  round[Other(p)] > round[p]
    BY <2>3, <2>6 DEF Waiting, Ahead
  <2> QED  BY <2>2, <2>4, <2>5, <2>6 DEF Round
<1> QED  BY <1>1, Invariance, PTL

\* The programs never both wait for the other's chunks, unless a line is empty.
THEOREM AlwaysSomebodyTalks ==
  ASSUME LossOnly
  PROVE  Spec => []SomebodyTalks
<1>1. IInv => SomebodyTalks
  <2> SUFFICES ASSUME IInv PROVE SomebodyTalks
    OBVIOUS
  <2>1. CASE Over
    BY <2>1 DEF Over, SomebodyTalks, Peers
  <2>2. CASE \E k \in Nat : \E s \in Peers : Sends(s, k) /\ Round(k, s)
    <3>1. PICK k \in Nat, s \in Peers : Round(k, s)
      BY <2>2
    <3>2. CASE Typing(k, s)
      <4>1. phase[s] = "typing" \/ chan[s] # <<>>
        <5>1. <<Hello>> # <<>>
          <6>1. Len(<<Hello>>) = 1 /\ Len(<<>>) = 0
            OBVIOUS
          <6> QED  BY <6>1
        <5> QED  BY <3>2, <5>1 DEF Typing
      <4> QED  BY <4>1 DEF SomebodyTalks
    <3>3. (\E n \in Nat : \E G \in SUBSET Nat : Sending(k, s, n, G)) => SomebodyTalks
      BY DEF Sending, SomebodyTalks
    <3>4. (\E n, a, m \in Nat : Waiting(k, s, n, a, m)) => SomebodyTalks
      BY DEF Waiting, SomebodyTalks
    <3>5. CASE Frozen(k, s)
      <4>1. shown \in Seq(Lines) /\ typed = Append(shown, <<>>)
        BY <3>5 DEF Frozen, IInv, TypeOK
      <4>2. Len(typed) \in 1..Len(typed) /\ typed[Len(typed)] = <<>>
        BY <4>1
      <4> QED  BY <4>2 DEF SomebodyTalks
    <3> QED  BY <3>1, <3>2, <3>3, <3>4, <3>5 DEF Round
  <2> QED  BY <2>1, <2>2 DEF IInv
<1> QED  BY <1>1, Invariance, PTL

\* What the users see is a conversation in turns, of whole lines: the safety part
\* of the refinement of HalfDuplex.
THEOREM AlwaysHalfDuplex ==
  ASSUME LossOnly
  PROVE  Spec => Conversation!Init /\ [][Conversation!Next]_talk
<1>1. Init => Conversation!Init
  BY Start
<1>2. IInv /\ [Next]_vars => [Conversation!Next]_talk
  BY Inductive DEF Kept, Talks
<1> QED  BY <1>1, <1>2, Invariance, PTL DEF Spec
=============================================================================
