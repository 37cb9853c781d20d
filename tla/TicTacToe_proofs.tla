--------------------------- MODULE TicTacToe_proofs ---------------------------
(* Proofs about TicTacToe, for any moves the users type, any number of      *)
(* games, lost datagrams and quits, and over either network.                *)
EXTENDS TicTacToe, FiniteSetTheorems, SequenceTheorems, TLAPS

-----------------------------------------------------------------------------
(* Induction.  A set of naturals that has 0 and with every number the next  *)
(* has them all: otherwise the successor maps its numbers up to one it      *)
(* lacks into themselves without 0, against the pigeonhole principle.       *)
LEMMA Induction ==
  ASSUME NEW U \in SUBSET Nat, 0 \in U, \A n \in U : n + 1 \in U
  PROVE  U = Nat
<1> SUFFICES ASSUME NEW t \in Nat, t \notin U PROVE FALSE
  OBVIOUS
<1> DEFINE V == {n \in U : n <= t}
<1> DEFINE f == [n \in V |-> n + 1]
<1>1. IsFiniteSet(V)
  <2>1. \A n \in V : n \in Nat /\ 0 <= n /\ n <= t OBVIOUS
  <2>2. V \subseteq 0..t
    <3> HIDE DEF V
    <3> QED BY <2>1
  <2>3. IsFiniteSet(0..t) BY FS_Interval
  <2>4. QED BY <2>2, <2>3, FS_Subset
<1>2. 0 \in V OBVIOUS
<1>3. IsFiniteSet(V \ {0}) /\ Cardinality(V \ {0}) = Cardinality(V) - 1
  BY <1>1, <1>2, FS_RemoveElement
<1>4. Cardinality(V \ {0}) < Cardinality(V)
  BY <1>1, <1>3, FS_CardinalityType
<1>5. \A n \in V : n + 1 \in V \ {0} /\ n \in Nat
  OBVIOUS
<1>6. f \in [V -> V \ {0}]
  <2> HIDE DEF V
  <2> QED BY <1>5
<1>7. \A x, y \in V : x # y => f[x] # f[y]
  BY <1>5
<1> HIDE DEF f, V
<1>8. QED
  BY <1>1, <1>3, <1>4, <1>6, <1>7, FS_PigeonHole

-----------------------------------------------------------------------------
(* What FlattenSeq() makes of a sequence of sequences.                      *)

Flattens(g, s, n) == \A i \in 1..n : g[i] = IF i = 1 THEN s[i] ELSE g[i - 1] \o s[i]
Agree(g, h, n) == \A i \in 1..n : g[i] = h[i]

LEMMA FlattensUpTo ==
  ASSUME NEW S, NEW s \in Seq(Seq(S)), NEW n \in Nat, n <= Len(s)
  PROVE  \E g \in [1..n -> Seq(S)] : Flattens(g, s, n)
<1> DEFINE Good(g, k) == g \in [1..k -> Seq(S)] /\ Flattens(g, s, k)
<1> DEFINE Has(k) == k <= Len(s) => \E g : Good(g, k)
<1>1. Has(0)
  <2>1. Good([i \in 1..0 |-> <<>>], 0) BY DEF Flattens
  <2> HIDE DEF Good
  <2>2. QED BY <2>1
<1>2. ASSUME NEW k \in Nat, Has(k) PROVE Has(k + 1)
  <2>1. SUFFICES ASSUME k + 1 <= Len(s) PROVE \E g : Good(g, k + 1)
    OBVIOUS
  <2>2. PICK g : Good(g, k)
    <3> HIDE DEF Good
    <3> QED BY <1>2, <2>1
  <2> DEFINE x == IF k = 0 THEN s[1] ELSE g[k] \o s[k + 1]
  <2> DEFINE h == [i \in 1..(k + 1) |-> IF i = k + 1 THEN x ELSE g[i]]
  <2>3. s[k + 1] \in Seq(S) /\ (k # 0 => g[k] \in Seq(S))
    BY <2>1, <2>2
  <2>4. x \in Seq(S)
    BY <2>3, ConcatProperties
  <2>5. h \in [1..(k + 1) -> Seq(S)]
    <3> HIDE DEF x
    <3> QED BY <2>2, <2>4
  <2>6. ASSUME NEW i \in 1..(k + 1) PROVE h[i] = IF i = 1 THEN s[i] ELSE h[i - 1] \o s[i]
    <3>1. CASE i = k + 1
      BY <3>1
    <3>2. CASE i # k + 1
      <4> HIDE DEF x
      <4>1. i \in 1..k /\ h[i] = g[i] /\ (i # 1 => h[i - 1] = g[i - 1])
        BY <3>2
      <4>2. QED BY <2>2, <4>1 DEF Flattens
    <3>3. QED BY <3>1, <3>2
  <2>7. Good(h, k + 1)
    <3> HIDE DEF h
    <3> QED BY <2>5, <2>6 DEF Flattens
  <2>8. QED
    <3> HIDE DEF Good, h
    <3> QED BY <2>7
<1> DEFINE U == {k \in Nat : Has(k)}
<1>3. 0 \in U /\ \A k \in U : k + 1 \in U
  <2> HIDE DEF Has
  <2> QED BY <1>1, <1>2
<1>4. U = Nat
  <2> HIDE DEF U
  <2>1. U \subseteq Nat BY DEF U
  <2>2. QED BY <1>3, <2>1, Induction
<1>5. Has(n)
  <2> HIDE DEF Has
  <2> QED BY <1>4
<1>6. QED BY <1>5

LEMMA FlattensOnce ==
  ASSUME NEW s, Len(s) \in Nat, NEW n \in Nat, n <= Len(s), NEW g, NEW h, Flattens(g, s, n), Flattens(h, s, n)
  PROVE  Agree(g, h, n)
<1> DEFINE U == {k \in Nat : k \in 1..n => g[k] = h[k]}
<1>1. 0 \in U OBVIOUS
<1>2. ASSUME NEW k \in U PROVE k + 1 \in U
  BY <1>2 DEF Flattens
<1>3. U = Nat
  <2> HIDE DEF U
  <2>1. U \subseteq Nat BY DEF U
  <2>2. QED BY <1>1, <1>2, <2>1, Induction
<1>4. QED BY <1>3 DEF Agree

LEMMA FlattenIs ==
  ASSUME NEW S, NEW s \in Seq(Seq(S)), s # <<>>
  PROVE  \E g \in [1..Len(s) -> Seq(S)] : Flattens(g, s, Len(s)) /\ FlattenSeq(s) = g[Len(s)]
<1> DEFINE F(g) == g = [i \in 1..Len(s) |-> IF i = 1 THEN s[i] ELSE g[i - 1] \o s[i]]
<1>1. PICK g \in [1..Len(s) -> Seq(S)] : Flattens(g, s, Len(s))
  <2>1. Len(s) \in Nat /\ Len(s) <= Len(s) OBVIOUS
  <2>2. QED BY <2>1, FlattensUpTo
<1>2. F(g)
  BY <1>1 DEF Flattens
<1>3. F(CHOOSE h : F(h))
  <2> HIDE DEF F
  <2> QED BY <1>2
<1>4. PICK f : f = (CHOOSE h : F(h)) OBVIOUS
<1>5. F(f) BY <1>3, <1>4
<1>6. Flattens(f, s, Len(s))
  BY <1>5 DEF Flattens
<1>7. Agree(f, g, Len(s))
  <2> HIDE DEF F
  <2>1. Len(s) \in Nat /\ Len(s) <= Len(s) OBVIOUS
  <2>2. QED BY <1>1, <1>6, <2>1, FlattensOnce
<1>8. Len(s) \in Nat /\ Len(s) # 0
  OBVIOUS
<1>9. FlattenSeq(s) = f[Len(s)]
  BY <1>4, <1>8 DEF FlattenSeq
<1>10. f[Len(s)] = g[Len(s)]
  BY <1>7, <1>8 DEF Agree
<1>11. QED BY <1>1, <1>9, <1>10

(* What a send more adds. *)
LEMMA FlattenMore ==
  ASSUME NEW S, NEW s \in Seq(Seq(S)), NEW x \in Seq(S)
  PROVE  /\ FlattenSeq(Append(s, x)) = FlattenSeq(s) \o x
         /\ FlattenSeq(s) \in Seq(S)
<1> DEFINE t == Append(s, x)
<1>1. t \in Seq(Seq(S)) /\ t # <<>> /\ Len(t) = Len(s) + 1 /\ t[Len(s) + 1] = x
  BY AppendProperties
<1>2. \A i \in 1..Len(s) : t[i] = s[i]
  BY AppendProperties
<1>3. Len(s) \in Nat OBVIOUS
<1> HIDE DEF t
<1>4. PICK g \in [1..Len(t) -> Seq(S)] : Flattens(g, t, Len(t)) /\ FlattenSeq(t) = g[Len(t)]
  BY <1>1, FlattenIs
<1>5. CASE s = <<>>
  <2>1. FlattenSeq(s) = <<>>
    BY <1>5 DEF FlattenSeq
  <2>2. FlattenSeq(t) = x
    BY <1>1, <1>4, <1>5 DEF Flattens
  <2>3. <<>> \o x = x
    OBVIOUS
  <2>4. QED BY <2>1, <2>2, <2>3 DEF t
<1>6. CASE s # <<>>
  <2>1. PICK h \in [1..Len(s) -> Seq(S)] : Flattens(h, s, Len(s)) /\ FlattenSeq(s) = h[Len(s)]
    BY <1>6, FlattenIs
  <2>2. Flattens(g, s, Len(s))
    <3>1. \A i \in 1..Len(t) : g[i] = IF i = 1 THEN t[i] ELSE g[i - 1] \o t[i]
      BY <1>4 DEF Flattens
    <3>2. \A i \in 1..Len(s) : i \in 1..Len(t)
      BY <1>1, <1>3
    <3>3. QED BY <1>2, <3>1, <3>2 DEF Flattens
  <2>3. Agree(g, h, Len(s))
    BY <1>3, <2>1, <2>2, FlattensOnce
  <2>4. Len(s) # 0
    BY <1>6
  <2>5. g[Len(t)] = g[Len(s)] \o x
    <3>1. \A i \in 1..Len(t) : g[i] = IF i = 1 THEN t[i] ELSE g[i - 1] \o t[i]
      BY <1>4 DEF Flattens
    <3>2. Len(t) \in 1..Len(t) /\ Len(t) # 1 /\ Len(t) - 1 = Len(s)
      BY <1>1, <1>3, <2>4
    <3>3. QED BY <1>1, <3>1, <3>2
  <2>6. g[Len(s)] = h[Len(s)]
    BY <1>3, <2>3, <2>4 DEF Agree
  <2>7. FlattenSeq(t) = FlattenSeq(s) \o x /\ FlattenSeq(s) \in Seq(S)
    <3>1. h[Len(s)] \in Seq(S)
      <4>1. Len(s) \in 1..Len(s) BY <1>3, <2>4
      <4>2. h \in [1..Len(s) -> Seq(S)] OBVIOUS
      <4>3. QED BY ONLY <4>1, <4>2
    <3>2. QED BY <1>4, <2>1, <2>5, <2>6, <3>1
  <2>8. QED BY <2>7 DEF t
<1>7. QED BY <1>5, <1>6

-----------------------------------------------------------------------------
(* Messages.                                                                *)

IsList(q) == \E S : q \in Seq(S)
Prompts == {"do", "your"}
NoPrompt(q) == \A i \in 1..Len(q) : q[i][1] \notin Prompts
NoExit(q) == \A i \in 1..Len(q) : q[i][1] # "exit"
OnePrompt(q, k) ==
  \E j \in 1..Len(q) : q[j][1] = k /\ \A i \in 1..Len(q) : i # j => q[i][1] \notin Prompts

Piece(s, x, c) == IF s.addr[x.to] = c /\ (Tcp \/ x.m[1] \in {"do", "your", "exit"}) THEN <<x.m>> ELSE <<>>

LEMMA PartsIs ==
  ASSUME NEW s, NEW ms, NEW c
  PROVE  Parts(s, ms, c) = FlattenSeq([i \in DOMAIN ms |-> Piece(s, ms[i], c)])
BY DEF Parts, Piece

(* A client gets nothing but what is sent to it. *)
SentTo(s, ms, c) == {ms[i].m : i \in {k \in 1..Len(ms) : s.addr[ms[k].to] = c}}

LEMMA PartsOf ==
  ASSUME NEW s, NEW ms, IsList(ms), NEW c
  PROVE  Parts(s, ms, c) \in Seq(SentTo(s, ms, c))
<1> DEFINE M == SentTo(s, ms, c)
<1> DEFINE ps == [i \in DOMAIN ms |-> Piece(s, ms[i], c)]
<1>1. Len(ms) \in Nat /\ DOMAIN ms = 1..Len(ms)
  BY DEF IsList
<1>2. ASSUME NEW i \in 1..Len(ms) PROVE Piece(s, ms[i], c) \in Seq(M)
  <2>1. CASE s.addr[ms[i].to] = c
    <3>1. ms[i].m \in M BY <2>1 DEF SentTo
    <3> HIDE DEF M
    <3>2. QED BY <3>1 DEF Piece
  <2>2. CASE s.addr[ms[i].to] # c
    <3> HIDE DEF M
    <3>1. QED BY <2>2 DEF Piece
  <2>3. QED BY <2>1, <2>2
<1>3. ps \in Seq(Seq(M))
  <2> HIDE DEF M
  <2>1. ps \in [1..Len(ms) -> Seq(M)] BY <1>1, <1>2
  <2> HIDE DEF ps
  <2>2. QED BY <1>1, <2>1
<1>4. <<>> \in Seq(M)
  OBVIOUS
<1> HIDE DEF M, ps
<1>5. FlattenSeq(ps) \in Seq(M)
  BY <1>3, <1>4, FlattenMore
<1>6. QED BY <1>5, PartsIs DEF ps, M

LEMMA PartsMore ==
  ASSUME NEW s, NEW ms, IsList(ms), NEW x, NEW c
  PROVE  Parts(s, Append(ms, x), c) = Parts(s, ms, c) \o Piece(s, x, c)
<1> DEFINE M == {ms[i].m : i \in 1..Len(ms)} \cup {x.m}
<1> DEFINE ps == [i \in DOMAIN ms |-> Piece(s, ms[i], c)]
<1> DEFINE qs == [i \in DOMAIN Append(ms, x) |-> Piece(s, Append(ms, x)[i], c)]
<1>1. Len(ms) \in Nat /\ DOMAIN ms = 1..Len(ms) /\ DOMAIN Append(ms, x) = 1..(Len(ms) + 1)
  BY DEF IsList
<1>2. (\A i \in 1..Len(ms) : Append(ms, x)[i] = ms[i]) /\ Append(ms, x)[Len(ms) + 1] = x
  BY DEF IsList
<1>3. Piece(s, x, c) \in Seq(M)
  <2>1. x.m \in M OBVIOUS
  <2> HIDE DEF M
  <2>2. QED BY <2>1 DEF Piece
<1>4. ASSUME NEW i \in 1..Len(ms) PROVE Piece(s, ms[i], c) \in Seq(M)
  <2>1. ms[i].m \in M OBVIOUS
  <2> HIDE DEF M
  <2>2. QED BY <2>1 DEF Piece
<1>5. ps \in Seq(Seq(M)) /\ Len(ps) = Len(ms)
  <2> HIDE DEF M
  <2>1. ps \in [1..Len(ms) -> Seq(M)] BY <1>1, <1>4
  <2> HIDE DEF ps
  <2>2. QED BY <1>1, <2>1
<1>6. qs = Append(ps, Piece(s, x, c))
  <2>1. \A i \in 1..Len(ms) : ps[i] = Piece(s, ms[i], c)
    BY <1>1
  <2>2. \A i \in 1..(Len(ms) + 1) : qs[i] = Piece(s, Append(ms, x)[i], c)
    BY <1>1
  <2>3. qs \in Seq(Seq(M)) /\ Len(qs) = Len(ms) + 1
    <3> HIDE DEF M
    <3>1. ASSUME NEW i \in 1..(Len(ms) + 1) PROVE Piece(s, Append(ms, x)[i], c) \in Seq(M)
      BY <1>1, <1>2, <1>3, <1>4
    <3>2. qs \in [1..(Len(ms) + 1) -> Seq(M)] BY <1>1, <3>1
    <3> HIDE DEF qs
    <3>3. QED BY <1>1, <3>2
  <2>4. Append(ps, Piece(s, x, c)) \in Seq(Seq(M)) /\ Len(Append(ps, Piece(s, x, c))) = Len(ms) + 1
    <3> HIDE DEF ps, M
    <3> QED BY <1>3, <1>5, AppendProperties
  <2>5. \A i \in 1..(Len(ms) + 1) : qs[i] = Append(ps, Piece(s, x, c))[i]
    <3>1. ASSUME NEW i \in 1..Len(ms) PROVE qs[i] = Append(ps, Piece(s, x, c))[i]
      <4>1. Append(ps, Piece(s, x, c))[i] = ps[i]
        <5> HIDE DEF ps, M
        <5> QED BY <1>3, <1>5, AppendProperties
      <4>2. i \in 1..(Len(ms) + 1) BY <1>1
      <4> HIDE DEF ps, qs
      <4>3. QED BY <1>2, <2>1, <2>2, <4>1, <4>2
    <3>2. qs[Len(ms) + 1] = Append(ps, Piece(s, x, c))[Len(ms) + 1]
      <4>1. Append(ps, Piece(s, x, c))[Len(ms) + 1] = Piece(s, x, c)
        <5> HIDE DEF ps, M
        <5> QED BY <1>3, <1>5, AppendProperties
      <4>2. Len(ms) + 1 \in 1..(Len(ms) + 1) BY <1>1
      <4> HIDE DEF ps, qs
      <4>3. QED BY <1>2, <2>2, <4>1, <4>2
    <3>3. \A i \in 1..(Len(ms) + 1) : i \in 1..Len(ms) \/ i = Len(ms) + 1
      BY <1>1
    <3>4. QED BY <3>1, <3>2, <3>3
  <2> HIDE DEF ps, qs, M
  <2>6. QED BY <2>3, <2>4, <2>5, SeqEqual
<1> HIDE DEF M, ps, qs
<1>7. FlattenSeq(qs) = FlattenSeq(ps) \o Piece(s, x, c)
  BY <1>3, <1>5, <1>6, FlattenMore
<1>8. QED BY <1>7, PartsIs DEF ps, qs

LEMMA Joined ==
  ASSUME NEW q, NEW r, IsList(q), IsList(r)
  PROVE  /\ IsList(q \o r) /\ Len(q \o r) = Len(q) + Len(r)
         /\ \A i \in 1..Len(q) : (q \o r)[i] = q[i]
         /\ \A i \in 1..Len(r) : (q \o r)[Len(q) + i] = r[i]
         /\ Len(q) \in Nat /\ Len(r) \in Nat
<1>1. PICK S : q \in Seq(S) BY DEF IsList
<1>2. PICK T : r \in Seq(T) BY DEF IsList
<1>3. q \in Seq(S \cup T) /\ r \in Seq(S \cup T)
  BY <1>1, <1>2
<1>4. QED BY <1>3 DEF IsList

LEMMA JoinedQuiet ==
  ASSUME NEW q, NEW r, IsList(q), IsList(r)
  PROVE  /\ NoPrompt(q) /\ NoPrompt(r) => NoPrompt(q \o r)
         /\ NoExit(q) /\ NoExit(r) => NoExit(q \o r)
<1>1. ASSUME NEW i \in 1..Len(q \o r)
      PROVE  \/ i \in 1..Len(q) /\ (q \o r)[i] = q[i]
             \/ \E j \in 1..Len(r) : (q \o r)[i] = r[j]
  <2>1. CASE i <= Len(q)
    BY <2>1, Joined
  <2>2. CASE i > Len(q)
    <3>1. i - Len(q) \in 1..Len(r) /\ Len(q) + (i - Len(q)) = i
      BY <2>2, Joined
    <3>2. QED BY <3>1, Joined
  <2>3. QED BY <2>1, <2>2, Joined
<1>2. QED BY <1>1 DEF NoPrompt, NoExit

LEMMA JoinedPrompt ==
  ASSUME NEW q, NEW m, NEW k, IsList(q), NoPrompt(q), m[1] = k, k \in Prompts
  PROVE  /\ OnePrompt(q \o <<m>>, k) /\ IsList(q \o <<m>>)
         /\ NoExit(q) => NoExit(q \o <<m>>)
<1>1. <<m>> \in Seq({m}) OBVIOUS
<1>2. IsList(<<m>>) /\ Len(<<m>>) = 1 /\ <<m>>[1] = m
  BY <1>1 DEF IsList
<1> DEFINE p == q \o <<m>>
<1>3. IsList(p) /\ Len(p) = Len(q) + 1 /\ Len(q) \in Nat /\ (\A i \in 1..Len(q) : p[i] = q[i])
  BY <1>2, Joined
<1>4. p[Len(q) + 1] = m
  BY <1>2, Joined
<1> HIDE DEF p
<1>5. OnePrompt(p, k)
  <2>1. Len(q) + 1 \in 1..Len(p) BY <1>3
  <2>2. \A i \in 1..Len(p) : i # Len(q) + 1 => i \in 1..Len(q)
    BY <1>3
  <2>3. QED BY <1>3, <1>4, <2>1, <2>2 DEF OnePrompt, NoPrompt
<1>6. NoExit(q) => NoExit(p)
  <2>1. \A i \in 1..Len(p) : i = Len(q) + 1 \/ i \in 1..Len(q)
    BY <1>3
  <2>2. QED BY <1>3, <1>4, <2>1 DEF NoExit, Prompts
<1>7. QED BY <1>3, <1>5, <1>6 DEF p

(* A part of what is under way has been read. *)
LEMMA ReadFront ==
  ASSUME NEW q, IsList(q), NEW n \in 1..Len(q)
  PROVE  LET text == SubSeq(q, 1, n)
             rest == SubSeq(q, n + 1, Len(q))
         IN  /\ IsList(rest) /\ Kinds(text) = {q[i][1] : i \in 1..n}
             /\ NoExit(q) => NoExit(rest) /\ "exit" \notin Kinds(text)
             /\ NoPrompt(q) => NoPrompt(rest) /\ Kinds(text) \cap Prompts = {}
             /\ \A k \in Prompts : OnePrompt(q, k) =>
                  \/ Kinds(text) \cap Prompts = {k} /\ NoPrompt(rest)
                  \/ Kinds(text) \cap Prompts = {} /\ OnePrompt(rest, k)
<1> DEFINE text == SubSeq(q, 1, n)
<1> DEFINE rest == SubSeq(q, n + 1, Len(q))
<1>1. PICK S : q \in Seq(S) BY DEF IsList
<1>2. Len(q) \in Nat BY <1>1
<1>3. Len(text) = n /\ (\A i \in 1..n : text[i] = q[i]) /\ DOMAIN text = 1..n
  BY <1>1, <1>2
<1>4. rest \in Seq(S) /\ Len(rest) = Len(q) - n /\ \A i \in 1..(Len(q) - n) : rest[i] = q[n + i]
  <2>1. n + 1 \in 1..(Len(q) + 1) BY <1>2
  <2>2. QED BY <1>1, <1>2, <2>1
<1>5. Kinds(text) = {q[i][1] : i \in 1..n}
  <2> HIDE DEF text
  <2> QED BY <1>3 DEF Kinds
<1> HIDE DEF text, rest
<1>6. IsList(rest) BY <1>4 DEF IsList
<1>7. \A i \in 1..Len(rest) : n + i \in 1..Len(q) /\ rest[i] = q[n + i]
  BY <1>2, <1>4
<1>8. NoExit(q) => NoExit(rest) /\ "exit" \notin Kinds(text)
  <2>1. \A i \in 1..n : i \in 1..Len(q) BY <1>2
  <2>2. QED BY <1>5, <1>7, <2>1 DEF NoExit
<1>9. NoPrompt(q) => NoPrompt(rest) /\ Kinds(text) \cap Prompts = {}
  <2>1. \A i \in 1..n : i \in 1..Len(q) BY <1>2
  <2>2. QED BY <1>5, <1>7, <2>1 DEF NoPrompt
<1>10. ASSUME NEW k \in Prompts, OnePrompt(q, k)
       PROVE  \/ Kinds(text) \cap Prompts = {k} /\ NoPrompt(rest)
              \/ Kinds(text) \cap Prompts = {} /\ OnePrompt(rest, k)
  <2>1. PICK j \in 1..Len(q) : q[j][1] = k /\ \A i \in 1..Len(q) : i # j => q[i][1] \notin Prompts
    BY <1>10 DEF OnePrompt
  <2>2. \A i \in 1..n : i \in 1..Len(q) BY <1>2
  <2>3. CASE j <= n
    <3>1. j \in 1..n BY <2>3
    <3>2. Kinds(text) \cap Prompts = {k}
      BY <1>5, <1>10, <2>1, <2>2, <3>1
    <3>3. \A i \in 1..Len(rest) : n + i # j
      BY <1>2, <1>4, <2>3
    <3>4. QED BY <1>7, <2>1, <3>2, <3>3 DEF NoPrompt
  <2>4. CASE j > n
    <3>1. \A i \in 1..n : i # j BY <2>4
    <3>2. Kinds(text) \cap Prompts = {}
      BY <1>5, <2>1, <2>2, <3>1
    <3>3. j - n \in 1..Len(rest) /\ n + (j - n) = j
      BY <1>2, <1>4, <2>4
    <3>4. rest[j - n][1] = k
      BY <1>7, <2>1, <3>3
    <3>5. \A i \in 1..Len(rest) : i # j - n => n + i # j
      BY <1>2, <1>4
    <3>6. \A i \in 1..Len(rest) : i # j - n => rest[i][1] \notin Prompts
      BY <1>7, <2>1, <3>5
    <3>7. QED BY <3>2, <3>3, <3>4, <3>6 DEF OnePrompt
  <2>5. QED BY <2>3, <2>4
<1>11. QED BY <1>5, <1>6, <1>8, <1>9, <1>10 DEF text, rest

(* One datagram has been read, or is lost. *)
LEMMA ReadOne ==
  ASSUME NEW q, IsList(q), NEW n \in 1..Len(q)
  PROVE  LET rest == RemoveAt(q, n)
         IN  /\ IsList(rest) /\ Kinds(<<q[n]>>) = {q[n][1]}
             /\ NoExit(q) => NoExit(rest) /\ "exit" \notin Kinds(<<q[n]>>)
             /\ NoPrompt(q) => NoPrompt(rest) /\ Kinds(<<q[n]>>) \cap Prompts = {}
             /\ \A k \in Prompts : OnePrompt(q, k) =>
                  \/ Kinds(<<q[n]>>) \cap Prompts = {k} /\ NoPrompt(rest)
                  \/ Kinds(<<q[n]>>) \cap Prompts = {} /\ OnePrompt(rest, k)
<1> DEFINE rest == RemoveAt(q, n)
<1> DEFINE f == SubSeq(q, 1, n - 1)
<1> DEFINE t == SubSeq(q, n + 1, Len(q))
<1>1. PICK S : q \in Seq(S) BY DEF IsList
<1>2. Len(q) \in Nat /\ n \in Nat BY <1>1
<1>3. f \in Seq(S) /\ Len(f) = n - 1 /\ \A i \in 1..(n - 1) : f[i] = q[i]
  BY <1>1, <1>2
<1>4. t \in Seq(S) /\ Len(t) = Len(q) - n /\ \A i \in 1..(Len(q) - n) : t[i] = q[n + i]
  <2>1. n + 1 \in 1..(Len(q) + 1) BY <1>2
  <2>2. QED BY <1>1, <1>2, <2>1
<1>5. rest = f \o t
  BY DEF RemoveAt
<1> HIDE DEF f, t, rest
<1>6. IsList(f) /\ IsList(t)
  BY <1>3, <1>4 DEF IsList
<1>7. IsList(rest) /\ Len(rest) = Len(q) - 1
  BY <1>2, <1>3, <1>4, <1>5, <1>6, Joined
<1>8. ASSUME NEW i \in 1..Len(rest)
      PROVE  rest[i] = IF i < n THEN q[i] ELSE q[i + 1]
  <2>1. CASE i < n
    <3>1. i \in 1..Len(f) BY <1>2, <1>3, <2>1
    <3>2. rest[i] = f[i]
      BY <1>5, <1>6, <3>1, Joined
    <3>3. f[i] = q[i]
      BY <1>3, <3>1
    <3>4. QED BY <2>1, <3>2, <3>3
  <2>2. CASE ~(i < n)
    <3>1. i - (n - 1) \in 1..Len(t) /\ Len(f) + (i - (n - 1)) = i /\ n + (i - (n - 1)) = i + 1
      BY <1>2, <1>3, <1>4, <1>7, <2>2
    <3>2. (f \o t)[Len(f) + (i - (n - 1))] = t[i - (n - 1)]
      BY <1>6, <3>1, Joined
    <3>5. rest[i] = t[i - (n - 1)]
      BY <1>5, <3>1, <3>2
    <3>3. t[i - (n - 1)] = q[i + 1]
      BY <1>4, <3>1
    <3>4. QED BY <2>2, <3>3, <3>5
  <2>3. QED BY <2>1, <2>2
<1>9. \A i \in 1..Len(rest) : \E j \in 1..Len(q) : rest[i] = q[j] /\ j # n /\ (j = i \/ j = i + 1)
  <2> SUFFICES ASSUME NEW i \in 1..Len(rest)
               PROVE  \E j \in 1..Len(q) : rest[i] = q[j] /\ j # n /\ (j = i \/ j = i + 1)
    OBVIOUS
  <2>1. CASE i < n
    <3>1. i \in 1..Len(q) /\ i # n BY <1>2, <1>7, <2>1
    <3>2. QED BY <1>8, <2>1, <3>1
  <2>2. CASE ~(i < n)
    <3>1. i + 1 \in 1..Len(q) /\ i + 1 # n BY <1>2, <1>7, <2>2
    <3>2. QED BY <1>8, <2>2, <3>1
  <2>3. QED BY <2>1, <2>2
<1>10. Kinds(<<q[n]>>) = {q[n][1]}
  BY DEF Kinds
<1>11. NoExit(q) => NoExit(rest) /\ "exit" \notin Kinds(<<q[n]>>)
  BY <1>9, <1>10 DEF NoExit
<1>12. NoPrompt(q) => NoPrompt(rest) /\ Kinds(<<q[n]>>) \cap Prompts = {}
  BY <1>9, <1>10 DEF NoPrompt
<1>13. ASSUME NEW k \in Prompts, OnePrompt(q, k)
       PROVE  \/ Kinds(<<q[n]>>) \cap Prompts = {k} /\ NoPrompt(rest)
              \/ Kinds(<<q[n]>>) \cap Prompts = {} /\ OnePrompt(rest, k)
  <2>1. PICK j \in 1..Len(q) : q[j][1] = k /\ \A i \in 1..Len(q) : i # j => q[i][1] \notin Prompts
    BY <1>13 DEF OnePrompt
  <2>2. CASE j = n
    BY <1>9, <1>10, <1>13, <2>1, <2>2 DEF NoPrompt
  <2>3. CASE j # n
    <3> DEFINE e == IF j < n THEN j ELSE j - 1
    <3>1. e \in 1..Len(rest) /\ rest[e] = q[j]
      <4>1. e \in 1..Len(rest) BY <1>2, <1>7, <2>3
      <4>2. rest[e] = IF e < n THEN q[e] ELSE q[e + 1]
        <5> HIDE DEF e
        <5> QED BY <1>8, <4>1
      <4>3. CASE j < n
        BY <4>1, <4>2, <4>3
      <4>4. CASE j > n
        <5>1. e = j - 1 /\ ~(e < n) /\ e + 1 = j BY <1>2, <4>4
        <5> HIDE DEF e
        <5>2. QED BY <4>1, <4>2, <5>1
      <4>5. QED BY <1>2, <2>3, <4>3, <4>4
    <3>2. ASSUME NEW i \in 1..Len(rest), i # e PROVE rest[i][1] \notin Prompts
      <4>1. CASE i < n
        <5>1. i # j /\ i \in 1..Len(q) BY <1>2, <1>7, <3>2, <4>1
        <5>2. QED BY <1>8, <2>1, <4>1, <5>1
      <4>2. CASE ~(i < n)
        <5>1. i + 1 # j /\ i + 1 \in 1..Len(q) BY <1>2, <1>7, <3>2, <4>2
        <5>2. QED BY <1>8, <2>1, <4>2, <5>1
      <4>3. QED BY <4>1, <4>2
    <3> HIDE DEF e
    <3>3. OnePrompt(rest, k)
      BY <2>1, <3>1, <3>2 DEF OnePrompt
    <3>4. QED BY <1>10, <2>1, <2>3, <3>3
  <2>4. QED BY <2>2, <2>3
<1>14. QED BY <1>7, <1>10, <1>11, <1>12, <1>13 DEF rest

-----------------------------------------------------------------------------
(* The board.                                                               *)

LEMMA CellIs ==
  ASSUME NEW c \in Cells
  PROVE  c[1] \in 1..3 /\ c[2] \in 1..3 /\ c = <<c[1], c[2]>>
BY DEF Cells

(* Three cells with equal distances are a row, a column or a diagonal. *)
LEMMA LineIs ==
  ASSUME NEW x \in Cells, NEW y \in Cells, NEW z \in Cells, XO!Aligned(x, y, z)
  PROVE  \/ \E i \in 1..3 : {x, y, z} = {<<i, 1>>, <<i, 2>>, <<i, 3>>}
         \/ \E i \in 1..3 : {x, y, z} = {<<1, i>>, <<2, i>>, <<3, i>>}
         \/ {x, y, z} = {<<1, 1>>, <<2, 2>>, <<3, 3>>}
         \/ {x, y, z} = {<<1, 3>>, <<2, 2>>, <<3, 1>>}
<1>1. x # z
  BY DEF XO!Aligned
<1>2. x[1] + z[1] = 2 * y[1] /\ x[2] + z[2] = 2 * y[2]
  BY DEF XO!Aligned
<1>3. /\ x[1] \in 1..3 /\ x[2] \in 1..3 /\ x = <<x[1], x[2]>>
      /\ y[1] \in 1..3 /\ y[2] \in 1..3 /\ y = <<y[1], y[2]>>
      /\ z[1] \in 1..3 /\ z[2] \in 1..3 /\ z = <<z[1], z[2]>>
  BY CellIs
<1> DEFINE x1 == x[1]
<1> DEFINE x2 == x[2]
<1> DEFINE y1 == y[1]
<1> DEFINE y2 == y[2]
<1> DEFINE z1 == z[1]
<1> DEFINE z2 == z[2]
<1>4. x1 # z1 \/ x2 # z2
  BY <1>1, <1>3
<1>5. x = <<x1, x2>> /\ y = <<y1, y2>> /\ z = <<z1, z2>>
  BY <1>3
<1>6. \/ x1 = y1 /\ y1 = z1 /\ y2 = 2 /\ ((x2 = 1 /\ z2 = 3) \/ (x2 = 3 /\ z2 = 1))
      \/ x2 = y2 /\ y2 = z2 /\ y1 = 2 /\ ((x1 = 1 /\ z1 = 3) \/ (x1 = 3 /\ z1 = 1))
      \/ y1 = 2 /\ y2 = 2 /\ ((x1 = 1 /\ z1 = 3) \/ (x1 = 3 /\ z1 = 1)) /\ ((x2 = 1 /\ z2 = 3) \/ (x2 = 3 /\ z2 = 1))
  <2>1. x1 \in 1..3 /\ x2 \in 1..3 /\ y1 \in 1..3 /\ y2 \in 1..3 /\ z1 \in 1..3 /\ z2 \in 1..3
    BY <1>3
  <2>2. x1 + z1 = 2 * y1 /\ x2 + z2 = 2 * y2
    BY <1>2
  <2> HIDE DEF x1, x2, y1, y2, z1, z2
  <2>3. QED BY <1>4, <2>1, <2>2
<1>7. x1 \in 1..3 /\ x2 \in 1..3
  BY <1>3
<1> HIDE DEF x1, x2, y1, y2, z1, z2
<1>8. QED BY <1>5, <1>6, <1>7

(* check_winner() finds a line of three exactly when there is one. *)
LEMMA WinnerIsLine ==
  ASSUME NEW b, NEW s
  PROVE  check_winner(b, s) <=> XO!HasLine(b, s)
<1>1. \A i, j \in 1..3 : <<i, j>> \in Cells
  BY DEF Cells
<1>2. ASSUME XO!HasLine(b, s) PROVE check_winner(b, s)
  <2>1. PICK x \in Cells, y \in Cells, z \in Cells :
          b[x] = s /\ b[y] = s /\ b[z] = s /\ XO!Aligned(x, y, z)
    BY <1>2 DEF XO!HasLine, XO!Cells, Cells
  <2>2. \A c \in {x, y, z} : b[c] = s
    BY <2>1
  <2>3. CASE \E i \in 1..3 : {x, y, z} = {<<i, 1>>, <<i, 2>>, <<i, 3>>}
    <3>1. PICK i \in 1..3 : {x, y, z} = {<<i, 1>>, <<i, 2>>, <<i, 3>>} BY <2>3
    <3>2. b[<<i, 1>>] = s /\ b[<<i, 2>>] = s /\ b[<<i, 3>>] = s BY <2>2, <3>1
    <3>3. \A j \in 1..3 : j = 1 \/ j = 2 \/ j = 3 OBVIOUS
    <3>4. \A j \in 1..3 : b[<<i, j>>] = s BY <3>2, <3>3
    <3>5. QED BY <3>4 DEF check_winner
  <2>4. CASE \E i \in 1..3 : {x, y, z} = {<<1, i>>, <<2, i>>, <<3, i>>}
    <3>1. PICK i \in 1..3 : {x, y, z} = {<<1, i>>, <<2, i>>, <<3, i>>} BY <2>4
    <3>2. b[<<1, i>>] = s /\ b[<<2, i>>] = s /\ b[<<3, i>>] = s BY <2>2, <3>1
    <3>3. \A j \in 1..3 : j = 1 \/ j = 2 \/ j = 3 OBVIOUS
    <3>4. \A j \in 1..3 : b[<<j, i>>] = s BY <3>2, <3>3
    <3>5. QED BY <3>4 DEF check_winner
  <2>5. CASE {x, y, z} = {<<1, 1>>, <<2, 2>>, <<3, 3>>}
    <3>1. b[<<1, 1>>] = s /\ b[<<2, 2>>] = s /\ b[<<3, 3>>] = s BY <2>2, <2>5
    <3>2. \A j \in 1..3 : j = 1 \/ j = 2 \/ j = 3 OBVIOUS
    <3>3. \A j \in 1..3 : b[<<j, j>>] = s BY <3>1, <3>2
    <3>4. QED BY <3>3 DEF check_winner
  <2>6. CASE {x, y, z} = {<<1, 3>>, <<2, 2>>, <<3, 1>>}
    <3>1. b[<<1, 3>>] = s /\ b[<<2, 2>>] = s /\ b[<<3, 1>>] = s BY <2>2, <2>6
    <3>2. \A j \in 1..3 : j = 1 \/ j = 2 \/ j = 3 OBVIOUS
    <3>3. 4 - 1 = 3 /\ 4 - 2 = 2 /\ 4 - 3 = 1 OBVIOUS
    <3>4. \A j \in 1..3 : b[<<j, 4 - j>>] = s BY <3>1, <3>2, <3>3
    <3>5. QED BY <3>4 DEF check_winner
  <2>7. QED BY <2>1, <2>3, <2>4, <2>5, <2>6, LineIs
<1>3. ASSUME NEW x \in Cells, NEW y \in Cells, NEW z \in Cells, b[x] = s, b[y] = s, b[z] = s, XO!Aligned(x, y, z)
      PROVE  XO!HasLine(b, s)
  BY <1>3 DEF XO!HasLine, XO!Cells, Cells
<1>4. ASSUME NEW i \in 1..3
      PROVE  /\ XO!Aligned(<<i, 1>>, <<i, 2>>, <<i, 3>>)
             /\ XO!Aligned(<<1, i>>, <<2, i>>, <<3, i>>)
             /\ XO!Aligned(<<1, 1>>, <<2, 2>>, <<3, 3>>)
             /\ XO!Aligned(<<1, 3>>, <<2, 2>>, <<3, 1>>)
  <2>1. XO!Aligned(<<i, 1>>, <<i, 2>>, <<i, 3>>) BY <1>1 DEF XO!Aligned
  <2>2. XO!Aligned(<<1, i>>, <<2, i>>, <<3, i>>) BY <1>1 DEF XO!Aligned
  <2>3. XO!Aligned(<<1, 1>>, <<2, 2>>, <<3, 3>>) BY <1>1 DEF XO!Aligned
  <2>4. XO!Aligned(<<1, 3>>, <<2, 2>>, <<3, 1>>) BY <1>1 DEF XO!Aligned
  <2>5. QED BY <2>1, <2>2, <2>3, <2>4
<1>5. ASSUME check_winner(b, s) PROVE XO!HasLine(b, s)
  <2>1. CASE \E i \in 1..3 : \A j \in 1..3 : b[<<i, j>>] = s
    <3>1. PICK i \in 1..3 : \A j \in 1..3 : b[<<i, j>>] = s BY <2>1
    <3>2. b[<<i, 1>>] = s /\ b[<<i, 2>>] = s /\ b[<<i, 3>>] = s BY <3>1
    <3>3. <<i, 1>> \in Cells /\ <<i, 2>> \in Cells /\ <<i, 3>> \in Cells BY <1>1
    <3>4. QED BY <1>3, <1>4, <3>2, <3>3
  <2>2. CASE \E i \in 1..3 : \A j \in 1..3 : b[<<j, i>>] = s
    <3>1. PICK i \in 1..3 : \A j \in 1..3 : b[<<j, i>>] = s BY <2>2
    <3>2. b[<<1, i>>] = s /\ b[<<2, i>>] = s /\ b[<<3, i>>] = s BY <3>1
    <3>3. <<1, i>> \in Cells /\ <<2, i>> \in Cells /\ <<3, i>> \in Cells BY <1>1
    <3>4. QED BY <1>3, <1>4, <3>2, <3>3
  <2>3. CASE \A i \in 1..3 : b[<<i, i>>] = s
    <3>1. b[<<1, 1>>] = s /\ b[<<2, 2>>] = s /\ b[<<3, 3>>] = s BY <2>3
    <3>2. <<1, 1>> \in Cells /\ <<2, 2>> \in Cells /\ <<3, 3>> \in Cells BY <1>1
    <3>3. 1 \in 1..3 OBVIOUS
    <3>4. QED BY <1>3, <1>4, <3>1, <3>2, <3>3
  <2>4. CASE \A i \in 1..3 : b[<<i, 4 - i>>] = s
    <3>1. b[<<1, 4 - 1>>] = s /\ b[<<2, 4 - 2>>] = s /\ b[<<3, 4 - 3>>] = s BY <2>4
    <3>2. 4 - 1 = 3 /\ 4 - 2 = 2 /\ 4 - 3 = 1 OBVIOUS
    <3>3. b[<<1, 3>>] = s /\ b[<<2, 2>>] = s /\ b[<<3, 1>>] = s BY <3>1, <3>2
    <3>4. <<1, 3>> \in Cells /\ <<2, 2>> \in Cells /\ <<3, 1>> \in Cells BY <1>1
    <3>5. 1 \in 1..3 OBVIOUS
    <3>6. QED BY <1>3, <1>4, <3>3, <3>4, <3>5
  <2>5. QED BY <1>5, <2>1, <2>2, <2>3, <2>4 DEF check_winner
<1>6. QED BY <1>2, <1>5

LEMMA NineCells == IsFiniteSet(Cells) /\ Cardinality(Cells) = 9
<1>1. IsFiniteSet(1..3) /\ Cardinality(1..3) = IF 1 > 3 THEN 0 ELSE 3 - 1 + 1
  <2>1. 1 \in Int /\ 3 \in Int OBVIOUS
  <2>2. QED BY ONLY <2>1, FS_Interval
<1>2. Cardinality(1..3) = 3
  BY <1>1
<1>3. IsFiniteSet((1..3) \X (1..3)) /\ Cardinality((1..3) \X (1..3)) = 3 * 3
  BY ONLY <1>1, <1>2, FS_Product
<1>4. QED BY <1>3 DEF Cells

Filled(b) == {c \in Cells : b[c] # " "}

LEMMA FilledIs ==
  ASSUME NEW b
  PROVE  /\ IsFiniteSet(Filled(b)) /\ Cardinality(Filled(b)) \in Nat
         /\ Cardinality(Filled(b)) = 9 <=> \A c \in Cells : b[c] # " "
<1>1. Filled(b) \subseteq Cells BY DEF Filled
<1>2. IsFiniteSet(Filled(b)) /\ Cardinality(Filled(b)) \in Nat
  BY <1>1, NineCells, FS_Subset, FS_CardinalityType
<1>3. Cardinality(Filled(b)) = 9 <=> Filled(b) = Cells
  BY <1>1, NineCells, FS_Subset
<1>4. QED BY <1>2, <1>3 DEF Filled

LEMMA FilledMore ==
  ASSUME NEW b, b \in [Cells -> {" ", "X", "O"}], NEW cell \in Cells, b[cell] = " ", NEW s \in {"X", "O"}
  PROVE  /\ [b EXCEPT ![cell] = s] \in [Cells -> {" ", "X", "O"}]
         /\ Cardinality(Filled([b EXCEPT ![cell] = s])) = Cardinality(Filled(b)) + 1
<1>1. Filled([b EXCEPT ![cell] = s]) = Filled(b) \cup {cell} /\ cell \notin Filled(b)
  BY DEF Filled
<1>2. QED BY <1>1, FilledIs, FS_AddElement

-----------------------------------------------------------------------------
(* The inductive invariant.                                                 *)

ServerStates == {"accept", "ask1", "ask2", "move", "left", "killed"}
ClientStates == {"new", "read", "do", "your", "left"}
Results == {"none", "X", "O", "draw"}

Busy == server.at \in {"ask1", "ask2", "move"}
Over == server.at \in {"left", "killed"}
W == server.addr[Waits(server)]
Kind == IF server.at = "move" THEN "your" ELSE "do"
Word(yes) == IF yes THEN "yes" ELSE "no"
Faults == lost # 0 \/ gone # {} \/ mute # {}

ServerRec(s) ==
  /\ s = [at |-> s.at, addr |-> s.addr, p1 |-> s.p1, turn |-> s.turn, moves |-> s.moves, board |-> s.board]
  /\ s.at \in ServerStates /\ s.addr \in Seq(Clients) /\ s.p1 \in BOOLEAN /\ s.turn \in {1, 2}
  /\ s.board \in [Cells -> {" ", "X", "O"}]
  /\ s.moves = Cardinality(Filled(s.board)) /\ (s.at = "move" => s.moves # 9)

TypeInv ==
  /\ work \in Works /\ ServerRec(server)
  /\ result \in Results \cup {"playing", "closed"}
  /\ down = [c \in Clients |-> down[c]] /\ up = [c \in Clients |-> up[c]]
  /\ \A c \in Clients : IsList(down[c])
  /\ at \in [Clients -> ClientStates] /\ said \in [Clients -> {"", "yes", "no"}]
  /\ gone \subseteq Clients /\ lost \in Nat

(* Nothing asks c and c is not asked. *)
Unasked(c) == NoPrompt(down[c]) /\ at[c] \notin Prompts

(* The question to c, or the answer of c, and no second one. *)
Token(c) ==
  \/ OnePrompt(down[c], Kind) /\ at[c] = "read" /\ up[c] = <<>> /\ said[c] = ""
  \/ NoPrompt(down[c]) /\ at[c] = Kind /\ up[c] = <<>> /\ said[c] = ""
  \/ Unasked(c) /\ \E m : /\ up[c] = <<m>> /\ m.yes \in BOOLEAN
                           /\ said[c] = IF server.at = "move" THEN "" ELSE Word(m.yes)
NoToken(c) == Unasked(c) /\ up[c] = <<>>

Player(c) == c \in {server.addr[i] : i \in 1..Len(server.addr)}

PeopleOK ==
  \A c \in Clients :
    /\ c \in gone => at[c] = "left" /\ down[c] = <<>>
    /\ ~Over => NoExit(down[c]) /\ (at[c] = "left" => c \in gone)
    /\ ~Player(c) => Unasked(c) /\ down[c] = <<>> /\ up[c] \in {<<>>, <<NoText>>} /\ said[c] = ""
    /\ at[c] = "new" => ~Player(c) /\ up[c] = <<>>

AcceptOK ==
  server.at = "accept" =>
    /\ Len(server.addr) < 2 /\ result = "none"
    /\ \A c \in Clients : Unasked(c) /\ said[c] = "" /\ (Player(c) => up[c] = <<>>)

BusyOK ==
  Busy =>
    /\ Len(server.addr) = 2 /\ server.addr[1] # server.addr[2]
    /\ ~Tcp => \A c \in Clients : Player(c)
    /\ Token(W) \/ (NoToken(W) /\ Faults)
    /\ \A c \in Clients : Player(c) /\ c # W => NoToken(c)

OverOK == Over => \A c \in Clients : Unasked(c)

GameOK ==
  /\ server.at = "ask1" => said[server.addr[2]] = ""
  /\ server.at \in {"ask1", "ask2"} => result \in Results
  /\ server.at = "ask2" =>
       IF server.p1 THEN said[server.addr[1]] = "yes"
       ELSE said[server.addr[1]] = "no" \/ server.addr[1] \in gone
  /\ server.at = "move" => result = "playing" /\ \A c \in Clients : said[c] = ""

IInv == TypeInv /\ PeopleOK /\ AcceptOK /\ BusyOK /\ OverOK /\ GameOK

-----------------------------------------------------------------------------
(* The clients.                                                             *)

XStep == [XO!Next]_<<server.addr, said, gone, server.board, server.turn, result>>

PersonOK(c) ==
  /\ c \in gone => at[c] = "left" /\ down[c] = <<>>
  /\ ~Over => NoExit(down[c]) /\ (at[c] = "left" => c \in gone)
  /\ ~Player(c) => Unasked(c) /\ down[c] = <<>> /\ up[c] \in {<<>>, <<NoText>>} /\ said[c] = ""
  /\ at[c] = "new" => ~Player(c) /\ up[c] = <<>>

LEMMA SeatsIs ==
  ASSUME IInv, Busy
  PROVE  /\ W \in Clients /\ Player(W)
         /\ server.addr[1] \in Clients /\ server.addr[2] \in Clients
         /\ Player(server.addr[1]) /\ Player(server.addr[2])
         /\ server.at = "ask1" => W = server.addr[1]
         /\ server.at = "ask2" => W = server.addr[2]
         /\ Waits(server) \in {1, 2}
         /\ \A c : Player(c) <=> c \in {server.addr[1], server.addr[2]}
<1>1. Waits(server) \in {1, 2} /\ (server.at = "ask1" => Waits(server) = 1) /\ (server.at = "ask2" => Waits(server) = 2)
  BY DEF IInv, TypeInv, ServerRec, Busy, Waits
<1>2. server.addr \in Seq(Clients) /\ Len(server.addr) = 2
  BY DEF IInv, TypeInv, ServerRec, BusyOK
<1>3. server.addr[1] \in Clients /\ server.addr[2] \in Clients
  BY <1>2
<1>4. 1 \in 1..Len(server.addr) /\ 2 \in 1..Len(server.addr) /\ \A i \in 1..Len(server.addr) : i = 1 \/ i = 2
  BY <1>2
<1>5. QED BY <1>1, <1>3, <1>4 DEF W, Player

(* One client moves, and the server does not. *)
LEMMA ClientStep ==
  ASSUME IInv, NEW c \in Clients, UNCHANGED <<server, result, work>>,
         down' = [x \in Clients |-> down'[x]], up' = [x \in Clients |-> up'[x]],
         at' \in [Clients -> ClientStates], said' \in [Clients -> {"", "yes", "no"}],
         gone' \subseteq Clients, gone \subseteq gone', lost' \in Nat, Faults => Faults',
         \A x \in Clients : x # c => /\ down'[x] = down[x] /\ up'[x] = up[x] /\ at'[x] = at[x]
                                     /\ said'[x] = said[x] /\ (x \in gone' <=> x \in gone),
         IsList(down'[c]), PersonOK(c)',
         server.at = "accept" => Unasked(c)' /\ said'[c] = "" /\ (Player(c) => up'[c] = <<>>),
         Busy /\ Player(c) /\ c = W => Token(c)' \/ (NoToken(c)' /\ Faults'),
         Busy /\ Player(c) /\ c # W => NoToken(c)',
         Over => Unasked(c)',
         said'[c] = said[c] \/ (server.at \in {"ask1", "ask2"} /\ c = W)
  PROVE  IInv'
<1>0. \A x : Player(x)' <=> Player(x)
  BY DEF Player
<1>1. TypeInv'
  BY DEF IInv, TypeInv
<1>2. ASSUME NEW x \in Clients, x # c
      PROVE  /\ PersonOK(x)' /\ (Unasked(x) => Unasked(x)') /\ (NoToken(x) => NoToken(x)')
             /\ Token(x) => Token(x)'
  <2>1. PersonOK(x) BY DEF IInv, PeopleOK, PersonOK
  <2>2. down'[x] = down[x] /\ up'[x] = up[x] /\ at'[x] = at[x] /\ said'[x] = said[x] /\ (x \in gone' <=> x \in gone)
    BY <1>2
  <2>3. PersonOK(x)'
    BY <2>1, <2>2 DEF PersonOK, Over, Player, Unasked
  <2>4. QED BY <2>2, <2>3 DEF Unasked, NoToken, Token, Kind
<1>3. PeopleOK'
  BY <1>2 DEF PeopleOK, PersonOK
<1>4. AcceptOK'
  <2> SUFFICES ASSUME server.at = "accept" PROVE AcceptOK'
    BY DEF AcceptOK
  <2>1. Len(server.addr) < 2 /\ result = "none" /\ \A x \in Clients : Unasked(x) /\ said[x] = "" /\ (Player(x) => up[x] = <<>>)
    BY DEF IInv, AcceptOK
  <2>2. ASSUME NEW x \in Clients PROVE Unasked(x)' /\ said'[x] = "" /\ (Player(x)' => up'[x] = <<>>)
    <3>1. CASE x = c
      BY <1>0, <3>1
    <3>2. CASE x # c
      <4>1. Unasked(x)' BY <1>2, <2>1, <3>2
      <4>2. said'[x] = "" /\ up'[x] = up[x] BY <2>1, <3>2
      <4>3. QED BY <1>0, <2>1, <4>1, <4>2
    <3>3. QED BY <3>1, <3>2
  <2>3. QED BY <2>1, <2>2 DEF AcceptOK
<1>5. BusyOK'
  <2> SUFFICES ASSUME Busy PROVE BusyOK'
    BY DEF BusyOK, Busy
  <2>1. W' = W /\ W \in Clients /\ Player(W)
    BY SeatsIs DEF W
  <2>2. /\ Len(server.addr) = 2 /\ server.addr[1] # server.addr[2]
        /\ (~Tcp => \A x \in Clients : Player(x))
        /\ Token(W) \/ (NoToken(W) /\ Faults)
        /\ \A x \in Clients : Player(x) /\ x # W => NoToken(x)
    BY DEF IInv, BusyOK
  <2>3. Token(W)' \/ (NoToken(W)' /\ Faults')
    BY <1>2, <2>1, <2>2 DEF W
  <2>4. ASSUME NEW x \in Clients, Player(x)', x # W' PROVE NoToken(x)'
    <3>1. Player(x) /\ x # W BY <1>0, <2>1, <2>4
    <3>2. NoToken(x) BY <2>2, <3>1
    <3>3. QED BY <1>2, <3>1, <3>2
  <2>5. Tcp' = Tcp /\ \A x : Player(x)' <=> Player(x)
    BY <1>0 DEF Tcp
  <2>6. QED BY <2>2, <2>3, <2>4, <2>5 DEF BusyOK
<1>6. OverOK'
  BY <1>2 DEF IInv, OverOK, Over
<1>7. GameOK'
  <2>1. server.at = "ask1" => said'[server.addr[2]] = ""
    <3> SUFFICES ASSUME server.at = "ask1" PROVE said'[server.addr[2]] = ""
      OBVIOUS
    <3>1. Busy BY DEF Busy
    <3>2. server.addr[2] \in Clients /\ server.addr[2] # W
      BY <3>1, SeatsIs DEF IInv, BusyOK
    <3>3. QED BY <3>2 DEF IInv, GameOK
  <2>2. server.at = "ask2" => IF server.p1 THEN said'[server.addr[1]] = "yes"
                              ELSE said'[server.addr[1]] = "no" \/ server.addr[1] \in gone'
    <3> SUFFICES ASSUME server.at = "ask2"
                 PROVE  IF server.p1 THEN said'[server.addr[1]] = "yes"
                        ELSE said'[server.addr[1]] = "no" \/ server.addr[1] \in gone'
      OBVIOUS
    <3>1. Busy BY DEF Busy
    <3>2. server.addr[1] \in Clients /\ server.addr[1] # W
      BY <3>1, SeatsIs DEF IInv, BusyOK
    <3>3. said'[server.addr[1]] = said[server.addr[1]]
      BY <3>2
    <3>4. QED BY <3>3 DEF IInv, GameOK
  <2>3. server.at = "move" => \A x \in Clients : said'[x] = ""
    <3> SUFFICES ASSUME server.at = "move", NEW x \in Clients PROVE said'[x] = ""
      OBVIOUS
    <3>1. said[x] = "" BY DEF IInv, GameOK
    <3>2. QED BY <3>1
  <2>4. QED BY <2>1, <2>2, <2>3 DEF IInv, GameOK
<1>8. QED BY <1>1, <1>3, <1>4, <1>5, <1>6, <1>7 DEF IInv

(* What IInv says of one client. *)
LEMMA PersonIs ==
  ASSUME IInv, NEW c \in Clients
  PROVE  /\ PersonOK(c) /\ IsList(down[c]) /\ at[c] \in ClientStates
         /\ Over => Unasked(c)
         /\ server.at = "accept" => Unasked(c) /\ said[c] = "" /\ (Player(c) => up[c] = <<>>)
         /\ Busy /\ Player(c) /\ c = W => Token(c) \/ (NoToken(c) /\ Faults)
         /\ Busy /\ Player(c) /\ c # W => NoToken(c)
         /\ server.at = "accept" \/ Busy \/ Over
<1>1. PersonOK(c) BY DEF IInv, PeopleOK, PersonOK
<1>2. IsList(down[c]) /\ at[c] \in ClientStates /\ server.at \in ServerStates
  BY DEF IInv, TypeInv, ServerRec
<1>3. server.at = "accept" => Unasked(c) /\ said[c] = "" /\ (Player(c) => up[c] = <<>>)
  BY DEF IInv, AcceptOK
<1>4. Busy => (Player(c) /\ c = W => Token(c) \/ (NoToken(c) /\ Faults)) /\ (Player(c) /\ c # W => NoToken(c))
  BY DEF IInv, BusyOK
<1>5. Over => Unasked(c)
  BY DEF IInv, OverOK
<1>6. server.at = "accept" \/ Busy \/ Over
  BY <1>2 DEF ServerStates, Busy, Over
<1>7. QED BY <1>1, <1>2, <1>3, <1>4, <1>5, <1>6

LEMMA ConnectKeeps ==
  ASSUME IInv, NEW c \in Clients, Connect(c)
  PROVE  IInv' /\ XStep
<1>1. PersonOK(c) /\ at[c] = "new" /\ c \notin gone /\ ~Player(c) /\ said[c] = ""
  BY PersonIs DEF PersonOK, Connect
<1>2. /\ UNCHANGED <<server, result, work, down, said, mute, gone, games, lost>>
      /\ at' = [at EXCEPT ![c] = "read"] /\ up' = [up EXCEPT ![c] = <<NoText>>]
  BY DEF Connect
<1>3. Unasked(c) /\ down[c] = <<>>
  BY <1>1 DEF PersonOK
<1>4. /\ down' = [x \in Clients |-> down'[x]] /\ up' = [x \in Clients |-> up'[x]]
      /\ at' \in [Clients -> ClientStates] /\ said' \in [Clients -> {"", "yes", "no"}]
      /\ at'[c] = "read" /\ up'[c] = <<NoText>>
      /\ \A x \in Clients : x # c => at'[x] = at[x] /\ up'[x] = up[x]
  BY <1>2 DEF IInv, TypeInv, ClientStates
<1>5. (Player(c)' <=> Player(c)) /\ (Over' <=> Over)
  BY <1>2 DEF Player, Over
<1>6. PersonOK(c)' /\ Unasked(c)'
  BY <1>1, <1>2, <1>3, <1>4, <1>5 DEF PersonOK, Unasked, Prompts
<1>7. IsList(down[c]) /\ gone \subseteq Clients /\ lost \in Nat
  BY PersonIs DEF IInv, TypeInv
<1>8. Faults => Faults'
  BY <1>2 DEF Faults
<1>9. IInv'
  BY <1>1, <1>2, <1>4, <1>6, <1>7, <1>8, ClientStep
<1>10. QED BY <1>2, <1>9 DEF XStep

(* After one recv() the question is still to be read, or just read. *)
LEMMA ReadsKeeps ==
  ASSUME IInv, NEW c \in Clients, Reads(c)
  PROVE  IInv' /\ XStep
<1>1. /\ UNCHANGED <<server, result, work, up, said, mute, gone, games, lost>>
      /\ at[c] = "read" /\ down[c] # <<>>
  BY DEF Reads
<1>2. PersonOK(c) /\ IsList(down[c]) /\ c \notin gone /\ Player(c)
  BY <1>1, PersonIs DEF PersonOK
<1> DEFINE Split(text, rest) ==
      /\ IsList(rest)
      /\ NoExit(down[c]) => NoExit(rest) /\ "exit" \notin Kinds(text)
      /\ NoPrompt(down[c]) => NoPrompt(rest) /\ Kinds(text) \cap Prompts = {}
      /\ \A k \in Prompts : OnePrompt(down[c], k) =>
           \/ Kinds(text) \cap Prompts = {k} /\ NoPrompt(rest)
           \/ Kinds(text) \cap Prompts = {} /\ OnePrompt(rest, k)
<1>3. PICK text, rest : Split(text, rest) /\ Understands(c, text) /\ down' = [down EXCEPT ![c] = rest]
  <2>1. PICK n \in DOMAIN down[c] :
          \/ /\ Understands(c, SubSeq(down[c], 1, n))
             /\ down' = [down EXCEPT ![c] = SubSeq(down[c], n + 1, Len(down[c]))]
          \/ /\ Understands(c, <<down[c][n]>>)
             /\ down' = [down EXCEPT ![c] = RemoveAt(down[c], n)]
    BY DEF Reads
  <2>2. n \in 1..Len(down[c])
    BY <1>2 DEF IsList
  <2>3. Split(SubSeq(down[c], 1, n), SubSeq(down[c], n + 1, Len(down[c])))
    BY <1>2, <2>2, ReadFront
  <2>4. Split(<<down[c][n]>>, RemoveAt(down[c], n))
    BY <1>2, <2>2, ReadOne
  <2> HIDE DEF Split
  <2>5. QED BY <2>1, <2>3, <2>4
<1> DEFINE a == CASE "exit" \in Kinds(text) -> "left"
                  [] "exit" \notin Kinds(text) /\ "do" \in Kinds(text) -> "do"
                  [] Kinds(text) \cap {"exit", "do"} = {} /\ "your" \in Kinds(text) -> "your"
                  [] OTHER -> "read"
<1>4. at' = [at EXCEPT ![c] = a]
  BY <1>3 DEF Understands
<1>5. /\ a \in {"left", "do", "your", "read"}
      /\ "exit" \notin Kinds(text) => a # "left"
      /\ Kinds(text) \cap Prompts = {} => a \in {"left", "read"}
      /\ \A k \in Prompts : "exit" \notin Kinds(text) /\ Kinds(text) \cap Prompts = {k} => a = k
  BY DEF Prompts
<1> HIDE DEF a
<1>6. /\ down' = [x \in Clients |-> down'[x]] /\ up' = [x \in Clients |-> up'[x]]
      /\ at' \in [Clients -> ClientStates] /\ said' \in [Clients -> {"", "yes", "no"}]
      /\ at'[c] = a /\ down'[c] = rest /\ up'[c] = up[c] /\ said'[c] = said[c]
      /\ \A x \in Clients : x # c => at'[x] = at[x] /\ down'[x] = down[x]
  BY <1>1, <1>3, <1>4, <1>5 DEF IInv, TypeInv, ClientStates
<1>7. (Player(c)' <=> Player(c)) /\ (Over' <=> Over) /\ Kind' = Kind /\ (Faults' <=> Faults)
  BY <1>1 DEF Player, Over, Kind, Faults
<1>8. ~Over => NoExit(down[c])
  BY <1>2 DEF PersonOK
<1>9. PersonOK(c)'
  BY <1>1, <1>2, <1>3, <1>5, <1>6, <1>7, <1>8 DEF PersonOK
<1>10. Unasked(c) => Unasked(c)'
  BY <1>3, <1>5, <1>6 DEF Unasked, Prompts
<1>11. NoToken(c) => NoToken(c)'
  BY <1>6, <1>10 DEF NoToken
<1>12. ASSUME Busy, Token(c) PROVE Token(c)'
  <2>1. NoExit(down[c]) /\ "exit" \notin Kinds(text)
    BY <1>3, <1>8, <1>12 DEF Busy, Over
  <2>2. Kind \in Prompts BY DEF Kind, Prompts
  <2>3. CASE OnePrompt(down[c], Kind) /\ up[c] = <<>> /\ said[c] = ""
    <3>1. CASE Kinds(text) \cap Prompts = {Kind} /\ NoPrompt(rest)
      <4>1. a = Kind BY <1>5, <2>1, <2>2, <3>1
      <4>2. QED BY <1>6, <1>7, <2>3, <3>1, <4>1 DEF Token
    <3>2. CASE Kinds(text) \cap Prompts = {} /\ OnePrompt(rest, Kind)
      <4>1. a = "read" BY <1>5, <2>1, <3>2
      <4>2. QED BY <1>6, <1>7, <2>3, <3>2, <4>1 DEF Token
    <3>3. QED BY <1>3, <2>2, <2>3, <3>1, <3>2
  <2>4. CASE Unasked(c) /\ \E m : /\ up[c] = <<m>> /\ m.yes \in BOOLEAN
                                  /\ said[c] = IF server.at = "move" THEN "" ELSE Word(m.yes)
    BY <1>1, <1>6, <1>10, <2>4 DEF Token
  <2>5. Kind # "read"
    BY DEF Kind
  <2>6. QED BY <1>1, <1>12, <2>3, <2>4, <2>5 DEF Token
<1>13. gone \subseteq Clients /\ lost \in Nat
  BY DEF IInv, TypeInv
<1>14. IInv'
  <2>1. server.at = "accept" => Unasked(c)' /\ said'[c] = "" /\ (Player(c) => up'[c] = <<>>)
    BY <1>6, <1>10, PersonIs
  <2>2. Busy /\ Player(c) /\ c = W => Token(c)' \/ (NoToken(c)' /\ Faults')
    BY <1>7, <1>11, <1>12, PersonIs
  <2>3. Busy /\ Player(c) /\ c # W => NoToken(c)'
    BY <1>11, PersonIs
  <2>4. Over => Unasked(c)'
    BY <1>10, PersonIs
  <2>5. IsList(down'[c])
    BY <1>3, <1>6
  <2>6. QED BY <1>1, <1>6, <1>7, <1>9, <1>13, <2>1, <2>2, <2>3, <2>4, <2>5, ClientStep
<1>15. QED BY <1>1, <1>14 DEF XStep

(* A client that asks its user is the one the server waits for. *)
LEMMA AskedIsWaited ==
  ASSUME IInv, NEW c \in Clients, at[c] \in Prompts
  PROVE  /\ Busy /\ Player(c) /\ c = W /\ c \notin gone
         /\ NoPrompt(down[c]) /\ at[c] = Kind /\ up[c] = <<>> /\ said[c] = ""
<1>1. ~Unasked(c) /\ at[c] # "left" /\ at[c] # "read"
  BY DEF Unasked, Prompts
<1>2. Busy /\ Player(c) /\ c \notin gone
  BY <1>1, PersonIs DEF PersonOK
<1>3. ~NoToken(c)
  BY <1>1 DEF NoToken
<1>4. c = W /\ Token(c)
  BY <1>2, <1>3, PersonIs
<1>5. QED BY <1>1, <1>2, <1>4 DEF Token

LEMMA OneText ==
  ASSUME NEW m
  PROVE  Append(<<>>, m) = <<m>>
OBVIOUS

LEMMA AnswersKeeps ==
  ASSUME IInv, NEW c \in Clients, Answers(c)
  PROVE  IInv' /\ XStep
<1>1. at[c] = "do" /\ UNCHANGED <<server, result, work, down, mute, gone, games, lost>>
  BY DEF Answers
<1>2. PICK word \in {"yes", "no"} :
        /\ at' = [at EXCEPT ![c] = "read"]
        /\ up' = [up EXCEPT ![c] = Append(up[c], AnswerText(word))]
        /\ said' = [said EXCEPT ![c] = word]
  BY DEF Answers
<1>3. /\ Busy /\ Player(c) /\ c = W /\ c \notin gone
      /\ NoPrompt(down[c]) /\ Kind = "do" /\ up[c] = <<>> /\ said[c] = ""
  BY <1>1, AskedIsWaited DEF Prompts
<1>4. /\ down' = [x \in Clients |-> down'[x]] /\ up' = [x \in Clients |-> up'[x]]
      /\ at' \in [Clients -> ClientStates] /\ said' \in [Clients -> {"", "yes", "no"}]
      /\ at'[c] = "read" /\ up'[c] = <<AnswerText(word)>> /\ said'[c] = word
      /\ \A x \in Clients : x # c => at'[x] = at[x] /\ up'[x] = up[x] /\ said'[x] = said[x]
  <2>1. up' = [up EXCEPT ![c] = <<AnswerText(word)>>]
    BY <1>2, <1>3, OneText
  <2>2. QED BY <1>1, <1>2, <2>1 DEF IInv, TypeInv, ClientStates
<1>5. server.at \in {"ask1", "ask2"}
  BY <1>3 DEF Kind, Busy
<1>6. (Player(c)' <=> Player(c)) /\ (Over' <=> Over) /\ (Faults' <=> Faults) /\ (Busy' <=> Busy)
  BY <1>1 DEF Player, Over, Faults, Busy
<1>7. PersonOK(c) /\ ~Over /\ IsList(down[c]) /\ gone \subseteq Clients /\ lost \in Nat
  BY <1>5, PersonIs DEF Over, IInv, TypeInv
<1>8. PersonOK(c)'
  BY <1>1, <1>3, <1>4, <1>6, <1>7 DEF PersonOK
<1>9. Token(c)'
  <2>1. AnswerText(word).yes \in BOOLEAN /\ Word(AnswerText(word).yes) = word
    BY DEF AnswerText, Word
  <2>2. Unasked(c)' BY <1>1, <1>3, <1>4 DEF Unasked, Prompts
  <2>3. server'.at # "move" BY <1>1, <1>5
  <2>4. QED BY <1>4, <2>1, <2>2, <2>3 DEF Token
<1>10. IInv'
  <2>1. server.at # "accept" BY <1>5
  <2>2. QED BY <1>1, <1>3, <1>4, <1>5, <1>6, <1>7, <1>8, <1>9, <2>1, ClientStep
<1>11. XO!Say(c, word)
  <2>1. result # "playing" BY <1>5 DEF IInv, GameOK, Results
  <2>2. QED BY <1>1, <1>2, <1>3, <2>1 DEF XO!Say
<1>12. QED BY <1>2, <1>10, <1>11 DEF XStep, XO!Next

LEMMA MovesKeeps ==
  ASSUME IInv, NEW c \in Clients, Moves(c)
  PROVE  IInv' /\ XStep
<1>1. at[c] = "your" /\ UNCHANGED <<server, result, work, down, said, gone, games, lost>>
  BY DEF Moves
<1>2. /\ Busy /\ Player(c) /\ c = W /\ c \notin gone
      /\ NoPrompt(down[c]) /\ Kind = "your" /\ up[c] = <<>> /\ said[c] = ""
  BY <1>1, AskedIsWaited DEF Prompts
<1>3. server.at = "move"
  BY <1>2 DEF Kind, Busy
<1>4. PICK rc \in work.types[c] :
        /\ at' = [at EXCEPT ![c] = "read"]
        /\ \/ mute' = mute \cup {c} /\ up' = up
           \/ up' = [up EXCEPT ![c] = Append(up[c], MoveText(rc[1], rc[2]))] /\ mute' = mute
  BY DEF Moves
<1>5. (Player(c)' <=> Player(c)) /\ (Over' <=> Over) /\ (Busy' <=> Busy) /\ (Faults => Faults')
  BY <1>1, <1>4 DEF Player, Over, Faults, Busy
<1>6. /\ down' = [x \in Clients |-> down'[x]] /\ up' = [x \in Clients |-> up'[x]]
      /\ at' \in [Clients -> ClientStates] /\ said' \in [Clients -> {"", "yes", "no"}]
      /\ at'[c] = "read"
      /\ \A x \in Clients : x # c => at'[x] = at[x] /\ up'[x] = up[x]
  BY <1>1, <1>4 DEF IInv, TypeInv, ClientStates
<1>7. PersonOK(c) /\ ~Over /\ IsList(down[c]) /\ gone \subseteq Clients /\ lost \in Nat
  BY <1>3, PersonIs DEF Over, IInv, TypeInv
<1>8. PersonOK(c)'
  BY <1>1, <1>2, <1>5, <1>6, <1>7 DEF PersonOK
<1>9. Token(c)' \/ (NoToken(c)' /\ Faults')
  <2>1. Unasked(c)' BY <1>1, <1>2, <1>6 DEF Unasked, Prompts
  <2>2. CASE mute' = mute \cup {c} /\ up' = up
    <3>1. Faults' BY <2>2 DEF Faults
    <3>2. up'[c] = <<>> BY <1>2, <2>2
    <3>3. QED BY <2>1, <3>1, <3>2 DEF NoToken
  <2>3. CASE up' = [up EXCEPT ![c] = Append(up[c], MoveText(rc[1], rc[2]))]
    <3>1. up'[c] = <<MoveText(rc[1], rc[2])>>
      BY <1>2, <2>3, OneText DEF IInv, TypeInv
    <3>2. MoveText(rc[1], rc[2]).yes \in BOOLEAN BY DEF MoveText
    <3>3. said'[c] = "" /\ server'.at = "move" BY <1>1, <1>2, <1>3
    <3>4. QED BY <2>1, <3>1, <3>2, <3>3 DEF Token
  <2>4. QED BY <1>4, <2>2, <2>3
<1>10. IInv'
  <2>1. server.at # "accept" BY <1>3
  <2>2. QED BY <1>1, <1>2, <1>5, <1>6, <1>7, <1>8, <1>9, <2>1, ClientStep
<1>11. QED BY <1>1, <1>10 DEF XStep

LEMMA QuitsKeeps ==
  ASSUME IInv, NEW c \in Clients, Quits(c)
  PROVE  IInv' /\ XStep
<1>1. /\ UNCHANGED <<server, result, work, up, said, mute, games, lost>>
      /\ at[c] \notin {"new", "left"} /\ gone' = gone \cup {c}
      /\ at' = [at EXCEPT ![c] = "left"] /\ down' = [down EXCEPT ![c] = <<>>]
  BY DEF Quits
<1>2. /\ down' = [x \in Clients |-> down'[x]] /\ up' = [x \in Clients |-> up'[x]]
      /\ at' \in [Clients -> ClientStates] /\ said' \in [Clients -> {"", "yes", "no"}]
      /\ at'[c] = "left" /\ down'[c] = <<>> /\ c \in gone'
      /\ \A x \in Clients : x # c => at'[x] = at[x] /\ down'[x] = down[x]
  BY <1>1 DEF IInv, TypeInv, ClientStates
<1>3. (Player(c)' <=> Player(c)) /\ (Over' <=> Over) /\ (Busy' <=> Busy) /\ Faults'
  BY <1>1 DEF Player, Over, Faults, Busy
<1>4. NoPrompt(<<>>) /\ NoExit(<<>>) /\ IsList(<<>>)
  <2>1. <<>> \in Seq({}) /\ Len(<<>>) = 0 OBVIOUS
  <2>2. QED BY <2>1 DEF NoPrompt, NoExit, IsList
<1>5. PersonOK(c) /\ IsList(down'[c]) /\ gone' \subseteq Clients /\ lost \in Nat
  BY <1>1, <1>2, <1>4, PersonIs DEF IInv, TypeInv
<1>6. Unasked(c)'
  BY <1>2, <1>4 DEF Unasked, Prompts
<1>7. PersonOK(c)'
  BY <1>1, <1>2, <1>3, <1>4, <1>5, <1>6 DEF PersonOK
<1>8. ASSUME Token(c) PROVE Token(c)' \/ NoToken(c)'
  BY <1>1, <1>6, <1>8 DEF Token, NoToken
<1>9. NoToken(c) => NoToken(c)'
  BY <1>1, <1>6 DEF NoToken
<1>10. IInv'
  <2>1. server.at = "accept" => Unasked(c)' /\ said'[c] = "" /\ (Player(c) => up'[c] = <<>>)
    BY <1>1, <1>6, PersonIs
  <2>2. Busy /\ Player(c) /\ c = W => Token(c)' \/ (NoToken(c)' /\ Faults')
    BY <1>3, <1>8, <1>9, PersonIs
  <2>3. Busy /\ Player(c) /\ c # W => NoToken(c)'
    BY <1>9, PersonIs
  <2>4. QED BY <1>1, <1>2, <1>3, <1>5, <1>6, <1>7, <2>1, <2>2, <2>3, ClientStep
<1>11. XO!HangUp(c)
  BY <1>1 DEF XO!HangUp
<1>12. QED BY <1>10, <1>11 DEF XStep, XO!Next

LEMMA LosesKeeps ==
  ASSUME IInv, NEW c \in Clients, Loses(c)
  PROVE  IInv' /\ XStep
<1>1. UNCHANGED <<server, result, work, at, said, mute, gone, games>> /\ lost' = lost + 1 /\ lost \in Nat
  BY DEF Loses, IInv, TypeInv
<1>2. PersonOK(c) /\ IsList(down[c]) /\ gone \subseteq Clients
  BY PersonIs DEF IInv, TypeInv
<1>3. \/ (\E n \in 1..Len(down[c]) : down' = [down EXCEPT ![c] = RemoveAt(down[c], n)]) /\ up' = up
      \/ up[c] # <<>> /\ up' = [up EXCEPT ![c] = Tail(up[c])] /\ down' = down
  BY <1>2 DEF Loses, IsList
<1>4. (Player(c)' <=> Player(c)) /\ (Over' <=> Over) /\ (Busy' <=> Busy) /\ Faults' /\ Kind' = Kind
  BY <1>1 DEF Player, Over, Faults, Busy, Kind
<1>5. /\ down' = [x \in Clients |-> down'[x]] /\ up' = [x \in Clients |-> up'[x]]
      /\ \A x \in Clients : x # c => up'[x] = up[x] /\ down'[x] = down[x]
  BY <1>3 DEF IInv, TypeInv
<1>6. /\ IsList(down'[c])
      /\ NoExit(down[c]) => NoExit(down'[c])
      /\ NoPrompt(down[c]) => NoPrompt(down'[c])
      /\ \A k \in Prompts : OnePrompt(down[c], k) => NoPrompt(down'[c]) \/ OnePrompt(down'[c], k)
      /\ down[c] = <<>> => down'[c] = <<>>
  <2>1. CASE down' = down
    BY <1>2, <2>1
  <2>2. ASSUME NEW n \in 1..Len(down[c]), down' = [down EXCEPT ![c] = RemoveAt(down[c], n)]
        PROVE  /\ IsList(down'[c])
               /\ NoExit(down[c]) => NoExit(down'[c])
               /\ NoPrompt(down[c]) => NoPrompt(down'[c])
               /\ \A k \in Prompts : OnePrompt(down[c], k) => NoPrompt(down'[c]) \/ OnePrompt(down'[c], k)
               /\ down[c] = <<>> => down'[c] = <<>>
    <3>1. down'[c] = RemoveAt(down[c], n) BY <2>2 DEF IInv, TypeInv
    <3>2. down[c] # <<>> OBVIOUS
    <3>3. LET rest == RemoveAt(down[c], n)
          IN  /\ IsList(rest)
              /\ NoExit(down[c]) => NoExit(rest)
              /\ NoPrompt(down[c]) => NoPrompt(rest)
              /\ \A k \in Prompts : OnePrompt(down[c], k) => NoPrompt(rest) \/ OnePrompt(rest, k)
      BY <1>2, ReadOne
    <3>4. QED BY <3>1, <3>2, <3>3
  <2>3. QED BY <1>3, <2>1, <2>2
<1>7. up'[c] = up[c] \/ (up[c] # <<>> /\ up'[c] = Tail(up[c]))
  BY <1>3 DEF IInv, TypeInv
<1>8. \A m : up[c] = <<m>> => up'[c] = <<m>> \/ up'[c] = <<>>
  BY <1>7
<1>9. up[c] = <<>> => up'[c] = <<>>
  BY <1>7
<1>10. PersonOK(c)'
  BY <1>1, <1>2, <1>4, <1>6, <1>8, <1>9 DEF PersonOK, Unasked
<1>11. Unasked(c) => Unasked(c)'
  BY <1>1, <1>6 DEF Unasked
<1>12. NoToken(c) => NoToken(c)'
  BY <1>9, <1>11 DEF NoToken
<1>13. ASSUME Token(c) PROVE Token(c)' \/ NoToken(c)'
  <2>1. Kind \in Prompts /\ Kind # "read" BY DEF Kind, Prompts
  <2>2. CASE OnePrompt(down[c], Kind) /\ at[c] = "read" /\ up[c] = <<>> /\ said[c] = ""
    <3>1. OnePrompt(down'[c], Kind) \/ NoPrompt(down'[c]) BY <1>6, <2>1, <2>2
    <3>2. "read" \notin Prompts BY DEF Prompts
    <3>3. QED BY <1>1, <1>4, <1>9, <2>2, <3>1, <3>2 DEF Token, NoToken, Unasked
  <2>3. CASE NoPrompt(down[c]) /\ at[c] = Kind /\ up[c] = <<>> /\ said[c] = ""
    BY <1>1, <1>4, <1>6, <1>9, <2>3 DEF Token
  <2>4. CASE Unasked(c) /\ \E m : /\ up[c] = <<m>> /\ m.yes \in BOOLEAN
                                  /\ said[c] = IF server.at = "move" THEN "" ELSE Word(m.yes)
    <3>1. PICK m : /\ up[c] = <<m>> /\ m.yes \in BOOLEAN
                   /\ said[c] = IF server.at = "move" THEN "" ELSE Word(m.yes)
      BY <2>4
    <3>2. CASE up'[c] = <<m>> BY <1>1, <1>11, <2>4, <3>1, <3>2 DEF Token
    <3>3. CASE up'[c] = <<>> BY <1>11, <2>4, <3>3 DEF NoToken
    <3>4. QED BY <1>8, <3>1, <3>2, <3>3
  <2>5. QED BY <1>13, <2>2, <2>3, <2>4 DEF Token
<1>14. at \in [Clients -> ClientStates] /\ said \in [Clients -> {"", "yes", "no"}]
  BY DEF IInv, TypeInv
<1>15. IInv'
  <2>1. server.at = "accept" => Unasked(c)' /\ said'[c] = "" /\ (Player(c) => up'[c] = <<>>)
    BY <1>1, <1>9, <1>11, PersonIs
  <2>2. Busy /\ Player(c) /\ c = W => Token(c)' \/ (NoToken(c)' /\ Faults')
    BY <1>4, <1>12, <1>13, PersonIs
  <2>3. Busy /\ Player(c) /\ c # W => NoToken(c)'
    BY <1>12, PersonIs
  <2>4. Over => Unasked(c)'
    BY <1>11, PersonIs
  <2>5. lost' \in Nat /\ (Faults => Faults') /\ IsList(down'[c])
    BY <1>1, <1>4, <1>6
  <2>6. QED BY <1>1, <1>2, <1>5, <1>10, <1>14, <2>1, <2>2, <2>3, <2>4, <2>5, ClientStep
<1>16. QED BY <1>1, <1>15 DEF XStep

-----------------------------------------------------------------------------
(* What the server sends.                                                   *)

(* Messages that ask nobody, and such messages with a question at the end, *)
(* to the player the server waits for.                                     *)
Silent(ms) == IsList(ms) /\ \A i \in 1..Len(ms) : ms[i].to \in {1, 2} /\ ms[i].m[1] \notin Prompts
NoneLeaves(ms) == \A i \in 1..Len(ms) : ms[i].m[1] # "exit"
KindOf(t) == IF t.at = "move" THEN "your" ELSE "do"
Asking(t, ms) ==
  \E q : Silent(q) /\ NoneLeaves(q) /\ ms = Append(q, To(Waits(t), <<KindOf(t)>>))
Seat(t, x) == x \in {t.addr[i] : i \in 1..Len(t.addr)}

LEMMA AppendIs ==
  ASSUME NEW q, IsList(q), NEW x
  PROVE  /\ IsList(Append(q, x)) /\ Len(Append(q, x)) = Len(q) + 1 /\ Len(q) \in Nat
         /\ \A i \in 1..Len(q) : Append(q, x)[i] = q[i]
         /\ Append(q, x)[Len(q) + 1] = x
         /\ q \o <<x>> = Append(q, x)
<1>1. PICK S : q \in Seq(S) BY DEF IsList
<1>2. q \in Seq(S \cup {x}) /\ x \in S \cup {x}
  BY <1>1
<1>3. Append(q, x) \in Seq(S \cup {x}) /\ Len(Append(q, x)) = Len(q) + 1 /\ Len(q) \in Nat
  BY <1>2
<1>4. \A i \in 1..Len(q) : Append(q, x)[i] = q[i]
  BY <1>2
<1>5. Append(q, x)[Len(q) + 1] = x
  BY <1>2
<1>6. q \o <<x>> = Append(q, x)
  BY <1>2
<1>7. QED BY <1>3, <1>4, <1>5, <1>6 DEF IsList

LEMMA JoinedOne ==
  ASSUME NEW q, NEW r, NEW k, IsList(q), IsList(r), NoPrompt(q), OnePrompt(r, k)
  PROVE  OnePrompt(q \o r, k)
<1>1. PICK j \in 1..Len(r) : r[j][1] = k /\ \A i \in 1..Len(r) : i # j => r[i][1] \notin Prompts
  BY DEF OnePrompt
<1>2. /\ Len(q \o r) = Len(q) + Len(r) /\ Len(q) \in Nat /\ Len(r) \in Nat
      /\ \A i \in 1..Len(q) : (q \o r)[i] = q[i]
      /\ \A i \in 1..Len(r) : (q \o r)[Len(q) + i] = r[i]
  BY Joined
<1> DEFINE p == q \o r
<1>3. Len(q) + j \in 1..Len(p) /\ p[Len(q) + j][1] = k
  BY <1>1, <1>2
<1>4. ASSUME NEW i \in 1..Len(p), i # Len(q) + j PROVE p[i][1] \notin Prompts
  <2>1. CASE i <= Len(q)
    <3>1. i \in 1..Len(q) BY <1>2, <2>1
    <3>2. p[i] = q[i] BY <1>2, <3>1
    <3>3. QED BY <3>1, <3>2 DEF NoPrompt
  <2>2. CASE i > Len(q)
    <3>1. i - Len(q) \in 1..Len(r) /\ i - Len(q) # j /\ Len(q) + (i - Len(q)) = i
      BY <1>2, <1>4, <2>2
    <3>2. p[i] = r[i - Len(q)] BY <1>2, <3>1
    <3>3. QED BY <1>1, <3>1, <3>2
  <2>3. QED BY <1>2, <2>1, <2>2
<1> HIDE DEF p
<1>5. OnePrompt(p, k)
  BY <1>3, <1>4 DEF OnePrompt
<1>6. QED BY <1>5 DEF p

LEMMA PartsAre ==
  ASSUME NEW s, NEW ms, IsList(ms), NEW c
  PROVE  LET p == Parts(s, ms, c)
         IN  /\ IsList(p)
             /\ (\A i \in 1..Len(ms) : ms[i].m[1] \notin Prompts) => NoPrompt(p)
             /\ NoneLeaves(ms) => NoExit(p)
             /\ (\A i \in 1..Len(ms) : s.addr[ms[i].to] # c) => p = <<>>
<1> DEFINE M == SentTo(s, ms, c)
<1> DEFINE p == Parts(s, ms, c)
<1>1. p \in Seq(M) BY PartsOf
<1>2. \A i \in 1..Len(p) : p[i] \in M
  <2> HIDE DEF p, M
  <2> QED BY <1>1
<1> HIDE DEF p
<1>3. IsList(p) BY <1>1 DEF IsList
<1>4. ASSUME \A i \in 1..Len(ms) : ms[i].m[1] \notin Prompts PROVE NoPrompt(p)
  BY <1>2, <1>4 DEF NoPrompt, SentTo
<1>5. ASSUME NoneLeaves(ms) PROVE NoExit(p)
  BY <1>2, <1>5 DEF NoneLeaves, NoExit, SentTo
<1>6. ASSUME \A i \in 1..Len(ms) : s.addr[ms[i].to] # c PROVE p = <<>>
  <2>1. M = {} BY <1>6 DEF SentTo
  <2> HIDE DEF M
  <2>2. QED BY <1>1, <2>1, EmptySeq
<1>7. QED BY <1>3, <1>4, <1>5, <1>6 DEF p

LEMMA SentIs ==
  ASSUME IInv, NEW s, NEW ms, IsList(ms), NEW x \in Clients
  PROVE  LET d == Sent(s, ms)[x]
         IN  /\ IsList(d) /\ (x \in gone => d = <<>>)
             /\ (\A i \in 1..Len(ms) : ms[i].m[1] \notin Prompts) /\ NoPrompt(down[x]) => NoPrompt(d)
             /\ NoneLeaves(ms) /\ NoExit(down[x]) => NoExit(d)
             /\ (\A i \in 1..Len(ms) : s.addr[ms[i].to] # x) /\ down[x] = <<>> => d = <<>>
<1> DEFINE d == Sent(s, ms)[x]
<1> DEFINE p == Parts(s, ms, x)
<1>1. d = IF x \in gone THEN <<>> ELSE down[x] \o p
  BY DEF Sent
<1>2. IsList(down[x]) /\ IsList(p)
  BY PersonIs, PartsAre
<1>3. NoPrompt(<<>>) /\ NoExit(<<>>) /\ IsList(<<>>)
  <2>1. <<>> \in Seq({}) /\ Len(<<>>) = 0 OBVIOUS
  <2>2. QED BY <2>1 DEF NoPrompt, NoExit, IsList
<1>4. IsList(down[x] \o p)
  BY <1>2, Joined
<1>5. <<>> \o <<>> = <<>>
  OBVIOUS
<1>6. (\A i \in 1..Len(ms) : ms[i].m[1] \notin Prompts) /\ NoPrompt(down[x]) => NoPrompt(down[x] \o p)
  BY <1>2, PartsAre, JoinedQuiet
<1>7. NoneLeaves(ms) /\ NoExit(down[x]) => NoExit(down[x] \o p)
  BY <1>2, PartsAre, JoinedQuiet
<1>8. (\A i \in 1..Len(ms) : s.addr[ms[i].to] # x) /\ down[x] = <<>> => down[x] \o p = <<>>
  BY <1>5, PartsAre
<1> HIDE DEF d, p
<1>9. QED BY <1>1, <1>3, <1>4, <1>6, <1>7, <1>8 DEF d

(* The question reaches the one it is for, and nobody else is asked. *)
LEMMA SentAsks ==
  ASSUME IInv, NEW s, NEW ms, Asking(s, ms), NEW x \in Clients, NoPrompt(down[x])
  PROVE  LET d == Sent(s, ms)[x]
         IN  /\ s.addr[Waits(s)] = x /\ x \notin gone => OnePrompt(d, KindOf(s))
             /\ s.addr[Waits(s)] # x => NoPrompt(d)
             /\ IsList(ms) /\ NoneLeaves(ms)
             /\ \A i \in 1..Len(ms) : ms[i].to \in {1, 2, Waits(s)}
<1>1. PICK q : Silent(q) /\ NoneLeaves(q) /\ ms = Append(q, To(Waits(s), <<KindOf(s)>>))
  BY DEF Asking
<1> DEFINE y == To(Waits(s), <<KindOf(s)>>)
<1> DEFINE p == Parts(s, q, x)
<1> DEFINE d == Sent(s, ms)[x]
<1>2. y.to = Waits(s) /\ y.m = <<KindOf(s)>> /\ y.m[1] = KindOf(s)
  BY DEF To
<1>3. KindOf(s) \in Prompts /\ KindOf(s) # "exit" /\ KindOf(s) \in {"do", "your", "exit"}
  BY DEF KindOf, Prompts
<1> HIDE DEF y
<1>4. IsList(q) /\ ms = Append(q, y)
  BY <1>1 DEF Silent, y
<1>5. /\ IsList(ms) /\ Len(ms) = Len(q) + 1 /\ Len(q) \in Nat
      /\ \A i \in 1..Len(q) : ms[i] = q[i]
      /\ ms[Len(q) + 1] = y
  BY <1>4, AppendIs
<1>6. ASSUME NEW i \in 1..Len(ms) PROVE ms[i] = y \/ (i \in 1..Len(q) /\ ms[i] = q[i])
  <2>1. i \in 1..Len(q) \/ i = Len(q) + 1 BY <1>5
  <2>2. QED BY <1>5, <2>1
<1>7. NoneLeaves(ms) /\ \A i \in 1..Len(ms) : ms[i].to \in {1, 2, Waits(s)}
  BY <1>1, <1>2, <1>3, <1>6 DEF NoneLeaves, Silent
<1>8. Parts(s, ms, x) = p \o Piece(s, y, x)
  BY <1>4, PartsMore
<1>9. IsList(p) /\ NoPrompt(p) /\ IsList(down[x])
  BY <1>1, <1>4, PartsAre, PersonIs DEF Silent
<1>10. d = IF x \in gone THEN <<>> ELSE down[x] \o Parts(s, ms, x)
  BY DEF Sent
<1>11. ASSUME s.addr[Waits(s)] = x, x \notin gone PROVE OnePrompt(d, KindOf(s))
  <2>1. Piece(s, y, x) = <<y.m>>
    BY <1>2, <1>3, <1>11 DEF Piece
  <2>2. OnePrompt(p \o <<y.m>>, KindOf(s)) /\ IsList(p \o <<y.m>>)
    BY <1>2, <1>3, <1>9, JoinedPrompt
  <2>3. d = down[x] \o (p \o <<y.m>>)
    BY <1>8, <1>10, <1>11, <2>1
  <2>4. QED BY <1>9, <2>2, <2>3, JoinedOne
<1>12. ASSUME s.addr[Waits(s)] # x PROVE NoPrompt(d)
  <2>1. Piece(s, y, x) = <<>>
    BY <1>2, <1>12 DEF Piece
  <2>2. IsList(<<>>) /\ NoPrompt(<<>>)
    <3>1. <<>> \in Seq({}) /\ Len(<<>>) = 0 OBVIOUS
    <3>2. QED BY <3>1 DEF NoPrompt, IsList
  <2>3. NoPrompt(p \o <<>>) /\ IsList(p \o <<>>)
    BY <1>9, <2>2, JoinedQuiet, Joined
  <2>4. NoPrompt(down[x] \o (p \o <<>>))
    BY <1>9, <2>3, JoinedQuiet
  <2>5. QED BY <1>8, <1>10, <2>1, <2>2, <2>4
<1>13. QED BY <1>5, <1>7, <1>11, <1>12

LEMMA NothingSent ==
  /\ Silent(<<>>) /\ NoneLeaves(<<>>) /\ IsList(<<>>) /\ Len(<<>>) = 0 /\ DOMAIN <<>> = {}
<1>1. <<>> \in Seq({}) /\ Len(<<>>) = 0 /\ DOMAIN <<>> = {} OBVIOUS
<1>2. QED BY <1>1 DEF Silent, NoneLeaves, IsList

LEMMA OneSent ==
  ASSUME NEW i \in {1, 2}, NEW m, m[1] \notin Prompts
  PROVE  Silent(<<To(i, m)>>) /\ (m[1] # "exit" => NoneLeaves(<<To(i, m)>>))
<1>1. <<To(i, m)>> \in Seq({To(i, m)}) /\ Len(<<To(i, m)>>) = 1 /\ <<To(i, m)>>[1] = To(i, m)
  OBVIOUS
<1>2. To(i, m).to = i /\ To(i, m).m = m
  BY DEF To
<1>3. IsList(<<To(i, m)>>)
  BY <1>1 DEF IsList
<1>4. ASSUME NEW j \in 1..Len(<<To(i, m)>>) PROVE <<To(i, m)>>[j] = To(i, m)
  BY <1>1
<1>5. QED BY <1>2, <1>3, <1>4 DEF Silent, NoneLeaves

LEMMA BothSent ==
  ASSUME NEW m, m[1] \notin Prompts
  PROVE  Silent(Both(m)) /\ (m[1] # "exit" => NoneLeaves(Both(m)))
<1> DEFINE S == {To(1, m), To(2, m)}
<1>1. /\ Both(m) \in Seq(S) /\ Len(Both(m)) = 2
      /\ Both(m)[1] = To(1, m) /\ Both(m)[2] = To(2, m)
  BY DEF Both
<1>2. To(1, m).to = 1 /\ To(2, m).to = 2 /\ To(1, m).m = m /\ To(2, m).m = m
  BY DEF To
<1>3. ASSUME NEW i \in 1..Len(Both(m)) PROVE Both(m)[i].to \in {1, 2} /\ Both(m)[i].m = m
  BY <1>1, <1>2
<1>4. IsList(Both(m))
  BY <1>1 DEF IsList
<1>5. QED BY <1>3, <1>4 DEF Silent, NoneLeaves

LEMMA MoreSent ==
  ASSUME NEW q, NEW r, Silent(q), Silent(r)
  PROVE  Silent(q \o r) /\ (NoneLeaves(q) /\ NoneLeaves(r) => NoneLeaves(q \o r))
<1>1. IsList(q) /\ IsList(r) BY DEF Silent
<1> DEFINE p == q \o r
<1>2. /\ IsList(p) /\ Len(p) = Len(q) + Len(r) /\ Len(q) \in Nat /\ Len(r) \in Nat
      /\ \A i \in 1..Len(q) : p[i] = q[i]
      /\ \A i \in 1..Len(r) : p[Len(q) + i] = r[i]
  BY <1>1, Joined
<1> HIDE DEF p
<1>3. ASSUME NEW i \in 1..Len(p)
      PROVE  (\E j \in 1..Len(q) : p[i] = q[j]) \/ (\E j \in 1..Len(r) : p[i] = r[j])
  <2>1. CASE i <= Len(q)
    <3>1. i \in 1..Len(q) BY <1>2, <2>1
    <3>2. QED BY <1>2, <3>1
  <2>2. CASE i > Len(q)
    <3>1. i - Len(q) \in 1..Len(r) /\ Len(q) + (i - Len(q)) = i
      BY <1>2, <2>2
    <3>2. QED BY <1>2, <3>1
  <2>3. QED BY <1>2, <2>1, <2>2
<1>4. Silent(p) BY <1>2, <1>3 DEF Silent
<1>5. NoneLeaves(q) /\ NoneLeaves(r) => NoneLeaves(p) BY <1>3 DEF NoneLeaves
<1>6. QED BY <1>4, <1>5 DEF p

(* The messages before the one that ends the server. *)
LEMMA FirstSent ==
  ASSUME NEW s, NEW ms, Asking(s, ms) \/ Silent(ms), NEW k \in DOMAIN ms
  PROVE  Silent(SubSeq(ms, 1, k - 1))
<1>1. PICK q : Silent(q) /\ (ms = q \/ \E x : ms = Append(q, x))
  BY DEF Asking
<1>2. IsList(q) /\ Len(q) \in Nat BY <1>1 DEF Silent, IsList
<1>3. IsList(ms) /\ Len(ms) \in Nat /\ Len(ms) <= Len(q) + 1 /\ \A i \in 1..Len(q) : ms[i] = q[i]
  <2>1. CASE ms = q BY <1>2, <2>1
  <2>2. CASE \E x : ms = Append(q, x) BY <1>2, <2>2, AppendIs
  <2>3. QED BY <1>1, <2>1, <2>2
<1>4. PICK S : ms \in Seq(S) BY <1>3 DEF IsList
<1>5. k \in 1..Len(ms) BY <1>4
<1> DEFINE f == SubSeq(ms, 1, k - 1)
<1>6. f \in Seq(S) /\ Len(f) = k - 1 /\ \A i \in 1..(k - 1) : f[i] = ms[i]
  <2>1. k - 1 \in 0..Len(ms) /\ 1 \in 1..(Len(ms) + 1) BY <1>3, <1>5
  <2>2. \A i \in 1..(k - 1) : ms[i] \in S BY <1>4, <1>5
  <2>3. f = [i \in 1..(k - 1) |-> ms[i]]
    BY <1>3, <1>5, <1>4
  <2>4. QED BY <1>4, <1>5, <2>1, <2>2, <2>3
<1>7. \A i \in 1..(k - 1) : i \in 1..Len(q) /\ f[i] = q[i]
  BY <1>2, <1>3, <1>5, <1>6
<1> HIDE DEF f
<1>8. Silent(f)
  BY <1>1, <1>6, <1>7 DEF Silent, IsList
<1>9. QED BY <1>8 DEF f

LEMMA AsksAfter ==
  ASSUME NEW t, NEW q, Silent(q), NoneLeaves(q), NEW i, NEW m, i = Waits(t), m = <<KindOf(t)>>
  PROVE  Asking(t, q \o <<To(i, m)>>) /\ Asking(t, Append(q, To(i, m)))
<1>1. q \o <<To(i, m)>> = Append(q, To(i, m))
  BY AppendIs DEF Silent
<1>2. QED BY <1>1 DEF Asking

LEMMA MsgKinds ==
  ASSUME NEW b, NEW r
  PROVE  /\ <<"board", b>>[1] = "board" /\ <<"over", r>>[1] = "over"
         /\ <<"exit">>[1] = "exit" /\ <<"opponent">>[1] = "opponent" /\ <<"invalid">>[1] = "invalid"
         /\ "board" \notin Prompts /\ "over" \notin Prompts /\ "exit" \notin Prompts
         /\ "opponent" \notin Prompts /\ "invalid" \notin Prompts
BY DEF Prompts

(* What the server does with a text, with the six ways it goes on. *)
LEMMA HandledIs ==
  ASSUME NEW s, NEW m, ServerRec(s), s.at \in {"ask1", "ask2", "move"}, m.yes \in BOOLEAN
  PROVE  LET does == Handled(s, m)
             p == Placed(s, m.cell)
         IN  /\ s.at = "ask1" =>
                  /\ does.server = [s EXCEPT !.at = "ask2", !.p1 = m.yes]
                  /\ Asking(does.server, does.sends)
             /\ s.at = "ask2" /\ s.p1 /\ m.yes =>
                  /\ does.server = [s EXCEPT !.at = "move", !.turn = 1, !.moves = 0, !.board = initialize_board]
                  /\ Asking(does.server, does.sends)
             /\ s.at = "ask2" /\ ~(s.p1 /\ m.yes) =>
                  does.server = [s EXCEPT !.at = "left"] /\ Silent(does.sends)
             /\ s.at = "move" /\ ~Valid(s, m.cell) =>
                  does.server = s /\ Asking(s, does.sends)
             /\ s.at = "move" /\ Valid(s, m.cell) /\ Outcome(p) = "playing" =>
                  /\ does.server = [p EXCEPT !.turn = 3 - p.turn]
                  /\ Asking(does.server, does.sends)
             /\ s.at = "move" /\ Valid(s, m.cell) /\ Outcome(p) # "playing" =>
                  /\ does.server = [p EXCEPT !.at = "ask1"]
                  /\ Asking(does.server, does.sends)
<1> DEFINE does == Handled(s, m)
<1> DEFINE p == Placed(s, m.cell)
<1>1. s = [at |-> s.at, addr |-> s.addr, p1 |-> s.p1, turn |-> s.turn, moves |-> s.moves, board |-> s.board]
      /\ s.turn \in {1, 2}
  BY DEF ServerRec
<1>2. ASSUME s.at = "ask1"
      PROVE  does.server = [s EXCEPT !.at = "ask2", !.p1 = m.yes] /\ Asking(does.server, does.sends)
  <2> DEFINE t == [s EXCEPT !.at = "ask2", !.p1 = m.yes]
  <2>1. does = Does(t, <<To(2, <<"do">>)>>)
    BY <1>2 DEF Handled, Answered
  <2>2. does.server = t /\ does.sends = <<To(2, <<"do">>)>>
    BY <2>1 DEF Does
  <2>3. t.at = "ask2" BY <1>1
  <2> HIDE DEF t
  <2>4. Waits(t) = 2 /\ KindOf(t) = "do" BY <2>3 DEF Waits, KindOf
  <2>5. <<To(2, <<"do">>)>> = Append(<<>>, To(2, <<"do">>)) BY OneText
  <2>6. Asking(t, <<To(2, <<"do">>)>>) BY <2>4, <2>5, AsksAfter, NothingSent
  <2>7. QED BY <2>2, <2>6 DEF t
<1>3. ASSUME s.at = "ask2", s.p1, m.yes
      PROVE  /\ does.server = [s EXCEPT !.at = "move", !.turn = 1, !.moves = 0, !.board = initialize_board]
             /\ Asking(does.server, does.sends)
  <2> DEFINE t == [s EXCEPT !.at = "move", !.turn = 1, !.moves = 0, !.board = initialize_board]
  <2> DEFINE q == send_board(initialize_board)
  <2>1. does = Does(t, q \o <<To(1, <<"your">>)>>)
    BY <1>3 DEF Handled, Answered, Begins
  <2>2. does.server = t /\ does.sends = q \o <<To(1, <<"your">>)>>
    BY <2>1 DEF Does
  <2>3. t.at = "move" /\ t.turn = 1 BY <1>1
  <2>4. Silent(q) /\ NoneLeaves(q) BY BothSent, MsgKinds DEF send_board
  <2> HIDE DEF t, q
  <2>5. Waits(t) = 1 /\ KindOf(t) = "your" BY <2>3 DEF Waits, KindOf
  <2>6. Asking(t, q \o <<To(1, <<"your">>)>>) BY <2>4, <2>5, AsksAfter
  <2>7. QED BY <2>2, <2>6 DEF t
<1>4. ASSUME s.at = "ask2", ~(s.p1 /\ m.yes)
      PROVE  does.server = [s EXCEPT !.at = "left"] /\ Silent(does.sends)
  <2>1. does = Does([s EXCEPT !.at = "left"], Opponent(s.p1, m.yes) \o Both(<<"exit">>))
    BY <1>4 DEF Handled, Answered
  <2>2. does.server = [s EXCEPT !.at = "left"] /\ does.sends = Opponent(s.p1, m.yes) \o Both(<<"exit">>)
    BY <2>1 DEF Does
  <2>3. \/ Opponent(s.p1, m.yes) = <<To(1, <<"opponent">>)>>
        \/ Opponent(s.p1, m.yes) = <<To(2, <<"opponent">>)>>
        \/ Opponent(s.p1, m.yes) = <<>>
    BY DEF Opponent
  <2>4. Silent(Opponent(s.p1, m.yes))
    <3>1. Silent(<<To(1, <<"opponent">>)>>) /\ Silent(<<To(2, <<"opponent">>)>>)
      BY OneSent, MsgKinds
    <3>2. QED BY <2>3, <3>1, NothingSent
  <2>5. Silent(Both(<<"exit">>))
    BY BothSent, MsgKinds
  <2>6. QED BY <2>2, <2>4, <2>5, MoreSent
<1>5. ASSUME s.at = "move", ~Valid(s, m.cell)
      PROVE  does.server = s /\ Asking(s, does.sends)
  <2> DEFINE q == <<To(s.turn, <<"invalid">>)>>
  <2>1. does = Does(s, <<To(s.turn, <<"invalid">>), To(s.turn, <<"your">>)>>)
    BY <1>5 DEF Handled, Rejected
  <2>2. does.server = s /\ does.sends = Append(q, To(s.turn, <<"your">>))
    BY <2>1 DEF Does
  <2>3. Silent(q) /\ NoneLeaves(q) BY <1>1, OneSent, MsgKinds
  <2> HIDE DEF q
  <2>4. Waits(s) = s.turn /\ KindOf(s) = "your" BY <1>5 DEF Waits, KindOf
  <2>5. QED BY <2>2, <2>3, <2>4, AsksAfter
<1>6. p = [s EXCEPT !.board[m.cell] = Symbol[s.turn], !.moves = s.moves + 1]
      /\ p.at = s.at /\ p.turn = s.turn
  <2>1. p = [s EXCEPT !.board[m.cell] = Symbol[s.turn], !.moves = s.moves + 1] BY DEF Placed
  <2>2. QED BY <1>1, <2>1
<1>7. ASSUME s.at = "move", Valid(s, m.cell) PROVE does = After(p, Outcome(p))
  BY <1>7 DEF Handled
<1>8. p = [at |-> p.at, addr |-> p.addr, p1 |-> p.p1, turn |-> p.turn, moves |-> p.moves, board |-> p.board]
  BY <1>1, <1>6
<1>9. ASSUME s.at = "move", Valid(s, m.cell), Outcome(p) = "playing"
      PROVE  does.server = [p EXCEPT !.turn = 3 - p.turn] /\ Asking(does.server, does.sends)
  <2> HIDE DEF p, does
  <2> DEFINE t == [p EXCEPT !.turn = 3 - p.turn]
  <2> DEFINE q == send_board(p.board)
  <2>1. does = Does(t, q \o <<To(3 - p.turn, <<"your">>)>>)
    BY <1>7, <1>9 DEF After
  <2>2. does.server = t /\ does.sends = q \o <<To(3 - p.turn, <<"your">>)>>
    BY <2>1 DEF Does
  <2>3. t.at = "move" /\ t.turn = 3 - p.turn BY <1>6, <1>8, <1>9
  <2>4. Silent(q) /\ NoneLeaves(q) BY BothSent, MsgKinds DEF send_board
  <2> HIDE DEF t, q
  <2>5. Waits(t) = 3 - p.turn /\ KindOf(t) = "your" BY <2>3 DEF Waits, KindOf
  <2>6. Asking(t, q \o <<To(3 - p.turn, <<"your">>)>>) BY <2>4, <2>5, AsksAfter
  <2>7. QED BY <2>2, <2>6 DEF t
<1>10. ASSUME s.at = "move", Valid(s, m.cell), Outcome(p) # "playing"
       PROVE  does.server = [p EXCEPT !.at = "ask1"] /\ Asking(does.server, does.sends)
  <2> HIDE DEF p, does
  <2> DEFINE t == [p EXCEPT !.at = "ask1"]
  <2> DEFINE q1 == send_board(p.board)
  <2> DEFINE q2 == Both(<<"over", Outcome(p)>>)
  <2>1. does = Does(t, q1 \o q2 \o <<To(1, <<"do">>)>>)
    BY <1>7, <1>10 DEF After
  <2>2. does.server = t /\ does.sends = q1 \o q2 \o <<To(1, <<"do">>)>>
    BY <2>1 DEF Does
  <2>3. t.at = "ask1" BY <1>8
  <2>4. Silent(q1) /\ NoneLeaves(q1) BY BothSent, MsgKinds DEF send_board
  <2>5. Silent(q2) /\ NoneLeaves(q2) BY BothSent, MsgKinds
  <2> HIDE DEF t, q1, q2
  <2>6. Silent(q1 \o q2) /\ NoneLeaves(q1 \o q2) BY <2>4, <2>5, MoreSent
  <2>7. Waits(t) = 1 /\ KindOf(t) = "do" BY <2>3 DEF Waits, KindOf
  <2>8. Asking(t, q1 \o q2 \o <<To(1, <<"do">>)>>) BY <2>6, <2>7, AsksAfter
  <2>9. QED BY <2>2, <2>8 DEF t
<1> HIDE DEF does, p
<1>11. QED BY <1>2, <1>3, <1>4, <1>5, <1>9, <1>10 DEF does, p

(* The server goes on from one wait to the next: nobody was asked, nothing *)
(* is on its way to it, and then the one it waits for is asked; or it ends. *)
LEMMA SeatsOf ==
  ASSUME NEW s, s.addr \in Seq(Clients), Len(s.addr) = 2
  PROVE  /\ Seat(s, s.addr[1]) /\ Seat(s, s.addr[2])
         /\ s.addr[1] \in Clients /\ s.addr[2] \in Clients
<1>1. 1 \in 1..Len(s.addr) /\ 2 \in 1..Len(s.addr)
  OBVIOUS
<1>2. QED BY <1>1 DEF Seat

LEMMA ServerStep ==
  ASSUME IInv, ~Over, UNCHANGED <<work, at, mute, gone, lost>>, NEW ms,
         ServerRec(server'), IsList(ms), down' = Sent(server', ms), up' = [x \in Clients |-> up'[x]],
         said' \in [Clients -> {"", "yes", "no"}], result' \in Results \cup {"playing", "closed"},
         \A x \in Clients : Unasked(x) /\ (Player(x) => Seat(server', x)),
         \A x \in Clients : Seat(server', x) => at[x] # "new" /\ up'[x] = <<>>,
         \A x \in Clients : ~Seat(server', x) => /\ up'[x] \in {<<>>, <<NoText>>} /\ said'[x] = ""
                                                 /\ at[x] = "new" => up'[x] = <<>>,
         \/ /\ Busy' /\ Asking(server', ms) /\ said'[W'] = ""
            /\ Len(server'.addr) = 2 /\ server'.addr[1] # server'.addr[2]
            /\ ~Tcp => \A x \in Clients : Seat(server', x)
         \/ /\ server'.at \in {"left", "killed"} /\ Silent(ms)
            /\ Len(server'.addr) = 2 \/ ms = <<>>
         \/ /\ server'.at = "accept" /\ ms = <<>> /\ Len(server'.addr) < 2
            /\ result' = "none" /\ \A x \in Clients : said'[x] = "",
         GameOK'
  PROVE  IInv'
<1>1. \A x : Player(x)' <=> Seat(server', x)
  BY DEF Player, Seat
<1>2. Len(server'.addr) = 2 =>
        /\ Seat(server', server'.addr[1]) /\ Seat(server', server'.addr[2])
        /\ server'.addr[1] \in Clients /\ server'.addr[2] \in Clients
  <2> SUFFICES ASSUME Len(server'.addr) = 2
               PROVE  /\ Seat(server', server'.addr[1]) /\ Seat(server', server'.addr[2])
                      /\ server'.addr[1] \in Clients /\ server'.addr[2] \in Clients
    OBVIOUS
  <2>1. server'.addr \in Seq(Clients) BY DEF ServerRec
  <2>2. QED BY <2>1, SeatsOf
<1>3. Busy' => Waits(server') \in {1, 2} /\ W' = server'.addr[Waits(server')] /\ Kind' = KindOf(server')
  BY DEF Busy, ServerRec, Waits, W, Kind, KindOf
<1>4. \A x \in Clients : down'[x] = Sent(server', ms)[x]
  OBVIOUS
<1>5. down' = [x \in Clients |-> down'[x]]
  BY DEF Sent
<1>6. \/ Silent(ms)
      \/ Busy' /\ Asking(server', ms)
  BY NothingSent
<1>7. ASSUME NEW x \in Clients
      PROVE  /\ IsList(down'[x]) /\ (x \in gone => down'[x] = <<>>)
             /\ ~Over' => NoExit(down'[x])
             /\ ~Seat(server', x) => down'[x] = <<>>
             /\ ~(Busy' /\ x = W') => NoPrompt(down'[x])
             /\ Busy' /\ x = W' /\ x \notin gone => OnePrompt(down'[x], Kind')
  <2>1. NoPrompt(down[x]) /\ NoExit(down[x]) /\ PersonOK(x)
    BY PersonIs DEF PersonOK, Unasked
  <2>2. IsList(down'[x]) /\ (x \in gone => down'[x] = <<>>)
    <3>1. Sent(server', ms)[x] = down'[x] /\ IsList(ms) BY <1>4
    <3>2. QED BY ONLY <3>1, SentIs, IInv, x \in Clients
  <2>3. ASSUME ~Over' PROVE NoExit(down'[x])
    <3>1. NoneLeaves(ms)
      <4>1. CASE Busy' /\ Asking(server', ms) BY <2>1, <4>1, SentAsks
      <4>2. CASE ms = <<>> BY ONLY <4>2, NothingSent
      <4>3. ~(server'.at \in {"left", "killed"}) BY <2>3 DEF Over
      <4>4. QED BY <4>1, <4>2, <4>3
    <3>2. QED BY <1>4, <2>1, <3>1, SentIs
  <2>4. ASSUME ~Seat(server', x) PROVE down'[x] = <<>>
    <3>1. \A i \in 1..Len(ms) : server'.addr[ms[i].to] # x
      <4>1. CASE ms = <<>> BY ONLY <4>1, NothingSent
      <4>2. CASE Len(server'.addr) = 2
        <5>1. \A i \in 1..Len(ms) : ms[i].to \in {1, 2}
          <6>1. CASE Silent(ms) BY <6>1 DEF Silent
          <6>2. CASE Busy' /\ Asking(server', ms)
            <7>1. \A i \in 1..Len(ms) : ms[i].to \in {1, 2, Waits(server')}
              BY <2>1, <6>2, SentAsks
            <7>2. QED BY <1>3, <6>2, <7>1
          <6>3. QED BY <1>6, <6>1, <6>2
        <5>2. x # server'.addr[1] /\ x # server'.addr[2]
          BY <1>2, <2>4, <4>2
        <5>3. QED BY <5>1, <5>2
      <4>3. QED BY <4>1, <4>2
    <3>2. down[x] = <<>>
      BY <2>1, <2>4 DEF PersonOK
    <3>3. Sent(server', ms)[x] = down'[x] /\ IsList(ms) BY <1>4
    <3>4. QED BY ONLY <3>1, <3>2, <3>3, SentIs, IInv, x \in Clients
  <2>5. ASSUME ~(Busy' /\ x = W') PROVE NoPrompt(down'[x])
    <3>1. CASE Silent(ms)
      BY <1>4, <2>1, <3>1, SentIs DEF Silent
    <3>2. CASE Busy' /\ Asking(server', ms)
      <4>1. server'.addr[Waits(server')] # x BY <1>3, <2>5, <3>2
      <4>2. QED BY <1>4, <2>1, <3>2, <4>1, SentAsks
    <3>3. QED BY <1>6, <3>1, <3>2
  <2>6. ASSUME Busy', x = W', x \notin gone PROVE OnePrompt(down'[x], Kind')
    <3>1. Asking(server', ms)
      BY <2>6 DEF Busy
    <3>2. server'.addr[Waits(server')] = x BY <1>3, <2>6
    <3>3. OnePrompt(Sent(server', ms)[x], KindOf(server'))
      BY <2>1, <2>6, <3>1, <3>2, SentAsks
    <3>4. QED BY <1>3, <1>4, <2>6, <3>3
  <2>7. QED BY <2>2, <2>3, <2>4, <2>5, <2>6
<1>8. TypeInv'
  <2>1. work' \in Works /\ at' \in [Clients -> ClientStates] /\ gone' \subseteq Clients /\ lost' \in Nat
    BY DEF IInv, TypeInv
  <2>2. \A x \in Clients : IsList(down'[x]) BY <1>7
  <2>3. QED BY <1>5, <2>1, <2>2 DEF TypeInv
<1>9. ASSUME NEW x \in Clients PROVE PersonOK(x)'
  <2>1. PersonOK(x) BY PersonIs
  <2>2. at'[x] = at[x] /\ gone' = gone
    OBVIOUS
  <2>3. x \in gone' => at'[x] = "left" /\ down'[x] = <<>>
    BY <1>7, <2>1, <2>2 DEF PersonOK
  <2>4. ~Over' => NoExit(down'[x]) /\ (at'[x] = "left" => x \in gone')
    BY <1>7, <2>1, <2>2 DEF PersonOK
  <2>5. ~Player(x)' => Unasked(x)' /\ down'[x] = <<>> /\ up'[x] \in {<<>>, <<NoText>>} /\ said'[x] = ""
    <3>1. SUFFICES ASSUME ~Seat(server', x)
                   PROVE  Unasked(x)' /\ down'[x] = <<>> /\ up'[x] \in {<<>>, <<NoText>>} /\ said'[x] = ""
      BY <1>1
    <3>2. down'[x] = <<>> BY <1>7, <3>1
    <3>3. NoPrompt(down'[x])
      <4>1. NoPrompt(<<>>) BY ONLY NothingSent DEF NoPrompt
      <4>2. QED BY <3>2, <4>1
    <3>4. Unasked(x)' BY <2>2, <3>3 DEF Unasked
    <3>5. QED BY <3>1, <3>2, <3>4
  <2>6. at'[x] = "new" => ~Player(x)' /\ up'[x] = <<>>
    BY <1>1, <2>2
  <2>7. QED BY <2>3, <2>4, <2>5, <2>6 DEF PersonOK
<1>10. PeopleOK'
  BY <1>9 DEF PeopleOK, PersonOK
<1>11. ASSUME NEW x \in Clients, ~(Busy' /\ x = W') PROVE Unasked(x)'
  BY <1>7, <1>11 DEF Unasked
<1>12. AcceptOK'
  <2> SUFFICES ASSUME server'.at = "accept" PROVE AcceptOK'
    BY DEF AcceptOK
  <2>1. ~Busy' /\ Len(server'.addr) < 2 /\ result' = "none" /\ \A x \in Clients : said'[x] = ""
    BY DEF Busy
  <2>2. QED BY <1>1, <1>11, <2>1 DEF AcceptOK
<1>13. BusyOK'
  <2> SUFFICES ASSUME Busy' PROVE BusyOK'
    BY DEF BusyOK
  <2>1. /\ Asking(server', ms) /\ said'[W'] = ""
        /\ Len(server'.addr) = 2 /\ server'.addr[1] # server'.addr[2]
        /\ ~Tcp => \A x \in Clients : Seat(server', x)
    BY DEF Busy
  <2>2. W' \in Clients /\ Seat(server', W')
    BY <1>2, <1>3, <2>1
  <2>3. Token(W)' \/ (NoToken(W)' /\ Faults')
    <3>1. up'[W'] = <<>> /\ at'[W'] = at[W'] /\ at[W'] \notin Prompts /\ at[W'] # "new"
      BY <2>2 DEF Unasked
    <3>2. CASE W' \in gone
      <4>1. down'[W'] = <<>> BY <1>7, <2>2, <3>2
      <4>2. NoPrompt(down'[W'])
        <5>1. NoPrompt(<<>>) BY ONLY NothingSent DEF NoPrompt
        <5>2. QED BY <4>1, <5>1
      <4>3. Faults' BY <3>2 DEF Faults
      <4>4. QED BY <3>1, <4>2, <4>3 DEF NoToken, Unasked
    <3>3. CASE W' \notin gone
      <4>1. OnePrompt(down'[W'], Kind') BY <1>7, <2>2, <3>3
      <4>2. at[W'] # "left" BY <2>2, <3>3, PersonIs DEF PersonOK
      <4>3. at[W'] = "read" BY <2>2, <3>1, <4>2, PersonIs DEF ClientStates, Prompts
      <4>4. QED BY <2>1, <3>1, <4>1, <4>3 DEF Token
    <3>4. QED BY <3>2, <3>3
  <2>4. ASSUME NEW x \in Clients, Player(x)', x # W' PROVE NoToken(x)'
    <3>1. up'[x] = <<>> BY <1>1, <2>4
    <3>2. QED BY <1>11, <2>4, <3>1 DEF NoToken
  <2>5. ~Tcp' => \A x \in Clients : Player(x)'
    BY <1>1, <2>1 DEF Tcp
  <2>6. QED BY <2>1, <2>3, <2>4, <2>5 DEF BusyOK
<1>14. OverOK'
  <2>1. Over' => ~Busy' BY DEF Over, Busy
  <2>2. QED BY <1>11, <2>1 DEF OverOK
<1>15. QED BY <1>8, <1>10, <1>12, <1>13, <1>14 DEF IInv

LEMMA SentSame ==
  ASSUME NEW s, NEW t, s.addr = t.addr, NEW ms
  PROVE  Sent(s, ms) = Sent(t, ms)
BY DEF Sent, Parts

LEMMA NoneSent ==
  ASSUME NEW s, NEW t
  PROVE  Sent(s, <<>>) = Sent(t, <<>>)
<1>1. ASSUME NEW x \in Clients PROVE Parts(s, <<>>, x) = Parts(t, <<>>, x)
  <2>1. ASSUME NEW z PROVE Parts(z, <<>>, x) = <<>>
    <3>1. \A i \in 1..Len(<<>>) : z.addr[<<>>[i].to] # x
      BY ONLY NothingSent
    <3>2. QED BY ONLY <3>1, NothingSent, PartsAre
  <2>2. QED BY <2>1
<1>2. QED BY <1>1 DEF Sent

LEMMA RecIs ==
  ASSUME NEW a, NEW d, NEW p, NEW n, NEW v, NEW b, NEW s,
         s = [at |-> a, addr |-> d, p1 |-> p, turn |-> n, moves |-> v, board |-> b]
  PROVE  s.at = a /\ s.addr = d /\ s.p1 = p /\ s.turn = n /\ s.moves = v /\ s.board = b
OBVIOUS

(* The server goes elsewhere and changes nothing else. *)
LEMMA GoesTo ==
  ASSUME NEW s, ServerRec(s), NEW a \in ServerStates, a = "move" => s.moves # 9
  PROVE  LET t == [s EXCEPT !.at = a]
         IN  /\ ServerRec(t) /\ t.at = a /\ t.addr = s.addr /\ t.p1 = s.p1
             /\ t.turn = s.turn /\ t.moves = s.moves /\ t.board = s.board
<1> DEFINE t == [s EXCEPT !.at = a]
<1>1. s = [at |-> s.at, addr |-> s.addr, p1 |-> s.p1, turn |-> s.turn, moves |-> s.moves, board |-> s.board]
  BY DEF ServerRec
<1>2. t = [at |-> a, addr |-> s.addr, p1 |-> s.p1, turn |-> s.turn, moves |-> s.moves, board |-> s.board]
  BY <1>1
<1> HIDE DEF t
<1>3. t.at = a /\ t.addr = s.addr /\ t.p1 = s.p1 /\ t.turn = s.turn /\ t.moves = s.moves /\ t.board = s.board
  BY <1>2, RecIs
<1>4. ServerRec(t)
  BY <1>2, <1>3 DEF ServerRec
<1>5. QED BY <1>3, <1>4 DEF t

LEMMA SeatMore ==
  ASSUME NEW s, s.addr \in Seq(Clients), NEW c \in Clients, NEW t, t.addr = Append(s.addr, c)
  PROVE  /\ t.addr \in Seq(Clients) /\ Len(t.addr) = Len(s.addr) + 1 /\ Len(s.addr) \in Nat
         /\ \A i \in 1..Len(s.addr) : t.addr[i] = s.addr[i]
         /\ t.addr[Len(s.addr) + 1] = c
         /\ \A x : Seat(t, x) <=> Seat(s, x) \/ x = c
<1>1. /\ t.addr \in Seq(Clients) /\ Len(t.addr) = Len(s.addr) + 1 /\ Len(s.addr) \in Nat
      /\ \A i \in 1..Len(s.addr) : t.addr[i] = s.addr[i]
      /\ t.addr[Len(s.addr) + 1] = c
  OBVIOUS
<1>2. \A i : i \in 1..Len(t.addr) <=> i \in 1..Len(s.addr) \/ i = Len(s.addr) + 1
  BY <1>1
<1>3. \A x : Seat(t, x) <=> Seat(s, x) \/ x = c
  BY <1>1, <1>2 DEF Seat
<1>4. QED BY <1>1, <1>3

LEMMA SecondSeat ==
  ASSUME NEW n \in Nat, n < 2, ~(n + 1 < 2)
  PROVE  n = 1
OBVIOUS

LEMMA SitIs ==
  ASSUME IInv, server.at = "accept", NEW c \in Clients, ~Player(c),
         server'.addr = Append(server.addr, c),
         UNCHANGED <<server.board, server.turn, result, said, gone>>
  PROVE  XStep
<1>1. Len(server.addr) < 2 BY DEF IInv, AcceptOK
<1>2. server.addr \in Seq(Clients) BY DEF IInv, TypeInv, ServerRec
<1>3. c \notin XO!Range(server.addr)
  <2>1. DOMAIN server.addr = 1..Len(server.addr) BY <1>2
  <2>2. QED BY <2>1 DEF XO!Range, Player
<1>4. XO!Sit(c) BY <1>1, <1>3 DEF XO!Sit
<1>5. QED BY <1>4 DEF XStep, XO!Next

LEMMA AcceptsKeeps ==
  ASSUME IInv, NEW c \in Clients, Accepts(c)
  PROVE  IInv' /\ XStep
<1>1. /\ server.at = "accept" /\ up[c] # <<>> /\ up' = [up EXCEPT ![c] = Tail(up[c])]
      /\ Proceeds(Seated(server, c))
      /\ UNCHANGED <<result, work, at, said, mute, gone, games, lost>>
  BY DEF Accepts
<1>2. /\ Len(server.addr) < 2 /\ result = "none" /\ ~Over
      /\ \A x \in Clients : Unasked(x) /\ said[x] = "" /\ (Player(x) => up[x] = <<>>)
  BY <1>1 DEF IInv, AcceptOK, Over
<1>3. ~Player(c) /\ up[c] = <<NoText>> /\ at[c] # "new"
  BY <1>1, <1>2, PersonIs DEF PersonOK
<1>4. /\ up' = [x \in Clients |-> up'[x]] /\ up'[c] = <<>>
      /\ \A x \in Clients : x # c => up'[x] = up[x]
  <2>1. Tail(<<NoText>>) = <<>> OBVIOUS
  <2>2. up' = [up EXCEPT ![c] = <<>>] BY <1>1, <1>3, <2>1
  <2>3. QED BY <2>2 DEF IInv, TypeInv
<1>5. said \in [Clients -> {"", "yes", "no"}] /\ result \in Results \cup {"playing", "closed"}
  BY DEF IInv, TypeInv
<1>6. \A x : Player(x) <=> Seat(server, x)
  BY DEF Player, Seat
<1>7. server.addr \in Seq(Clients) /\ ServerRec(server)
  BY DEF IInv, TypeInv, ServerRec
<1>8. \A x \in Clients : /\ (Seat(server, x) => at[x] # "new" /\ up[x] = <<>>)
                         /\ (~Seat(server, x) => /\ up[x] \in {<<>>, <<NoText>>}
                                                 /\ at[x] = "new" => up[x] = <<>>)
  <2>1. ASSUME NEW x \in Clients
        PROVE  /\ (Seat(server, x) => at[x] # "new" /\ up[x] = <<>>)
               /\ (~Seat(server, x) => /\ up[x] \in {<<>>, <<NoText>>}
                                       /\ at[x] = "new" => up[x] = <<>>)
    BY <1>2, <1>6, PersonIs DEF PersonOK
  <2>2. QED BY <2>1
<1> DEFINE t == [server EXCEPT !.addr = Append(server.addr, c)]
<1>9. /\ t.addr = Append(server.addr, c) /\ t.at = "accept" /\ t.board = server.board /\ t.turn = server.turn
      /\ ServerRec(t) /\ Len(t.addr) = Len(server.addr) + 1
  <2>1. Append(server.addr, c) \in Seq(Clients) /\ Len(Append(server.addr, c)) = Len(server.addr) + 1
    BY <1>7
  <2>2. server = [at |-> server.at, addr |-> server.addr, p1 |-> server.p1, turn |-> server.turn,
                  moves |-> server.moves, board |-> server.board]
    BY <1>7 DEF ServerRec
  <2>3. t = [at |-> server.at, addr |-> Append(server.addr, c), p1 |-> server.p1, turn |-> server.turn,
             moves |-> server.moves, board |-> server.board]
    BY <2>2
  <2> HIDE DEF t
  <2>4. t.at = server.at /\ t.addr = Append(server.addr, c) /\ t.p1 = server.p1 /\ t.turn = server.turn
        /\ t.moves = server.moves /\ t.board = server.board
    BY <2>3, RecIs
  <2>5. ServerRec(t)
    BY <1>7, <2>1, <2>3, <2>4 DEF ServerRec
  <2>6. QED BY <1>1, <2>1, <2>4, <2>5
<1>10. Len(server.addr) \in Nat /\ \A x : Seat(t, x) <=> Seat(server, x) \/ x = c
  <2> HIDE DEF t
  <2>1. QED BY <1>7, <1>9, SeatMore
<1>11. Seated(server, c) = IF Len(t.addr) < 2 THEN Does(t, <<>>) ELSE AskFirst(t)
  BY DEF Seated
<1> HIDE DEF t
<1>12. CASE Len(t.addr) < 2
  <2>1. server' = t /\ down' = Sent(t, <<>>)
    BY <1>1, <1>11, <1>12, NothingSent DEF Does, Proceeds
  <2>2. XStep
    BY <1>1, <1>3, <1>9, <2>1, SitIs
  <2>3. IInv'
    <3>1. /\ \A x \in Clients : Unasked(x) /\ (Player(x) => Seat(server', x))
          /\ \A x \in Clients : Seat(server', x) => at[x] # "new" /\ up'[x] = <<>>
          /\ \A x \in Clients : ~Seat(server', x) => /\ up'[x] \in {<<>>, <<NoText>>} /\ said'[x] = ""
                                                     /\ at[x] = "new" => up'[x] = <<>>
      BY <1>1, <1>2, <1>3, <1>4, <1>6, <1>8, <1>10, <2>1
    <3>2. GameOK'
      BY <1>9, <2>1 DEF GameOK
    <3>3. /\ server'.at = "accept" /\ Len(server'.addr) < 2 /\ ServerRec(server')
          /\ result' = "none" /\ \A x \in Clients : said'[x] = ""
      BY <1>1, <1>2, <1>9, <1>12, <2>1
    <3>4. QED BY <1>1, <1>2, <1>4, <1>5, <2>1, <3>1, <3>2, <3>3, NothingSent, ServerStep
  <2>4. QED BY <2>2, <2>3
<1>13. CASE ~(Len(t.addr) < 2)
  <2> DEFINE u == [t EXCEPT !.at = "ask1"]
  <2> DEFINE ms == <<To(1, <<"do">>)>>
  <2>1. Proceeds(Does(u, ms))
    BY <1>1, <1>11, <1>13 DEF AskFirst
  <2>2. Does(u, ms).server = u /\ Does(u, ms).sends = ms
    BY DEF Does
  <2>3. /\ ServerRec(u) /\ u.at = "ask1" /\ u.addr = t.addr /\ u.board = t.board /\ u.turn = t.turn
    BY <1>9, GoesTo DEF ServerStates
  <2>4. DOMAIN ms = 1..1 /\ Len(ms) = 1 /\ ms = Append(<<>>, To(1, <<"do">>))
    BY OneText
  <2>5. SubSeq(ms, 1, 0) = <<>>
    OBVIOUS
  <2> HIDE DEF u, ms
  <2>6. Asking(u, ms)
    <3>1. Waits(u) = 1 /\ KindOf(u) = "do" BY <2>3 DEF Waits, KindOf
    <3>2. QED BY <2>4, <3>1, AsksAfter, NothingSent
  <2>7. IsList(ms)
    BY <2>4, AppendIs, NothingSent
  <2>8. CASE server' = u /\ down' = Sent(u, ms)
    <3>1. XStep
      BY <1>1, <1>3, <1>9, <2>3, <2>8, SitIs
    <3>2. /\ Len(server'.addr) = 2 /\ server'.addr[1] = server.addr[1] /\ server'.addr[2] = c
          /\ server'.addr[1] # server'.addr[2]
      <4>1. Len(server.addr) = 1
        <5>1. Len(server.addr) < 2 BY <1>2
        <5>2. Len(t.addr) = Len(server.addr) + 1 BY <1>9
        <5>3. ~(Len(t.addr) < 2) BY <1>13
        <5>4. Len(server.addr) \in Nat BY <1>10
        <5>5. QED BY <5>1, <5>2, <5>3, <5>4, SecondSeat
      <4>2. server'.addr = Append(server.addr, c) BY <1>9, <2>3, <2>8
      <4>3. Seat(server, server.addr[1]) BY <4>1 DEF Seat
      <4>4. server.addr[1] # c BY <1>3, <1>6, <4>3
      <4>5. server'.addr[1] = server.addr[1] /\ server'.addr[2] = c /\ Len(server'.addr) = 2
        BY <1>7, <4>1, <4>2, SeatMore
      <4>6. QED BY <4>4, <4>5
    <3>3. \A x : Seat(server', x) <=> Seat(server, x) \/ x = c
      BY <1>10, <2>3, <2>8 DEF Seat
    <3>4. /\ \A x \in Clients : Unasked(x) /\ (Player(x) => Seat(server', x))
          /\ \A x \in Clients : Seat(server', x) => at[x] # "new" /\ up'[x] = <<>>
          /\ \A x \in Clients : ~Seat(server', x) => /\ up'[x] \in {<<>>, <<NoText>>} /\ said'[x] = ""
                                                     /\ at[x] = "new" => up'[x] = <<>>
      BY <1>1, <1>2, <1>3, <1>4, <1>6, <1>8, <3>3
    <3>5. server'.at = "ask1" /\ ServerRec(server') /\ Busy' /\ W' = server'.addr[1]
      BY <2>3, <2>8 DEF Busy, W, Waits
    <3>6. server'.addr[1] \in Clients /\ server'.addr[2] \in Clients /\ Seat(server', server'.addr[1]) /\ Seat(server', server'.addr[2])
      BY <3>2, <3>5, SeatsOf DEF ServerRec
    <3>7. said'[W'] = "" /\ said'[server'.addr[2]] = ""
      BY <1>1, <1>2, <3>5, <3>6
    <3>8. ~Tcp => \A x \in Clients : Seat(server', x)
      <4> SUFFICES ASSUME ~Tcp, NEW x \in Clients PROVE Seat(server', x)
        OBVIOUS
      <4>1. PICK a, b \in Clients : Clients = {a, b}
        BY TwoOverUdp DEF Tcp, IInv, TypeInv
      <4>2. x = server'.addr[1] \/ x = server'.addr[2]
        BY <3>2, <3>6, <4>1
      <4>3. QED BY <3>6, <4>2
    <3>9. GameOK'
      BY <1>1, <1>2, <3>5, <3>7 DEF GameOK, Results
    <3>10. Asking(server', ms) /\ down' = Sent(server', ms)
      BY <2>6, <2>8
    <3>11. IInv'
      BY <1>1, <1>2, <1>4, <1>5, <2>7, <3>2, <3>4, <3>5, <3>7, <3>8, <3>9, <3>10, ServerStep
    <3>12. QED BY <3>1, <3>11
  <2>9. CASE server' = [server EXCEPT !.at = "killed"] /\ down' = Sent(u, <<>>)
    <3>1. server'.at = "killed" /\ server'.addr = server.addr /\ server'.board = server.board /\ server'.turn = server.turn
          /\ ServerRec(server')
      BY <1>7, <2>9, GoesTo DEF ServerStates
    <3>2. XStep
      BY <1>1, <3>1 DEF XStep
    <3>3. \A x : Seat(server', x) <=> Seat(server, x)
      BY <3>1 DEF Seat
    <3>4. /\ \A x \in Clients : Unasked(x) /\ (Player(x) => Seat(server', x))
          /\ \A x \in Clients : Seat(server', x) => at[x] # "new" /\ up'[x] = <<>>
          /\ \A x \in Clients : ~Seat(server', x) => /\ up'[x] \in {<<>>, <<NoText>>} /\ said'[x] = ""
                                                     /\ at[x] = "new" => up'[x] = <<>>
      BY <1>1, <1>2, <1>3, <1>4, <1>6, <1>8, <3>3
    <3>5. GameOK' BY <3>1 DEF GameOK
    <3>6. down' = Sent(server', <<>>) BY <2>9, NoneSent
    <3>7. IInv'
      BY <1>1, <1>2, <1>4, <1>5, <3>1, <3>4, <3>5, <3>6, NothingSent, ServerStep
    <3>8. QED BY <3>2, <3>7
  <2>10. QED
    <3>1. ASSUME NEW k \in DOMAIN ms, server' = [server EXCEPT !.at = "killed"],
                 down' = Sent(u, SubSeq(ms, 1, k - 1))
          PROVE  server' = [server EXCEPT !.at = "killed"] /\ down' = Sent(u, <<>>)
      <4>1. k - 1 = 0 BY <2>4
      <4>2. SubSeq(ms, 1, k - 1) = <<>> BY <2>5, <4>1
      <4>3. QED BY <3>1, <4>2
    <3>2. \/ server' = u /\ down' = Sent(u, ms)
          \/ server' = [server EXCEPT !.at = "killed"] /\ down' = Sent(u, <<>>)
      BY <2>1, <2>2, <3>1 DEF Proceeds
    <3>3. QED BY <2>8, <2>9, <3>2
<1>14. QED BY <1>12, <1>13

-----------------------------------------------------------------------------
(* The server reads an answer.                                              *)

(* It is the answer of the player the server waits for, or that one is gone. *)
ReadOK(c, m) ==
  /\ Busy /\ c = W /\ m.yes \in BOOLEAN
  /\ up' = [x \in Clients |-> up'[x]] /\ up'[c] = <<>> /\ \A x \in Clients : x # c => up'[x] = up[x]
  /\ \A x \in Clients : Unasked(x) /\ (Player(x) => up'[x] = <<>>)
  /\ server.at # "move" => said[c] = Word(m.yes) \/ (c \in gone /\ m.yes = FALSE)
  /\ server.at = "move" => \A x \in Clients : said[x] = ""

LEMMA ReadIs ==
  ASSUME IInv, NEW c \in Clients, NEW m, Received(c, m)
  PROVE  ReadOK(c, m) /\ [server EXCEPT !.addr[Waits(server)] = c] = server
<1>1. /\ Waits(server) # 0
      /\ Tcp => c = server.addr[Waits(server)]
      /\ \/ up[c] # <<>> /\ m = Head(up[c]) /\ up' = [up EXCEPT ![c] = Tail(up[c])]
         \/ Tcp /\ c \in gone /\ up[c] = <<>> /\ m = NoText /\ up' = up
  BY DEF Received
<1>2. Busy
  BY <1>1 DEF Waits, Busy, IInv, TypeInv, ServerRec, ServerStates
<1>3. /\ Token(W) \/ (NoToken(W) /\ Faults)
      /\ \A x \in Clients : Player(x) /\ x # W => NoToken(x)
      /\ ~Tcp => \A x \in Clients : Player(x)
  BY <1>2 DEF IInv, BusyOK
<1>4. c = W
  <2>1. CASE Tcp BY <1>1, <2>1 DEF W
  <2>2. CASE ~Tcp
    <3>1. up[c] # <<>> /\ Player(c) BY <1>1, <1>3, <2>2
    <3>2. QED BY <1>3, <3>1 DEF NoToken
  <2>3. QED BY <2>1, <2>2
<1>5. Player(c)
  BY <1>2, <1>4, SeatsIs
<1>6. /\ Unasked(c) /\ up' = [up EXCEPT ![c] = <<>>] /\ m.yes \in BOOLEAN
      /\ server.at # "move" => said[c] = Word(m.yes) \/ (c \in gone /\ m.yes = FALSE)
  <2>1. CASE up[c] # <<>> /\ m = Head(up[c]) /\ up' = [up EXCEPT ![c] = Tail(up[c])]
    <3>1. Unasked(c) /\ \E n : /\ up[c] = <<n>> /\ n.yes \in BOOLEAN
                               /\ said[c] = IF server.at = "move" THEN "" ELSE Word(n.yes)
      BY <1>3, <1>4, <2>1 DEF Token, NoToken
    <3>2. PICK n : /\ up[c] = <<n>> /\ n.yes \in BOOLEAN
                   /\ said[c] = IF server.at = "move" THEN "" ELSE Word(n.yes)
      BY <3>1
    <3>3. Head(<<n>>) = n /\ Tail(<<n>>) = <<>>
      OBVIOUS
    <3>4. m = n /\ up' = [up EXCEPT ![c] = <<>>]
      BY <2>1, <3>2, <3>3
    <3>5. QED BY <3>1, <3>2, <3>4
  <2>2. CASE c \in gone /\ up[c] = <<>> /\ m = NoText /\ up' = up
    <3>1. at[c] = "left" /\ down[c] = <<>> BY <2>2, PersonIs DEF PersonOK
    <3>2. NoPrompt(<<>>) BY ONLY NothingSent DEF NoPrompt
    <3>3. Unasked(c) BY <3>1, <3>2 DEF Unasked, Prompts
    <3>4. m.yes = FALSE BY <2>2 DEF NoText
    <3>5. up' = [up EXCEPT ![c] = <<>>]
      BY <2>2 DEF IInv, TypeInv
    <3>6. QED BY <2>2, <3>3, <3>4, <3>5
  <2>3. QED BY <1>1, <2>1, <2>2
<1>7. up' = [x \in Clients |-> up'[x]] /\ up'[c] = <<>> /\ \A x \in Clients : x # c => up'[x] = up[x]
  BY <1>6 DEF IInv, TypeInv
<1>8. ASSUME NEW x \in Clients PROVE Unasked(x) /\ (Player(x) => up'[x] = <<>>)
  <2>1. CASE x = c BY <1>6, <1>7, <2>1
  <2>2. CASE x # c /\ Player(x) BY <1>3, <1>4, <1>7, <2>2 DEF NoToken
  <2>3. CASE ~Player(x) BY <1>5, <2>3, PersonIs DEF PersonOK
  <2>4. QED BY <2>1, <2>2, <2>3
<1>9. server.at = "move" => \A x \in Clients : said[x] = ""
  BY DEF IInv, GameOK
<1>10. ReadOK(c, m)
  BY <1>2, <1>4, <1>6, <1>7, <1>8, <1>9 DEF ReadOK
<1>11. [server EXCEPT !.addr[Waits(server)] = c] = server
  <2>1. server.addr[Waits(server)] = c BY <1>4 DEF W
  <2>2. server.addr \in Seq(Clients) BY DEF IInv, TypeInv, ServerRec
  <2>3. [server.addr EXCEPT ![Waits(server)] = c] = server.addr
    BY <2>1, <2>2
  <2>4. [server EXCEPT !.addr = server.addr] = server
    BY DEF IInv, TypeInv, ServerRec
  <2>5. QED BY <2>3, <2>4
<1>12. QED BY <1>10, <1>11

(* ServerStep once more, after a read with two players seated. *)
LEMMA AfterRead ==
  ASSUME IInv, NEW c \in Clients, NEW m, ReadOK(c, m), UNCHANGED <<work, at, mute, gone, lost>>, NEW ms,
         ServerRec(server'), server'.addr = server.addr, down' = Sent(server', ms),
         said' \in [Clients -> {"", "yes", "no"}], \A x \in Clients : said'[x] = said[x] \/ said'[x] = "",
         result' \in Results \cup {"playing", "closed"},
         \/ Busy' /\ Asking(server', ms) /\ said'[W'] = ""
         \/ server'.at \in {"left", "killed"} /\ Silent(ms),
         GameOK'
  PROVE  IInv'
<1>1. Busy /\ ~Over
  BY DEF ReadOK, Busy, Over
<1>2. Len(server.addr) = 2 /\ server.addr[1] # server.addr[2] /\ (~Tcp => \A x \in Clients : Player(x))
  BY <1>1 DEF IInv, BusyOK
<1>3. \A x : (Player(x) <=> Seat(server', x)) /\ (Player(x) <=> Seat(server, x))
  BY DEF Player, Seat
<1>4. ASSUME NEW x \in Clients
      PROVE  /\ Unasked(x) /\ (Player(x) => Seat(server', x))
             /\ Seat(server', x) => at[x] # "new" /\ up'[x] = <<>>
             /\ ~Seat(server', x) => /\ up'[x] \in {<<>>, <<NoText>>} /\ said'[x] = ""
                                     /\ at[x] = "new" => up'[x] = <<>>
  <2>1. PersonOK(x) BY PersonIs
  <2>2. Unasked(x) /\ (Player(x) => up'[x] = <<>>) /\ (x # c => up'[x] = up[x])
    BY DEF ReadOK
  <2>3. Player(c) BY <1>1, SeatsIs DEF ReadOK
  <2>4. ~Player(x) => x # c /\ up[x] \in {<<>>, <<NoText>>} /\ said[x] = ""
    BY <2>1, <2>3 DEF PersonOK
  <2>5. at[x] = "new" => ~Player(x) /\ up[x] = <<>>
    BY <2>1 DEF PersonOK
  <2>6. QED BY <1>3, <2>2, <2>4, <2>5
<1>5. IsList(ms)
  <2>1. CASE Silent(ms) BY <2>1 DEF Silent
  <2>2. CASE Asking(server', ms)
    <3>1. NoPrompt(down[c]) BY <1>4 DEF Unasked
    <3>2. QED BY <2>2, <3>1, SentAsks
  <2>3. QED BY <2>1, <2>2
<1>6. up' = [x \in Clients |-> up'[x]]
  BY DEF ReadOK
<1>7. (~Tcp => \A x \in Clients : Seat(server', x))
  BY <1>2, <1>3
<1>8. \/ /\ Busy' /\ Asking(server', ms) /\ said'[W'] = ""
         /\ Len(server'.addr) = 2 /\ server'.addr[1] # server'.addr[2]
         /\ ~Tcp => \A x \in Clients : Seat(server', x)
      \/ /\ server'.at \in {"left", "killed"} /\ Silent(ms)
         /\ Len(server'.addr) = 2 \/ ms = <<>>
  BY <1>2, <1>7
<1>9. QED BY <1>1, <1>4, <1>5, <1>6, <1>8, ServerStep

LEMMA EmptyIs ==
  initialize_board \in [Cells -> {" ", "X", "O"}] /\ 0 = Cardinality(Filled(initialize_board))
<1>1. Filled(initialize_board) = {} BY DEF Filled, initialize_board
<1>2. initialize_board \in [Cells -> {" ", "X", "O"}] BY DEF initialize_board
<1>3. 0 = Cardinality(Filled(initialize_board)) BY <1>1, FS_EmptySet
<1>4. QED BY <1>2, <1>3

(* One step of the server, in terms of the one player it has heard. *)
ServesTo(c, m) ==
  LET does == Handled(server, m)
  IN  /\ Proceeds(does)
      /\ result' = CASE server'.at = "left" -> "closed"
                     [] server'.at = "move" -> "playing"
                     [] server.at = "move" /\ server'.at = "ask1" -> Outcome(Placed(server, m.cell))
                     [] OTHER -> result
      /\ said' = IF server.at = "ask2" /\ server'.at = "move" THEN Nobody ELSE said
      /\ UNCHANGED <<work, at, mute, gone, lost>>

LEMMA ServesIs ==
  ASSUME IInv, NEW c \in Clients, Serves(c)
  PROVE  \E m : ReadOK(c, m) /\ ServesTo(c, m)
<1>1. PICK m : /\ Received(c, m)
               /\ \E s \in {[server EXCEPT !.addr[Waits(server)] = c]} :
                    \E does \in {Handled(s, m)} :
                      /\ Proceeds(does)
                      /\ result' = CASE server'.at = "left" -> "closed"
                                     [] server'.at = "move" -> "playing"
                                     [] server.at = "move" /\ server'.at = "ask1" -> Outcome(Placed(s, m.cell))
                                     [] OTHER -> result
               /\ said' = IF server.at = "ask2" /\ server'.at = "move" THEN Nobody ELSE said
               /\ UNCHANGED <<work, at, mute, gone, lost>>
  BY DEF Serves
<1>2. ReadOK(c, m) /\ [server EXCEPT !.addr[Waits(server)] = c] = server
  BY <1>1, ReadIs
<1>3. ServesTo(c, m)
  BY <1>1, <1>2 DEF ServesTo
<1>4. QED BY <1>2, <1>3

LEMMA ServerIs ==
  ASSUME IInv
  PROVE  /\ ServerRec(server)
         /\ server = [at |-> server.at, addr |-> server.addr, p1 |-> server.p1, turn |-> server.turn,
                      moves |-> server.moves, board |-> server.board]
         /\ server.p1 \in BOOLEAN /\ server.turn \in {1, 2} /\ server.board \in [Cells -> {" ", "X", "O"}]
         /\ server.moves = Cardinality(Filled(server.board)) /\ server.moves \in Nat
         /\ said \in [Clients -> {"", "yes", "no"}] /\ result \in Results \cup {"playing", "closed"}
BY FilledIs DEF IInv, TypeInv, ServerRec

LEMMA NobodySaid ==
  Nobody \in [Clients -> {"", "yes", "no"}] /\ \A x \in Clients : Nobody[x] = ""
BY DEF Nobody

(* The server is ended by SIGPIPE. *)
LEMMA KilledKeeps ==
  ASSUME IInv, NEW c \in Clients, NEW m, ReadOK(c, m), ServesTo(c, m), NEW t, NEW ms,
         server' = [server EXCEPT !.at = "killed"], down' = Sent(t, ms), t.addr = server.addr, Silent(ms)
  PROVE  IInv' /\ XStep
<1>1. ServerRec(server') /\ server'.at = "killed" /\ server'.addr = server.addr
      /\ server'.board = server.board /\ server'.turn = server.turn
  BY ServerIs, GoesTo DEF ServerStates
<1>2. result' = result /\ said' = said /\ UNCHANGED <<work, at, mute, gone, lost>>
  BY <1>1 DEF ServesTo
<1>3. XStep BY <1>1, <1>2 DEF XStep
<1>4. GameOK' BY <1>1 DEF GameOK
<1>5. down' = Sent(server', ms) BY <1>1, SentSame
<1>6. IInv' BY <1>1, <1>2, <1>4, <1>5, ServerIs, AfterRead
<1>7. QED BY <1>3, <1>6

LEMMA FirstAnswer ==
  ASSUME IInv, NEW c \in Clients, NEW m, ReadOK(c, m), ServesTo(c, m), server.at = "ask1",
         server' = Handled(server, m).server, down' = Sent(server', Handled(server, m).sends)
  PROVE  IInv' /\ XStep
<1> DEFINE ms == Handled(server, m).sends
<1>1. m.yes \in BOOLEAN BY DEF ReadOK
<1>2. server' = [server EXCEPT !.at = "ask2", !.p1 = m.yes] /\ Asking(server', ms)
  <2>1. ServerRec(server) /\ server.at \in {"ask1", "ask2", "move"} BY ServerIs
  <2>2. /\ Handled(server, m).server = [server EXCEPT !.at = "ask2", !.p1 = m.yes]
        /\ Asking(Handled(server, m).server, ms)
    BY <1>1, <2>1, HandledIs, Zenon
  <2>3. QED BY <2>2, Zenon
<1> HIDE DEF ms
<1>3. server' = [at |-> "ask2", addr |-> server.addr, p1 |-> m.yes, turn |-> server.turn,
                 moves |-> server.moves, board |-> server.board]
  BY <1>2, ServerIs
<1>4. /\ ServerRec(server') /\ server'.at = "ask2" /\ server'.addr = server.addr /\ server'.p1 = m.yes
      /\ server'.turn = server.turn /\ server'.board = server.board
  <2>1. "ask2" \in ServerStates /\ ("ask2" = "move" => server.moves # 9) BY DEF ServerStates
  <2>2. /\ server'.at = "ask2" /\ server'.addr = server.addr /\ server'.p1 = m.yes /\ server'.turn = server.turn
        /\ server'.moves = server.moves /\ server'.board = server.board
    BY <1>3, RecIs
  <2>3. ServerRec(server')
    BY <1>1, <1>3, <2>1, <2>2, ServerIs DEF ServerRec
  <2>4. QED BY <2>2, <2>3
<1>5. result' = result /\ said' = said /\ UNCHANGED <<work, at, mute, gone, lost>>
  BY <1>4 DEF ServesTo
<1>6. XStep BY <1>4, <1>5 DEF XStep
<1>7. Busy /\ c = W /\ W = server.addr[1]
  BY SeatsIs DEF Busy, ReadOK
<1>8. GameOK'
  <2>1. result' \in Results BY <1>5 DEF IInv, GameOK
  <2>2. said[c] = Word(m.yes) \/ (c \in gone /\ m.yes = FALSE) BY DEF ReadOK
  <2>3. IF server'.p1 THEN said'[server'.addr[1]] = "yes"
        ELSE said'[server'.addr[1]] = "no" \/ server'.addr[1] \in gone'
    BY <1>1, <1>4, <1>5, <1>7, <2>2 DEF Word
  <2>4. QED BY <1>4, <2>1, <2>3 DEF GameOK
<1>9. Busy' /\ said'[W'] = ""
  <2>1. W' = server'.addr[2] BY <1>4 DEF W, Waits
  <2>2. said[server.addr[2]] = "" BY DEF IInv, GameOK
  <2>3. QED BY <1>4, <1>5, <2>1, <2>2 DEF Busy
<1>10. down' = Sent(server', ms) BY DEF ms
<1>11. IInv' BY <1>2, <1>4, <1>5, <1>8, <1>9, <1>10, ServerIs, AfterRead
<1>12. QED BY <1>6, <1>11

LEMMA RangeIs ==
  ASSUME IInv, Busy
  PROVE  XO!Range(server.addr) = {server.addr[1], server.addr[2]}
<1>1. server.addr \in Seq(Clients) /\ Len(server.addr) = 2
  BY DEF IInv, TypeInv, ServerRec, BusyOK
<1>2. DOMAIN server.addr = {1, 2}
  BY <1>1
<1>3. QED BY <1>2 DEF XO!Range

(* Both have said yes: a game. *)
LEMMA GameBegins ==
  ASSUME IInv, NEW c \in Clients, NEW m, ReadOK(c, m), ServesTo(c, m), server.at = "ask2", server.p1, m.yes,
         server' = Handled(server, m).server, down' = Sent(server', Handled(server, m).sends)
  PROVE  IInv' /\ XStep
<1> DEFINE ms == Handled(server, m).sends
<1>1. m.yes \in BOOLEAN BY DEF ReadOK
<1>2. server' = [server EXCEPT !.at = "move", !.turn = 1, !.moves = 0, !.board = initialize_board]
      /\ Asking(server', ms)
  BY <1>1, ServerIs, HandledIs
<1> HIDE DEF ms
<1>3. server' = [at |-> "move", addr |-> server.addr, p1 |-> server.p1, turn |-> 1,
                 moves |-> 0, board |-> initialize_board]
  <2>1. server = [at |-> server.at, addr |-> server.addr, p1 |-> server.p1, turn |-> server.turn,
                  moves |-> server.moves, board |-> server.board]
    BY ServerIs
  <2>2. QED BY ONLY <1>2, <2>1
<1>4. /\ ServerRec(server') /\ server'.at = "move" /\ server'.addr = server.addr
      /\ server'.turn = 1 /\ server'.board = initialize_board
  <2>1. /\ server'.at = "move" /\ server'.addr = server.addr /\ server'.p1 = server.p1 /\ server'.turn = 1
        /\ server'.moves = 0 /\ server'.board = initialize_board
    BY <1>3, RecIs
  <2>2. server'.moves = Cardinality(Filled(server'.board)) /\ server'.moves # 9
    <3>1. 0 = Cardinality(Filled(initialize_board)) BY EmptyIs
    <3>2. server'.moves = Cardinality(Filled(server'.board)) BY <2>1, <3>1
    <3>3. server'.moves # 9 BY <2>1
    <3>4. QED BY <3>2, <3>3
  <2>3. ServerRec(server')
    BY <1>3, <2>1, <2>2, EmptyIs, ServerIs DEF ServerRec, ServerStates
  <2>4. QED BY <2>1, <2>3
<1>5. result' = "playing" /\ said' = Nobody /\ UNCHANGED <<work, at, mute, gone, lost>>
  BY <1>4 DEF ServesTo
<1>6. Busy /\ c = W /\ W = server.addr[2]
  BY SeatsIs DEF Busy, ReadOK
<1>7. XO!Start
  <2>1. said[server.addr[1]] = "yes" /\ result \in Results BY DEF IInv, GameOK
  <2>2. said[c] = "yes" BY DEF ReadOK, Word
  <2>3. Len(server.addr) = 2 BY <1>6 DEF IInv, BusyOK
  <2>4. result \notin {"playing", "closed"} BY <2>1 DEF Results
  <2>5. \A x \in XO!Range(server.addr) : said[x] = "yes" BY <1>6, <2>1, <2>2, RangeIs
  <2>6. XO!EmptyBoard = initialize_board /\ XO!Quiet = Nobody
    BY DEF XO!EmptyBoard, XO!Quiet, XO!Cells, initialize_board, Cells, Nobody
  <2>7. QED BY <1>4, <1>5, <2>3, <2>4, <2>5, <2>6 DEF XO!Start
<1>8. GameOK' BY <1>4, <1>5, NobodySaid DEF GameOK
<1>9. Busy' /\ said'[W'] = ""
  <2>1. W' = server'.addr[1] BY <1>4 DEF W, Waits
  <2>2. server.addr[1] \in Clients BY <1>6, SeatsIs
  <2>3. QED BY <1>4, <1>5, <2>1, <2>2, NobodySaid DEF Busy
<1>10. down' = Sent(server', ms) BY DEF ms
<1>11. \A x \in Clients : said'[x] = said[x] \/ said'[x] = "" BY <1>5, NobodySaid
<1>12. result' \in Results \cup {"playing", "closed"} /\ said' \in [Clients -> {"", "yes", "no"}]
  BY <1>5, NobodySaid
<1>13. IInv' BY <1>2, <1>4, <1>5, <1>8, <1>9, <1>10, <1>11, <1>12, AfterRead
<1>14. QED BY <1>7, <1>13 DEF XStep, XO!Next

(* One of them has said no, or has gone: the end. *)
LEMMA ServerLeaves ==
  ASSUME IInv, NEW c \in Clients, NEW m, ReadOK(c, m), ServesTo(c, m), server.at = "ask2", ~(server.p1 /\ m.yes),
         server' = Handled(server, m).server, down' = Sent(server', Handled(server, m).sends)
  PROVE  IInv' /\ XStep
<1> DEFINE ms == Handled(server, m).sends
<1>1. m.yes \in BOOLEAN BY DEF ReadOK
<1>2. server' = [server EXCEPT !.at = "left"] /\ Silent(ms)
  BY <1>1, ServerIs, HandledIs
<1> HIDE DEF ms
<1>3. /\ ServerRec(server') /\ server'.at = "left" /\ server'.addr = server.addr
      /\ server'.turn = server.turn /\ server'.board = server.board
  <2>1. "left" \in ServerStates /\ ("left" = "move" => server.moves # 9) /\ ServerRec(server)
    BY ServerIs DEF ServerStates
  <2>2. QED BY ONLY <1>2, <2>1, GoesTo
<1>4. result' = "closed" /\ said' = said /\ UNCHANGED <<work, at, mute, gone, lost>>
  BY <1>3 DEF ServesTo
<1>5. Busy /\ c = W /\ W = server.addr[2]
  BY SeatsIs DEF Busy, ReadOK
<1>6. XO!Close
  <2>1. result \notin {"playing", "closed"} BY DEF IInv, GameOK, Results
  <2>2. \E x \in XO!Range(server.addr) : said[x] = "no" \/ x \in gone
    <3>1. CASE ~server.p1
      <4>1. said[server.addr[1]] = "no" \/ server.addr[1] \in gone BY <3>1 DEF IInv, GameOK
      <4>2. QED BY <1>5, <4>1, RangeIs
    <3>2. CASE ~m.yes
      <4>1. said[c] = "no" \/ c \in gone BY <1>1, <3>2 DEF ReadOK, Word
      <4>2. QED BY <1>5, <4>1, RangeIs
    <3>3. QED BY <3>1, <3>2
  <2>3. QED BY <1>3, <1>4, <2>1, <2>2 DEF XO!Close
<1>7. GameOK' BY <1>3 DEF GameOK
<1>8. down' = Sent(server', ms) BY DEF ms
<1>9. IInv' BY <1>2, <1>3, <1>4, <1>7, <1>8, ServerIs, AfterRead
<1>10. QED BY <1>6, <1>9 DEF XStep, XO!Next

(* A cell that is none of the free ones: asked again. *)
LEMMA MoveRejected ==
  ASSUME IInv, NEW c \in Clients, NEW m, ReadOK(c, m), ServesTo(c, m), server.at = "move", ~Valid(server, m.cell),
         server' = Handled(server, m).server, down' = Sent(server', Handled(server, m).sends)
  PROVE  IInv' /\ XStep
<1> DEFINE ms == Handled(server, m).sends
<1>1. m.yes \in BOOLEAN BY DEF ReadOK
<1>2. server' = server /\ Asking(server', ms)
  <2>1. ServerRec(server) /\ server.at \in {"ask1", "ask2", "move"} BY ServerIs
  <2>2. Handled(server, m).server = server /\ Asking(server, ms)
    BY <1>1, <2>1, HandledIs, Zenon
  <2>3. QED BY <2>2, Zenon
<1> HIDE DEF ms
<1>3. result = "playing" /\ \A x \in Clients : said[x] = ""
  BY DEF IInv, GameOK
<1>4. result' = result /\ said' = said /\ UNCHANGED <<work, at, mute, gone, lost>>
  BY <1>2, <1>3 DEF ServesTo
<1>5. XStep BY <1>2, <1>4 DEF XStep
<1>6. GameOK' BY <1>2, <1>3, <1>4 DEF GameOK
<1>7. Busy' /\ said'[W'] = ""
  <2>1. Busy /\ W \in Clients BY SeatsIs DEF Busy
  <2>2. W' = W /\ Busy' BY <1>2, <2>1 DEF W, Busy
  <2>3. QED BY <1>3, <1>4, <2>1, <2>2
<1>8. down' = Sent(server', ms) BY DEF ms
<1>9. IInv' BY <1>2, <1>4, <1>6, <1>7, <1>8, ServerIs, AfterRead
<1>10. QED BY <1>5, <1>9

(* The cell is taken. *)
LEMMA PlacedIs ==
  ASSUME IInv, server.at = "move", NEW cell, Valid(server, cell)
  PROVE  LET p == Placed(server, cell)
             b == [server.board EXCEPT ![cell] = Symbol[server.turn]]
         IN  /\ p = [at |-> "move", addr |-> server.addr, p1 |-> server.p1, turn |-> server.turn,
                     moves |-> server.moves + 1, board |-> b]
             /\ b \in [Cells -> {" ", "X", "O"}] /\ server.moves + 1 = Cardinality(Filled(b))
             /\ Symbol[server.turn] \in {"X", "O"} /\ server.moves + 1 \in Nat
             /\ p.turn = server.turn /\ p.board = b /\ p.moves = server.moves + 1
<1> DEFINE p == Placed(server, cell)
<1> DEFINE b == [server.board EXCEPT ![cell] = Symbol[server.turn]]
<1>1. cell \in Cells /\ server.board[cell] = " "
  BY DEF Valid
<1>2. Symbol[server.turn] \in {"X", "O"}
  <2>1. server.turn = 1 \/ server.turn = 2 BY ServerIs
  <2>2. QED BY <2>1 DEF Symbol
<1>3. b \in [Cells -> {" ", "X", "O"}] /\ Cardinality(Filled(b)) = Cardinality(Filled(server.board)) + 1
  <2>1. server.board \in [Cells -> {" ", "X", "O"}] BY ServerIs
  <2>2. QED BY <1>1, <1>2, <2>1, FilledMore, Zenon
<1> HIDE DEF b
<1>4. server.moves = Cardinality(Filled(server.board)) /\ server.moves \in Nat
  BY ServerIs
<1>5. server.moves + 1 = Cardinality(Filled(b)) /\ server.moves + 1 \in Nat
  <2>1. Cardinality(Filled(server.board)) \in Nat BY FilledIs
  <2>2. server.moves + 1 = Cardinality(Filled(server.board)) + 1 BY <1>4
  <2>3. server.moves + 1 \in Nat BY <1>4
  <2>4. QED BY <1>3, <2>1, <2>2, <2>3
<1> DEFINE v == server.moves + 1
<1>6. p = [server EXCEPT !.board = b, !.moves = v]
  <2>1. p = [server EXCEPT !.board[cell] = Symbol[server.turn], !.moves = server.moves + 1] BY DEF Placed
  <2>2. QED BY <2>1 DEF b
<1> HIDE DEF p, v
<1>7. p = [at |-> "move", addr |-> server.addr, p1 |-> server.p1, turn |-> server.turn,
           moves |-> v, board |-> b]
  <2>1. server = [at |-> "move", addr |-> server.addr, p1 |-> server.p1, turn |-> server.turn,
                  moves |-> server.moves, board |-> server.board]
    BY ServerIs
  <2>2. QED BY <1>6, <2>1
<1>8. p.turn = server.turn /\ p.board = b /\ p.moves = v
  BY <1>7, RecIs
<1>9. QED BY <1>2, <1>3, <1>5, <1>7, <1>8 DEF b, p, v

(* What the server makes of the board is what the game says of it. *)
LEMMA OutcomeIs ==
  ASSUME IInv, server.at = "move", NEW cell, Valid(server, cell)
  PROVE  LET b == [server.board EXCEPT ![cell] = Symbol[server.turn]]
             r == Outcome(Placed(server, cell))
         IN  /\ r = CASE XO!HasLine(b, Symbol[server.turn]) -> Symbol[server.turn]
                      [] ~XO!HasLine(b, Symbol[server.turn]) /\ (\A d \in Cells : b[d] # " ") -> "draw"
                      [] OTHER -> "playing"
             /\ r \in {"X", "O", "draw", "playing"}
             /\ r = "playing" => server.moves + 1 # 9
<1> DEFINE p == Placed(server, cell)
<1> DEFINE b == [server.board EXCEPT ![cell] = Symbol[server.turn]]
<1>1. /\ p.turn = server.turn /\ p.board = b /\ p.moves = server.moves + 1
      /\ Symbol[server.turn] \in {"X", "O"} /\ server.moves + 1 = Cardinality(Filled(b))
  BY PlacedIs
<1> HIDE DEF b, p
<1>2. check_winner(b, Symbol[server.turn]) <=> XO!HasLine(b, Symbol[server.turn])
  BY WinnerIsLine
<1>3. server.moves + 1 = 9 <=> \A d \in Cells : b[d] # " "
  BY <1>1, FilledIs
<1>4. Outcome(p) = CASE XO!HasLine(b, Symbol[server.turn]) -> Symbol[server.turn]
                     [] server.moves + 1 = 9 /\ ~XO!HasLine(b, Symbol[server.turn]) -> "draw"
                     [] OTHER -> "playing"
  BY <1>1, <1>2 DEF Outcome, check_draw
<1>5. CASE XO!HasLine(b, Symbol[server.turn])
  <2>1. Outcome(p) = Symbol[server.turn] BY <1>4, <1>5
  <2>2. Outcome(p) # "playing" BY <1>1, <2>1
  <2>3. QED BY <1>1, <1>5, <2>1, <2>2 DEF b, p
<1>6. CASE ~XO!HasLine(b, Symbol[server.turn]) /\ server.moves + 1 = 9
  <2>1. Outcome(p) = "draw" BY <1>4, <1>6
  <2>2. QED BY <1>3, <1>6, <2>1 DEF b, p
<1>7. CASE ~XO!HasLine(b, Symbol[server.turn]) /\ server.moves + 1 # 9
  <2>1. Outcome(p) = "playing" BY <1>4, <1>7
  <2>2. QED BY <1>3, <1>7, <2>1 DEF b, p
<1>8. QED BY <1>5, <1>6, <1>7

LEMMA PlayIs ==
  ASSUME IInv, server.at = "move", NEW c \in Clients, c = W, NEW cell, Valid(server, cell),
         server'.addr = server.addr, server'.board = [server.board EXCEPT ![cell] = Symbol[server.turn]],
         result' = Outcome(Placed(server, cell)),
         server'.turn = IF result' = "playing" THEN 3 - server.turn ELSE server.turn,
         UNCHANGED <<said, gone>>
  PROVE  XStep
<1>1. result = "playing" /\ c = server.addr[server.turn]
  BY DEF IInv, GameOK, W, Waits
<1>2. cell \in XO!Cells /\ server.board[cell] = " "
  BY DEF Valid, XO!Cells, Cells
<1>3. XO!Symbol = Symbol /\ XO!Cells = Cells
  BY DEF XO!Symbol, Symbol, XO!Cells, Cells
<1>4. result' = CASE XO!HasLine(server'.board, Symbol[server.turn]) -> Symbol[server.turn]
                  [] ~XO!HasLine(server'.board, Symbol[server.turn]) /\ (\A d \in Cells : server'.board[d] # " ") -> "draw"
                  [] OTHER -> "playing"
  <2> DEFINE b == [server.board EXCEPT ![cell] = Symbol[server.turn]]
  <2>1. Outcome(Placed(server, cell)) =
          CASE XO!HasLine(b, Symbol[server.turn]) -> Symbol[server.turn]
            [] ~XO!HasLine(b, Symbol[server.turn]) /\ (\A d \in Cells : b[d] # " ") -> "draw"
            [] OTHER -> "playing"
    BY OutcomeIs
  <2>2. server'.board = b /\ result' = Outcome(Placed(server, cell))
    OBVIOUS
  <2> HIDE DEF b
  <2>3. QED BY <2>1, <2>2
<1>5. XO!Play(c, cell)
  BY <1>1, <1>2, <1>3, <1>4 DEF XO!Play
<1>6. QED BY <1>2, <1>5 DEF XStep, XO!Next

LEMMA MovePlayed ==
  ASSUME IInv, NEW c \in Clients, NEW m, ReadOK(c, m), ServesTo(c, m), server.at = "move", Valid(server, m.cell),
         server' = Handled(server, m).server, down' = Sent(server', Handled(server, m).sends)
  PROVE  IInv' /\ XStep
<1> DEFINE ms == Handled(server, m).sends
<1> DEFINE p == Placed(server, m.cell)
<1> DEFINE b == [server.board EXCEPT ![m.cell] = Symbol[server.turn]]
<1>1. m.yes \in BOOLEAN BY DEF ReadOK
<1>2. /\ p = [at |-> "move", addr |-> server.addr, p1 |-> server.p1, turn |-> server.turn,
              moves |-> server.moves + 1, board |-> b]
      /\ b \in [Cells -> {" ", "X", "O"}] /\ server.moves + 1 = Cardinality(Filled(b))
      /\ p.turn = server.turn
  BY PlacedIs
<1>3. result = "playing" /\ (\A x \in Clients : said[x] = "") /\ UNCHANGED <<work, at, mute, gone, lost>> /\ said' = said
  BY DEF IInv, GameOK, ServesTo
<1>4. c = W /\ Busy BY DEF ReadOK
<1>5. Outcome(p) \in {"X", "O", "draw", "playing"} /\ (Outcome(p) = "playing" => server.moves + 1 # 9)
  BY OutcomeIs
<1>6. down' = Sent(server', ms) OBVIOUS
<1>7. ASSUME ServerRec(server'), server'.addr = server.addr, server'.board = b, Busy', Asking(server', ms),
             result' = Outcome(p), server'.turn = IF result' = "playing" THEN 3 - server.turn ELSE server.turn,
             GameOK'
      PROVE  IInv' /\ XStep
  <2>1. XStep
    BY <1>3, <1>4, <1>7, PlayIs
  <2>2. said'[W'] = ""
    <3>1. Waits(server') \in {1, 2} BY <1>7 DEF Busy, ServerRec, Waits
    <3>2. server.addr[1] \in Clients /\ server.addr[2] \in Clients BY <1>4, SeatsIs
    <3>3. W' \in Clients BY <1>7, <3>1, <3>2 DEF W
    <3>4. QED BY <1>3, <3>3
  <2>3. result' \in Results \cup {"playing", "closed"} BY <1>5, <1>7 DEF Results
  <2>4. IInv'
    BY <1>3, <1>6, <1>7, <2>2, <2>3, ServerIs, AfterRead
  <2>5. QED BY <2>1, <2>4
<1>8. CASE Outcome(p) = "playing"
  <2>1. server' = [p EXCEPT !.turn = 3 - p.turn] /\ Asking(server', ms)
    <3>1. ServerRec(server) /\ server.at \in {"ask1", "ask2", "move"} BY ServerIs
    <3>2. Handled(server, m).server = [p EXCEPT !.turn = 3 - p.turn] /\ Asking(Handled(server, m).server, ms)
      BY <1>1, <1>8, <3>1, HandledIs, Zenon
    <3>3. QED BY <3>2, Zenon
  <2> HIDE DEF p, b, ms
  <2>2. server' = [at |-> "move", addr |-> server.addr, p1 |-> server.p1, turn |-> 3 - server.turn,
                   moves |-> server.moves + 1, board |-> b]
    BY <1>2, <2>1
  <2>3. /\ server'.at = "move" /\ server'.addr = server.addr /\ server'.p1 = server.p1
        /\ server'.turn = 3 - server.turn /\ server'.moves = server.moves + 1 /\ server'.board = b
    BY <2>2, RecIs
  <2>4. 3 - server.turn \in {1, 2}
    <3>1. server.turn = 1 \/ server.turn = 2 BY ServerIs
    <3>2. QED BY <3>1
  <2>5. server'.moves = Cardinality(Filled(server'.board)) /\ server'.moves # 9
    <3>1. server.moves + 1 # 9 BY <1>5, <1>8
    <3>2. QED BY <1>2, <2>3, <3>1
  <2>6. ServerRec(server')
    BY <1>2, <2>2, <2>3, <2>4, <2>5, ServerIs DEF ServerRec, ServerStates
  <2>7. result' = "playing" BY <2>3 DEF ServesTo
  <2>8. GameOK' BY <1>3, <2>3, <2>7 DEF GameOK
  <2>9. Busy' BY <2>3 DEF Busy
  <2>10. QED BY <1>7, <1>8, <2>1, <2>3, <2>6, <2>7, <2>8, <2>9
<1>9. CASE Outcome(p) # "playing"
  <2>1. server' = [p EXCEPT !.at = "ask1"] /\ Asking(server', ms)
    <3>1. ServerRec(server) /\ server.at \in {"ask1", "ask2", "move"} BY ServerIs
    <3>2. Handled(server, m).server = [p EXCEPT !.at = "ask1"] /\ Asking(Handled(server, m).server, ms)
      BY <1>1, <1>9, <3>1, HandledIs, Zenon
    <3>3. QED BY <3>2, Zenon
  <2>2. result' = CASE server'.at = "left" -> "closed"
                    [] server'.at = "move" -> "playing"
                    [] server.at = "move" /\ server'.at = "ask1" -> Outcome(p)
                    [] OTHER -> result
    BY DEF ServesTo
  <2> HIDE DEF p, b, ms
  <2>3. server' = [at |-> "ask1", addr |-> server.addr, p1 |-> server.p1, turn |-> server.turn,
                   moves |-> server.moves + 1, board |-> b]
    BY <1>2, <2>1
  <2>4. /\ server'.at = "ask1" /\ server'.addr = server.addr /\ server'.p1 = server.p1
        /\ server'.turn = server.turn /\ server'.moves = server.moves + 1 /\ server'.board = b
    BY <2>3, RecIs
  <2>5. server'.moves = Cardinality(Filled(server'.board)) /\ server'.at # "move"
    BY <1>2, <2>4
  <2>6. ServerRec(server')
    BY <1>2, <2>3, <2>4, <2>5, ServerIs DEF ServerRec, ServerStates
  <2>7. result' = Outcome(p) BY <2>2, <2>4
  <2>8. GameOK'
    <3>1. result' \in Results BY <1>5, <1>9, <2>7 DEF Results
    <3>2. server.addr[2] \in Clients BY <1>4, SeatsIs
    <3>3. said'[server'.addr[2]] = "" BY <1>3, <2>4, <3>2
    <3>4. QED BY <2>4, <3>1, <3>3 DEF GameOK
  <2>9. Busy' BY <2>4 DEF Busy
  <2>10. QED BY <1>7, <1>9, <2>1, <2>4, <2>6, <2>7, <2>8, <2>9
<1>10. QED BY <1>8, <1>9

LEMMA ServesKeeps ==
  ASSUME IInv, NEW c \in Clients, Serves(c)
  PROVE  IInv' /\ XStep
<1>1. PICK m : ReadOK(c, m) /\ ServesTo(c, m)
  BY ServesIs
<1> DEFINE does == Handled(server, m)
<1>2. server.at \in {"ask1", "ask2", "move"} /\ m.yes \in BOOLEAN /\ ServerRec(server)
  BY <1>1, ServerIs DEF ReadOK, Busy
<1>3. \/ server' = does.server /\ down' = Sent(does.server, does.sends)
      \/ \E k \in DOMAIN does.sends :
           /\ server' = [server EXCEPT !.at = "killed"]
           /\ down' = Sent(does.server, SubSeq(does.sends, 1, k - 1))
  BY <1>1 DEF ServesTo, Proceeds
<1>4. CASE server' = does.server /\ down' = Sent(does.server, does.sends)
  <2>1. down' = Sent(server', does.sends) BY <1>4
  <2>2. CASE server.at = "ask1" BY <1>1, <1>4, <2>1, <2>2, FirstAnswer
  <2>3. CASE server.at = "ask2" /\ server.p1 /\ m.yes BY <1>1, <1>4, <2>1, <2>3, GameBegins
  <2>4. CASE server.at = "ask2" /\ ~(server.p1 /\ m.yes) BY <1>1, <1>4, <2>1, <2>4, ServerLeaves
  <2>5. CASE server.at = "move" /\ ~Valid(server, m.cell) BY <1>1, <1>4, <2>1, <2>5, MoveRejected
  <2>6. CASE server.at = "move" /\ Valid(server, m.cell) BY <1>1, <1>4, <2>1, <2>6, MovePlayed
  <2>7. QED BY <1>2, <2>2, <2>3, <2>4, <2>5, <2>6
<1>5. ASSUME NEW k \in DOMAIN does.sends, server' = [server EXCEPT !.at = "killed"],
             down' = Sent(does.server, SubSeq(does.sends, 1, k - 1))
      PROVE  IInv' /\ XStep
  <2>1. (Asking(does.server, does.sends) \/ Silent(does.sends)) /\ does.server.addr = server.addr
    <3>1. server = [at |-> server.at, addr |-> server.addr, p1 |-> server.p1, turn |-> server.turn,
                    moves |-> server.moves, board |-> server.board]
      BY ServerIs
    <3>2. CASE server.at = "ask1"
      <4>1. does.server = [server EXCEPT !.at = "ask2", !.p1 = m.yes] /\ Asking(does.server, does.sends)
        BY <1>2, <3>2, HandledIs, Zenon
      <4> HIDE DEF does
      <4>2. QED BY <3>1, <4>1
    <3>3. CASE server.at = "ask2" /\ server.p1 /\ m.yes
      <4>1. does.server = [server EXCEPT !.at = "move", !.turn = 1, !.moves = 0, !.board = initialize_board]
            /\ Asking(does.server, does.sends)
        BY <1>2, <3>3, HandledIs, Zenon
      <4> HIDE DEF does
      <4>2. QED BY <3>1, <4>1
    <3>4. CASE server.at = "ask2" /\ ~(server.p1 /\ m.yes)
      <4>1. does.server = [server EXCEPT !.at = "left"] /\ Silent(does.sends)
        BY <1>2, <3>4, HandledIs, Zenon
      <4> HIDE DEF does
      <4>2. QED BY <3>1, <4>1
    <3>5. CASE server.at = "move" /\ ~Valid(server, m.cell)
      <4>1. does.server = server /\ Asking(server, does.sends)
        BY <1>2, <3>5, HandledIs, Zenon
      <4>2. QED BY <4>1, Zenon
    <3>6. CASE server.at = "move" /\ Valid(server, m.cell)
      <4> DEFINE p == Placed(server, m.cell)
      <4>1. p = [server EXCEPT !.board[m.cell] = Symbol[server.turn], !.moves = server.moves + 1]
        BY DEF Placed
      <4>2. p.addr = server.addr /\ p = [at |-> p.at, addr |-> p.addr, p1 |-> p.p1, turn |-> p.turn,
                                         moves |-> p.moves, board |-> p.board]
        BY <3>1, <4>1
      <4>3. \/ does.server = [p EXCEPT !.turn = 3 - p.turn] /\ Asking(does.server, does.sends)
            \/ does.server = [p EXCEPT !.at = "ask1"] /\ Asking(does.server, does.sends)
        BY <1>2, <3>6, HandledIs, Zenon
      <4> HIDE DEF does, p
      <4>4. QED BY <4>2, <4>3
    <3>7. QED BY <1>2, <3>2, <3>3, <3>4, <3>5, <3>6
  <2>2. Silent(SubSeq(does.sends, 1, k - 1))
    BY <2>1, FirstSent
  <2>3. QED BY <1>1, <1>5, <2>1, <2>2, KilledKeeps
<1>6. QED BY <1>3, <1>4, <1>5

-----------------------------------------------------------------------------
(* The theorems.                                                            *)

LEMMA Starts ==
  ASSUME Init
  PROVE  IInv /\ XO!Init
<1>1. /\ server = [at |-> "accept", addr |-> <<>>, p1 |-> FALSE, turn |-> 1, moves |-> 0, board |-> initialize_board]
      /\ result = "none" /\ work \in Works
      /\ down = [c \in Clients |-> <<>>] /\ up = [c \in Clients |-> <<>>]
      /\ at = [c \in Clients |-> "new"] /\ said = Nobody
      /\ gone = {} /\ lost = 0
  BY DEF Init, ServerInit
<1>2. /\ server.at = "accept" /\ server.addr = <<>> /\ server.p1 = FALSE /\ server.turn = 1
      /\ server.moves = 0 /\ server.board = initialize_board
  BY <1>1, RecIs
<1>3. Len(<<>>) = 0 /\ <<>> \in Seq(Clients) /\ IsList(<<>>) /\ NoPrompt(<<>>) /\ NoExit(<<>>)
  BY NothingSent DEF NoPrompt, NoExit
<1>4. ServerRec(server)
  <2>1. server.moves = Cardinality(Filled(server.board)) BY <1>2, EmptyIs
  <2>2. QED BY <1>1, <1>2, <1>3, <2>1, EmptyIs DEF ServerRec, ServerStates
<1>5. TypeInv
  BY <1>1, <1>3, <1>4, NobodySaid DEF TypeInv, ClientStates, Results
<1>6. \A c \in Clients : Unasked(c) /\ ~Player(c) /\ said[c] = ""
  <2>1. \A c \in Clients : Unasked(c) BY <1>1, <1>3 DEF Unasked, Prompts
  <2>2. \A c \in Clients : ~Player(c) BY <1>2, <1>3 DEF Player
  <2>3. QED BY <1>1, <2>1, <2>2, NobodySaid
<1>7. PeopleOK BY <1>1, <1>3, <1>6 DEF PeopleOK
<1>8. AcceptOK
  <2>1. Len(server.addr) < 2 BY <1>2, <1>3
  <2>2. QED BY <1>1, <1>6, <2>1 DEF AcceptOK
<1>9. BusyOK /\ OverOK /\ GameOK BY <1>2, <1>6 DEF BusyOK, OverOK, GameOK, Busy, Over
<1>10. XO!Init
  BY <1>1, <1>2 DEF XO!Init, XO!EmptyBoard, XO!Quiet, XO!Cells, initialize_board, Cells, Nobody
<1>11. QED BY <1>5, <1>7, <1>8, <1>9, <1>10 DEF IInv

LEMMA Steps ==
  ASSUME IInv, [Next]_vars
  PROVE  IInv' /\ XStep
<1>1. CASE UNCHANGED vars
  <2>1. TypeInv' /\ GameOK' BY <1>1 DEF vars, IInv, TypeInv, GameOK
  <2>2. /\ \A c : (Player(c)' <=> Player(c)) /\ (Unasked(c)' <=> Unasked(c)) /\ (NoToken(c)' <=> NoToken(c))
        /\ (Busy' <=> Busy) /\ (Over' <=> Over) /\ (Faults' <=> Faults) /\ W' = W /\ Kind' = Kind /\ (Tcp' <=> Tcp)
    BY <1>1 DEF vars, Player, Unasked, NoToken, Busy, Over, Faults, W, Kind, Tcp
  <2>3. PeopleOK' /\ AcceptOK' /\ OverOK'
    BY <1>1, <2>2 DEF vars, IInv, PeopleOK, AcceptOK, OverOK
  <2>4. Token(W)' <=> Token(W)
    BY <1>1, <2>2 DEF vars, Token
  <2>5. BusyOK'
    BY <1>1, <2>2, <2>4 DEF vars, IInv, BusyOK
  <2>6. IInv' BY <2>1, <2>3, <2>5 DEF IInv
  <2>7. XStep BY <1>1 DEF vars, XStep
  <2>8. QED BY <2>6, <2>7
<1>2. CASE Settled BY <1>1, <1>2 DEF Settled
<1>3. ASSUME NEW c \in Clients, Step(c) PROVE IInv' /\ XStep
  <2>1. CASE Accepts(c) BY <2>1, AcceptsKeeps
  <2>2. CASE Serves(c) BY <2>2, ServesKeeps
  <2>3. CASE Connect(c) BY <2>3, ConnectKeeps
  <2>4. CASE Reads(c) BY <2>4, ReadsKeeps
  <2>5. CASE Answers(c) BY <2>5, AnswersKeeps
  <2>6. CASE Moves(c) BY <2>6, MovesKeeps
  <2>7. CASE Quits(c) BY <2>7, QuitsKeeps
  <2>8. CASE Loses(c) BY <2>8, LosesKeeps
  <2>9. QED BY <1>3, <2>1, <2>2, <2>3, <2>4, <2>5, <2>6, <2>7, <2>8 DEF Step
<1>4. QED BY <1>1, <1>2, <1>3 DEF Next

(* There is one question, answer or text on its way at a time, to or from *)
(* the player the server waits for, in every state.                       *)
THEOREM AlwaysOneToken == Spec => []IInv
<1>1. Init => IInv BY Starts
<1>2. IInv /\ [Next]_vars => IInv' BY Steps
<1>3. QED BY <1>1, <1>2, PTL DEF Spec

(* The player the server waits for is asked, or is answering, or the answer *)
(* is on its way, unless a datagram was lost, a player left or a move had   *)
(* no byte to send.                                                         *)
THEOREM NobodyIsStuck == Spec => []NobodyStuck
<1>1. ASSUME IInv PROVE NobodyStuck
  <2> SUFFICES ASSUME Waits(server) # 0, lost = 0, gone = {}, mute = {} PROVE Asked(W)
    BY DEF NobodyStuck, W
  <2>1. Busy
    BY <1>1, ServerIs DEF Waits, Busy, ServerRec, ServerStates
  <2>2. Token(W) /\ ~Faults
    BY <1>1, <2>1 DEF IInv, BusyOK, Faults
  <2>3. W \in Clients BY <1>1, <2>1, SeatsIs
  <2>4. Kind \in {"do", "your"} BY DEF Kind
  <2>5. CASE OnePrompt(down[W], Kind)
    <3>1. PICK j \in 1..Len(down[W]) : down[W][j][1] = Kind BY <2>5 DEF OnePrompt
    <3>2. j \in DOMAIN down[W]
      <4>1. IsList(down[W]) BY <1>1, <2>3, PersonIs
      <4>2. DOMAIN down[W] = 1..Len(down[W]) BY <4>1 DEF IsList
      <4>3. QED BY <4>2
    <3>3. QED BY <2>4, <3>1, <3>2 DEF Asked
  <2>6. CASE at[W] = Kind BY <2>4, <2>6 DEF Asked
  <2>7. CASE \E m : up[W] = <<m>> BY <2>7 DEF Asked
  <2>8. QED BY <2>2, <2>5, <2>6, <2>7 DEF Token
<1>2. QED BY <1>1, AlwaysOneToken, PTL

(* The two programs play noughts and crosses, over either network. *)
THEOREM ServerPlaysXO == Spec => PlaysXO
<1>1. Init => XO!Init BY Starts
<1>2. IInv /\ [Next]_vars => [XO!Next]_<<server.addr, said, gone, server.board, server.turn, result>>
  BY Steps DEF XStep
<1>3. QED BY <1>1, <1>2, AlwaysOneToken, PTL DEF Spec, PlaysXO, XO!Spec
=============================================================================
