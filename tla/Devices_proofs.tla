---------------------------- MODULE Devices_proofs ----------------------------
(* Proofs about Devices, for any number of harts, processes, buffers and    *)
(* descriptors, any sizes of the rings and any workloads.                   *)
EXTENDS DevicesInvariant, SequenceTheorems, FiniteSetTheorems, TLAPS

-----------------------------------------------------------------------------
(* Lists.                                                                  *)

LEMMA Single ==
  ASSUME NEW a
  PROVE  IsList(<<a>>) /\ <<a>> # <<>> /\ Head(<<a>>) = a /\ Tail(<<a>>) = <<>>
<1>1. <<a>> \in Seq({a}) OBVIOUS
<1>2. IsList(<<a>>) BY <1>1 DEF IsList
<1> QED BY <1>2

LEMMA Empty == IsList(<<>>)
<1>1. <<>> \in Seq({}) OBVIOUS
<1> QED BY <1>1 DEF IsList

LEMMA OnTop ==
  ASSUME NEW a, NEW s, IsList(s)
  PROVE  /\ IsList(<<a>> \o s) /\ <<a>> \o s # <<>>
         /\ Head(<<a>> \o s) = a /\ Tail(<<a>> \o s) = s
<1>1. PICK S : s \in Seq(S) BY DEF IsList
<1>2. PICK T : T = S \cup {a} OBVIOUS
<1>3. PICK l : l = <<a>> \o s OBVIOUS
<1>4. s \in Seq(T) /\ <<a>> \in Seq(T) /\ Len(<<a>>) = 1 /\ Len(s) \in Nat
  BY <1>1, <1>2, SeqMonotonic
<1>5. l \in Seq(T) /\ Len(l) = 1 + Len(s) /\ l[1] = a /\ \A i \in 1..Len(s) : l[i + 1] = s[i]
  BY <1>3, <1>4, ConcatProperties
<1>6. l # <<>> BY <1>4, <1>5
<1>7. Head(l) = a BY <1>5, <1>6
<1>8. Tail(l) \in Seq(T) /\ Len(Tail(l)) = Len(s) BY <1>4, <1>5, <1>6
<1>9. \A i \in 1..Len(s) : Tail(l)[i] = s[i] BY <1>4, <1>5, <1>6, <1>8
<1>10. Tail(l) = s BY <1>4, <1>8, <1>9, SeqEqual
<1>11. IsList(l) BY <1>5 DEF IsList
<1> QED BY <1>3, <1>6, <1>7, <1>10, <1>11

LEMMA Pop ==
  ASSUME NEW s, IsList(s)
  PROVE  <<>> \o s = s /\ (s # <<>> => IsList(Tail(s)))
<1>1. PICK S : s \in Seq(S) BY DEF IsList
<1>2. s # <<>> => IsList(Tail(s)) BY <1>1 DEF IsList
<1>3. <<>> \o s = s BY <1>1, ConcatEmptySeq
<1> QED BY <1>2, <1>3

(* What Goto() leaves when more frames go on before the list s. *)
LEMMA OnTopMore ==
  ASSUME NEW a, NEW fs, IsList(fs), NEW s, IsList(s)
  PROVE  (<<a>> \o fs) \o s = <<a>> \o (fs \o s)
<1>1. PICK S : s \in Seq(S) BY DEF IsList
<1>2. PICK F : fs \in Seq(F) BY DEF IsList
<1> DEFINE T == (S \cup F) \cup {a}
<1>3. s \in Seq(T) /\ fs \in Seq(T) /\ <<a>> \in Seq(T) BY <1>1, <1>2, SeqMonotonic
<1> HIDE DEF T
<1> QED BY <1>3, ConcatAssociative

LEMMA Joined ==
  ASSUME NEW a, NEW b
  PROVE  /\ <<a, b>> = <<a>> \o <<b>> /\ <<a>> \o <<>> = <<a>>
<1> DEFINE T == {a, b}
<1>1. <<a>> \in Seq(T) /\ <<b>> \in Seq(T) /\ <<a, b>> \in Seq(T) OBVIOUS
<1> HIDE DEF T
<1>2. <<a>> \o <<>> = <<a>> BY <1>1, ConcatEmptySeq
<1> DEFINE l == <<a>> \o <<b>>
<1>3. l \in Seq(T) /\ Len(l) = 2 /\ l[1] = a /\ l[2] = b BY <1>1, ConcatProperties
<1> HIDE DEF l
<1>4. l = <<a, b>> BY <1>1, <1>3, SeqEqual
<1> QED BY <1>2, <1>4 DEF l

LEMMA OnTopTwo ==
  ASSUME NEW a, NEW b, NEW s, IsList(s)
  PROVE  <<a, b>> \o s = <<a>> \o (<<b>> \o s)
BY Joined, Single, OnTopMore

-----------------------------------------------------------------------------
(* The record of a hart.                                                   *)

LEMMA PushOffFacts ==
  ASSUME NEW c \in HartRec
  PROVE  /\ PushOff(c) \in HartRec
         /\ PushOff(c).proc = c.proc /\ PushOff(c).noff = c.noff + 1 /\ ~PushOff(c).intr
         /\ PushOff(c).intena = IF c.noff = 0 THEN c.intr ELSE c.intena
<1>1. PushOff(c).proc = c.proc /\ PushOff(c).noff = c.noff + 1 /\ ~PushOff(c).intr
  BY DEF HartRec, PushOff
<1>2. PushOff(c).intena = IF c.noff = 0 THEN c.intr ELSE c.intena BY DEF HartRec, PushOff
<1>3. PushOff(c) \in HartRec
  <2>1. \A n \in Nat, a \in BOOLEAN : [c EXCEPT !.intr = FALSE, !.noff = n, !.intena = a] \in HartRec
    BY DEF HartRec
  <2>2. c.noff + 1 \in Nat BY DEF HartRec
  <2>3. PICK a \in BOOLEAN : a = IF c.noff = 0 THEN c.intr ELSE c.intena BY DEF HartRec
  <2>4. PushOff(c) = [c EXCEPT !.intr = FALSE, !.noff = c.noff + 1, !.intena = a]
    BY <2>3 DEF PushOff, HartRec
  <2> QED BY <2>1, <2>2, <2>4, Zenon
<1> QED BY <1>1, <1>2, <1>3

LEMMA PopOffFacts ==
  ASSUME NEW c \in HartRec
  PROVE  /\ c.noff > 0 => PopOff(c) \in HartRec
         /\ PopOff(c).proc = c.proc /\ PopOff(c).noff = c.noff - 1 /\ PopOff(c).intena = c.intena
         /\ PopOff(c).intr <=> c.noff = 1 /\ c.intena
<1>1. PopOff(c).proc = c.proc /\ PopOff(c).noff = c.noff - 1 /\ PopOff(c).intena = c.intena
  BY DEF HartRec, PopOff
<1>2. PopOff(c).intr <=> c.noff = 1 /\ c.intena BY DEF HartRec, PopOff
<1>3. c.noff > 0 => PopOff(c) \in HartRec
  <2>1. \A n \in Nat, i \in BOOLEAN : [c EXCEPT !.noff = n, !.intr = i] \in HartRec BY DEF HartRec
  <2>2. c.noff > 0 => c.noff - 1 \in Nat BY DEF HartRec
  <2>3. PICK i \in BOOLEAN : i = (c.noff = 1 /\ c.intena) OBVIOUS
  <2>4. PopOff(c) = [c EXCEPT !.noff = c.noff - 1, !.intr = i] BY <2>3 DEF PopOff, HartRec
  <2> QED BY <2>1, <2>2, <2>4, Zenon
<1> QED BY <1>1, <1>2, <1>3

LEMMA LeftFacts ==
  ASSUME NEW c \in HartRec
  PROVE  /\ LeftTo(c, 1) \in HartRec /\ LeftTo(c, 1).proc = None /\ LeftTo(c, 1).noff = 0
         /\ Yielded(c) \in HartRec /\ Yielded(c).proc = None /\ Yielded(c).noff = 0
<1>1. ASSUME NEW d \in HartRec
      PROVE  LeftTo(d, 1) \in HartRec /\ LeftTo(d, 1).proc = None /\ LeftTo(d, 1).noff = 0
  <2>1. PICK e : e = [d EXCEPT !.noff = 1] OBVIOUS
  <2>2. e \in HartRec /\ e.noff = 1 BY <1>1, <2>1 DEF HartRec
  <2>3. PopOff(e) \in HartRec /\ PopOff(e).noff = 0 BY <2>2, PopOffFacts
  <2>4. LeftTo(d, 1) = [PopOff(e) EXCEPT !.proc = None] BY <2>1 DEF LeftTo
  <2> QED BY <2>3, <2>4 DEF HartRec
<1>2. [c EXCEPT !.intena = FALSE] \in HartRec BY DEF HartRec
<1>3. PICK e \in HartRec : e = LeftTo([c EXCEPT !.intena = FALSE], 1) BY <1>1, <1>2
<1>4. e.proc = None /\ e.noff = 0 BY <1>1, <1>2, <1>3
<1>5. Yielded(c) = [e EXCEPT !.intr = FALSE] BY <1>3 DEF Yielded
<1>6. Yielded(c) \in HartRec /\ Yielded(c).proc = None /\ Yielded(c).noff = 0
  BY <1>4, <1>5 DEF HartRec
<1> QED BY <1>1, <1>6

-----------------------------------------------------------------------------
(* The three kinds of steps.                                               *)

LEMMA WakesFacts ==
  ASSUME HInv
  PROVE  Wakes(proc) /\ \A chan : Wakes(Woken(proc, chan))
<1>1. proc = [p \in Procs |-> proc[p]] /\ \A p \in Procs : ProcRec(proc[p]) BY Zenon DEF HInv, HType
<1>2. Wakes(proc) BY <1>1 DEF Wakes
<1>3. ASSUME NEW chan PROVE Wakes(Woken(proc, chan))
  <2> DEFINE w == Woken(proc, chan)
  <2>1. w = [p \in Procs |-> w[p]] BY DEF Woken
  <2>2. ASSUME NEW p \in Procs
        PROVE  ProcRec(w[p]) /\ (w[p].state = proc[p].state \/ (proc[p].state = "SLEEPING" /\ w[p].state = "RUNNABLE"))
    <3>1. proc[p] = [state |-> proc[p].state, chan |-> proc[p].chan, killed |-> proc[p].killed] /\ proc[p].state \in States
      BY <1>1 DEF ProcRec
    <3>2. w[p] = proc[p] \/ (proc[p].state = "SLEEPING" /\ w[p] = [proc[p] EXCEPT !.state = "RUNNABLE", !.chan = None])
      BY DEF Woken
    <3>3. CASE w[p] = proc[p] BY <1>1, <3>3
    <3>4. CASE proc[p].state = "SLEEPING" /\ w[p] = [proc[p] EXCEPT !.state = "RUNNABLE", !.chan = None]
      <4>1. w[p] = [state |-> "RUNNABLE", chan |-> None, killed |-> proc[p].killed] BY <3>1, <3>4
      <4> HIDE DEF w
      <4> QED BY <3>4, <4>1 DEF ProcRec, States
    <3> QED BY <3>2, <3>3, <3>4
  <2> HIDE DEF w
  <2>3. Wakes(w) BY <2>1, <2>2 DEF Wakes
  <2> QED BY <2>3 DEF w
<1> QED BY <1>2, <1>3

(* A hart other than the one that moves. *)
LEMMA Untouched ==
  ASSUME HInv, NEW g \in Harts,
         hart'[g] = hart[g], stack'[Cur(g)] = stack[Cur(g)],
         \A lk \in Locks : lock'[lk] = g <=> lock[lk] = g
  PROVE  Mode(Cur(g), hart[g], stack[Cur(g)], LocksOf(g))'
<1>1. Cur(g)' = Cur(g) BY DEF Cur
<1>2. LocksOf(g)' = LocksOf(g) BY DEF LocksOf
<1>3. Mode(Cur(g), hart[g], stack[Cur(g)], LocksOf(g)) BY DEF HInv, ModeOK
<1>4. stack'[Cur(g)'] = stack[Cur(g)] BY <1>1
<1> QED BY <1>1, <1>2, <1>3, <1>4

LEMMA CurFacts ==
  ASSUME HInv, NEW h \in Harts
  PROVE  /\ Cur(h) \in Procs \cup Harts
         /\ hart[h].proc # None => Cur(h) = hart[h].proc /\ Cur(h) \in Procs
         /\ hart[h].proc = None => Cur(h) = h /\ Cur(h) \notin Procs
         /\ hart[h] \in HartRec
         /\ IsList(stack[Cur(h)])
         /\ \A g \in Harts : g # h => Cur(g) # Cur(h)
<1>1. hart[h] \in HartRec /\ hart[h].proc \in Procs \cup {None} BY Zenon DEF HInv, HType, HartRec
<1>2. Procs \cap Harts = {} /\ None \notin Procs \cup Harts BY HartsAssumption
<1>3. \A g \in Harts : hart[g].proc \in Procs \cup {None} BY Zenon DEF HInv, HType, HartRec
<1>4. \A g \in Harts : g # h => Cur(g) # Cur(h) BY <1>1, <1>2, <1>3 DEF Cur, HInv, RunOK
<1>5. Cur(h) \in Procs \cup Harts BY <1>1 DEF Cur
<1>6. IsList(stack[Cur(h)]) BY <1>5, Zenon DEF HInv, HType
<1> QED BY <1>1, <1>2, <1>4, <1>5, <1>6 DEF Cur

(* The hart goes on with the same process or without one. *)
LEMMA LocalStep ==
  ASSUME HInv, NEW h \in Harts, NEW c \in HartRec, NEW s, IsList(s), NEW H,
         hart' = [hart EXCEPT ![h] = c], c.proc = hart[h].proc,
         stack' = [stack EXCEPT ![Cur(h)] = s],
         lock' \in [Locks -> Harts \cup {None}],
         \A lk \in Locks : lock'[lk] = lock[lk] \/ (lock[lk] \in {h, None} /\ lock'[lk] \in {h, None}),
         LocksOf(h)' = H, Mode(Cur(h), c, s, H),
         Wakes(proc')
  PROVE  HInv'
<1>1. /\ hart' \in [Harts -> HartRec] /\ hart'[h] = c
      /\ \A g \in Harts : g # h => hart'[g] = hart[g]
      /\ \A g \in Harts : hart'[g].proc = hart[g].proc
  BY DEF HInv, HType
<1>2. /\ stack' = [x \in Procs \cup Harts |-> stack'[x]]
      /\ stack'[Cur(h)] = s
      /\ \A x \in Procs \cup Harts : x # Cur(h) => stack'[x] = stack[x]
  BY CurFacts DEF HInv, HType
<1>3. \A x \in Procs \cup Harts : IsList(stack'[x]) BY <1>2 DEF HInv, HType
<1>4. HType' BY <1>1, <1>2, <1>3 DEF HType, Wakes
<1>5. RunOK'
  <2>1. \A p \in Procs : proc'[p].state = "RUNNING" <=> proc[p].state = "RUNNING" BY DEF Wakes
  <2>2. \A g \in Harts : hart'[g].proc # None => stack'[g] = <<>>
    BY <1>1, <1>2, CurFacts, HartsAssumption DEF HInv, RunOK
  <2>3. ASSUME NEW p \in Procs, proc'[p].state \in {"RUNNABLE", "SLEEPING"} PROVE Parked(p, stack'[p])
    <3>1. proc[p].state \in {"RUNNABLE", "SLEEPING"} BY <2>3 DEF Wakes
    <3>2. p # Cur(h) BY <3>1, CurFacts DEF HInv, RunOK
    <3> QED BY <1>2, <3>1, <3>2 DEF HInv, RunOK
  <2> QED BY <1>1, <2>1, <2>2, <2>3 DEF RunOK, HInv
<1>6. ModeOK'
  <2>1. ASSUME NEW g \in Harts PROVE Mode(Cur(g), hart[g], stack[Cur(g)], LocksOf(g))'
    <3>1. CASE g = h
      <4>1. Cur(h)' = Cur(h) BY <1>1 DEF Cur
      <4>2. stack'[Cur(h)'] = s BY <1>2, <4>1
      <4> QED BY <1>1, <3>1, <4>1, <4>2
    <3>2. CASE g # h
      <4>1. Cur(g) # Cur(h) /\ Cur(g) \in Procs \cup Harts BY <3>2, CurFacts
      <4>2. stack'[Cur(g)] = stack[Cur(g)] BY <1>2, <4>1
      <4>3. \A lk \in Locks : lock'[lk] = g <=> lock[lk] = g BY <3>2, HartsAssumption
      <4> QED BY <1>1, <3>2, <4>2, <4>3, Untouched
    <3> QED BY <3>1, <3>2
  <2> QED BY <2>1 DEF ModeOK
<1> QED BY <1>4, <1>5, <1>6 DEF HInv

(* The process leaves the hart, which goes on with the scheduler. *)
LEMMA LeaveStep ==
  ASSUME HInv, NEW h \in Harts, NEW c \in HartRec, NEW p \in Procs, NEW s, IsList(s), NEW ps, Wakes(ps),
         hart[h].proc = p, hart' = [hart EXCEPT ![h] = c], c.proc = None, c.noff = 0,
         stack' = [stack EXCEPT ![p] = s],
         lock' \in [Locks -> Harts \cup {None}],
         \A lk \in Locks : lock'[lk] = lock[lk] \/ (lock[lk] = h /\ lock'[lk] = None),
         \A lk \in Locks : lock'[lk] # h,
         proc' = [ps EXCEPT ![p] = proc'[p]], ProcRec(proc'[p]),
         \/ proc'[p].state \in {"RUNNABLE", "SLEEPING"} /\ Parked(p, s)
         \/ proc'[p].state = "ZOMBIE"
  PROVE  HInv'
<1>1. /\ hart' \in [Harts -> HartRec] /\ hart'[h] = c
      /\ \A g \in Harts : g # h => hart'[g] = hart[g]
  BY DEF HInv, HType
<1>2. /\ stack' = [x \in Procs \cup Harts |-> stack'[x]]
      /\ stack'[p] = s
      /\ \A x \in Procs \cup Harts : x # p => stack'[x] = stack[x]
  BY DEF HInv, HType
<1>3. \A x \in Procs \cup Harts : IsList(stack'[x]) BY <1>2 DEF HInv, HType
<1>4. /\ proc' = [q \in Procs |-> proc'[q]]
      /\ \A q \in Procs : q # p => proc'[q] = ps[q]
  BY DEF Wakes
<1>5. HType' BY <1>1, <1>2, <1>3, <1>4 DEF HType, Wakes
<1>6. None \notin Procs /\ None \notin Harts /\ Procs \cap Harts = {} BY HartsAssumption
<1>7. \A g \in Harts : g # h => hart[g].proc # p BY <1>6 DEF HInv, RunOK
<1>8. RunOK'
  <2>1. ASSUME NEW q \in Procs PROVE proc'[q].state = "RUNNING" <=> \E g \in Harts : hart'[g].proc = q
    <3>1. CASE q = p
      <4>1. \A g \in Harts : hart'[g].proc # p BY <1>1, <1>6, <1>7
      <4> QED BY <3>1, <4>1
    <3>2. CASE q # p
      <4>1. proc'[q].state = "RUNNING" <=> proc[q].state = "RUNNING" BY <1>4, <3>2 DEF Wakes
      <4>2. proc[q].state = "RUNNING" <=> \E g \in Harts : hart[g].proc = q BY DEF HInv, RunOK
      <4>3. \A g \in Harts : hart'[g].proc = q <=> hart[g].proc = q BY <1>1, <1>6, <3>2
      <4> QED BY <4>1, <4>2, <4>3
    <3> QED BY <3>1, <3>2
  <2>2. \A f, g \in Harts : hart'[f].proc = hart'[g].proc /\ f # g => hart'[f].proc = None
    BY <1>1 DEF HInv, RunOK
  <2>3. \A g \in Harts : hart'[g].proc # None => stack'[g] = <<>>
    BY <1>1, <1>2, <1>6 DEF HInv, RunOK
  <2>4. ASSUME NEW q \in Procs, proc'[q].state \in {"RUNNABLE", "SLEEPING"} PROVE Parked(q, stack'[q])
    <3>1. CASE q = p BY <1>2, <2>4, <3>1
    <3>2. CASE q # p
      <4>1. proc[q].state \in {"RUNNABLE", "SLEEPING"} BY <1>4, <2>4, <3>2 DEF Wakes
      <4> QED BY <1>2, <3>2, <4>1 DEF HInv, RunOK
    <3> QED BY <3>1, <3>2
  <2> QED BY <2>1, <2>2, <2>3, <2>4 DEF RunOK
<1>9. ModeOK'
  <2>1. ASSUME NEW g \in Harts PROVE Mode(Cur(g), hart[g], stack[Cur(g)], LocksOf(g))'
    <3>1. CASE g = h
      <4>1. Cur(h)' = h /\ h \notin Procs BY <1>1, <1>6 DEF Cur
      <4>2. stack'[h] = <<>> BY <1>2, <1>6, <4>1 DEF HInv, RunOK
      <4>3. LocksOf(h)' = {} BY DEF LocksOf
      <4>4. Mode(h, c, <<>>, {}) BY <4>1 DEF Mode, Base
      <4> QED BY <1>1, <3>1, <4>1, <4>2, <4>3, <4>4
    <3>2. CASE g # h
      <4>1. Cur(h) = p BY <1>6 DEF Cur
      <4>2. Cur(g) # p /\ Cur(g) \in Procs \cup Harts BY <3>2, <4>1, CurFacts
      <4>3. stack'[Cur(g)] = stack[Cur(g)] BY <1>2, <4>2
      <4>4. \A lk \in Locks : lock'[lk] = g <=> lock[lk] = g BY <1>6, <3>2
      <4> QED BY <1>1, <3>2, <4>3, <4>4, Untouched
    <3> QED BY <3>1, <3>2
  <2> QED BY <2>1 DEF ModeOK
<1> QED BY <1>5, <1>8, <1>9 DEF HInv

-----------------------------------------------------------------------------
(* What the running frame says of the hart.                                *)

LEMMA ModeOf ==
  ASSUME HInv, NEW h \in Harts
  PROVE  Mode(Cur(h), hart[h], stack[Cur(h)], LocksOf(h))
BY DEF HInv, ModeOK

LEMMA CallTop ==
  ASSUME HInv, NEW h \in Harts, stack[Cur(h)] # <<>>, Head(stack[Cur(h)]).at \in CallAts
  PROVE  \E lk \in Locks :
           /\ InCall(stack[Cur(h)], lk) /\ LocksOf(h) = {lk}
           /\ hart[h].noff = 1 /\ ~hart[h].intr /\ hart[h].intena
           /\ Cur(h) \in Procs /\ hart[h].proc \in Procs /\ Cur(h) = hart[h].proc
<1>1. Mode(Cur(h), hart[h], stack[Cur(h)], LocksOf(h)) BY ModeOf
<1>2. \E lk \in Locks : /\ InCall(stack[Cur(h)], lk) /\ LocksOf(h) = {lk}
                        /\ hart[h].noff = 1 /\ ~hart[h].intr /\ hart[h].intena /\ Cur(h) \in Procs
  BY <1>1, Zenon DEF Mode, Base, InTrap, HandlerFrame, CallAts
<1>3. hart[h].proc # None BY <1>2, CurFacts, SMTT(30)
<1> QED BY <1>2, <1>3, CurFacts

LEMMA TrapTop ==
  ASSUME HInv, NEW h \in Harts, stack[Cur(h)] # <<>>, Head(stack[Cur(h)]).at \in TrapAts
  PROVE  \E lk \in Locks : /\ InTrap(Cur(h), stack[Cur(h)], lk) /\ LocksOf(h) = {lk}
                           /\ hart[h].noff = 1 /\ ~hart[h].intr /\ ~hart[h].intena
<1>1. Mode(Cur(h), hart[h], stack[Cur(h)], LocksOf(h)) BY ModeOf
<1> QED BY <1>1 DEF Mode, Base, InCall, CallFrame, TrapAts

LEMMA SpinTop ==
  ASSUME HInv, NEW h \in Harts, stack[Cur(h)] # <<>>, Head(stack[Cur(h)]).at = "spin"
  PROVE  \E lk \in Locks :
           /\ lk = Head(stack[Cur(h)]).lk /\ LocksOf(h) = {} /\ hart[h].noff = 1 /\ ~hart[h].intr
           /\ \/ hart[h].intena /\ Cur(h) \in Procs /\ InCall(Tail(stack[Cur(h)]), lk)
              \/ ~hart[h].intena /\ InTrap(Cur(h), Tail(stack[Cur(h)]), lk)
<1>1. Mode(Cur(h), hart[h], stack[Cur(h)], LocksOf(h)) BY ModeOf
<1> QED BY <1>1, Zenon DEF Mode, Base, InCall, CallFrame, InTrap, HandlerFrame

LEMMA QuietTop ==
  ASSUME HInv, NEW h \in Harts, stack[Cur(h)] # <<>>,
         Head(stack[Cur(h)]).at \in {"acquiresleep", "deref", "reacquire"}
  PROVE  /\ Base(Cur(h), stack[Cur(h)]) /\ LocksOf(h) = {} /\ hart[h].noff = 0 /\ hart[h].intr
         /\ Cur(h) \in Procs /\ hart[h].proc \in Procs /\ Cur(h) = hart[h].proc
<1>1. Mode(Cur(h), hart[h], stack[Cur(h)], LocksOf(h)) BY ModeOf
<1>2. /\ Base(Cur(h), stack[Cur(h)]) /\ LocksOf(h) = {} /\ hart[h].noff = 0 /\ hart[h].intr
      /\ Cur(h) \in Procs
  BY <1>1, Zenon DEF Mode, Base, InCall, CallFrame, InTrap, HandlerFrame
<1> QED BY <1>2, CurFacts

LEMMA ReturnTop ==
  ASSUME HInv, NEW h \in Harts, stack[Cur(h)] # <<>>, Head(stack[Cur(h)]).at \in {"uartintr", "trapret"}
  PROVE  /\ Base(Cur(h), Tail(stack[Cur(h)])) /\ LocksOf(h) = {} /\ hart[h].noff = 0 /\ ~hart[h].intr
         /\ Head(stack[Cur(h)]).at = "trapret" => Cur(h) \in Procs
<1>1. Mode(Cur(h), hart[h], stack[Cur(h)], LocksOf(h)) BY ModeOf
<1> QED BY <1>1, Zenon DEF Mode, Base, InCall, CallFrame, InTrap, HandlerFrame

LEMMA NoFrame ==
  ASSUME HInv, NEW h \in Harts, stack[Cur(h)] = <<>>
  PROVE  LocksOf(h) = {} /\ hart[h].noff = 0 /\ (hart[h].proc # None => hart[h].intr)
<1>1. Mode(Cur(h), hart[h], stack[Cur(h)], LocksOf(h)) BY ModeOf
<1>2. LocksOf(h) = {} /\ hart[h].noff = 0 /\ (Cur(h) \in Procs => hart[h].intr)
  BY <1>1 DEF Mode, InCall, InTrap
<1> QED BY <1>2, CurFacts

LEMMA Interruptible ==
  ASSUME HInv, NEW h \in Harts, hart[h].intr
  PROVE  Base(Cur(h), stack[Cur(h)]) /\ LocksOf(h) = {} /\ hart[h].noff = 0
<1>1. Mode(Cur(h), hart[h], stack[Cur(h)], LocksOf(h)) BY ModeOf
<1> QED BY <1>1 DEF Mode

-----------------------------------------------------------------------------
(* Locks.                                                                  *)

LEMMA Taken ==
  ASSUME HInv, NEW h \in Harts, NEW lk \in Locks, lock[lk] = None, LocksOf(h) = {},
         lock' = [lock EXCEPT ![lk] = h]
  PROVE  /\ lock' \in [Locks -> Harts \cup {None}]
         /\ \A l \in Locks : lock'[l] = lock[l] \/ (lock[l] \in {h, None} /\ lock'[l] \in {h, None})
         /\ LocksOf(h)' = {lk}
<1>1. lock \in [Locks -> Harts \cup {None}] BY DEF HInv, HType
<1> QED BY <1>1 DEF LocksOf

LEMMA Given ==
  ASSUME HInv, NEW h \in Harts, NEW lk \in Locks, LocksOf(h) = {lk},
         lock' = [lock EXCEPT ![lk] = None]
  PROVE  /\ lock' \in [Locks -> Harts \cup {None}]
         /\ \A l \in Locks : lock'[l] = lock[l] \/ (lock[l] = h /\ lock'[l] = None)
         /\ \A l \in Locks : lock'[l] # h
         /\ LocksOf(h)' = {}
<1>1. lock \in [Locks -> Harts \cup {None}] /\ h # None BY HartsAssumption DEF HInv, HType
<1> QED BY <1>1 DEF LocksOf

LEMMA Kept ==
  ASSUME HInv, NEW h \in Harts, UNCHANGED lock
  PROVE  lock' \in [Locks -> Harts \cup {None}] /\ LocksOf(h)' = LocksOf(h)
BY DEF HInv, HType, LocksOf

(* Nobody finds a lock that it holds itself. *)
LEMMA AcquireKeeps ==
  ASSUME HInv, NEW h \in Harts, NEW lk \in Locks, NEW fs, IsList(fs),
         stack[Cur(h)] # <<>>, LocksOf(h) = {}, hart[h].noff = 0,
         IsList(fs \o Tail(stack[Cur(h)])),
         \/ hart[h].intr /\ Cur(h) \in Procs /\ InCall(fs \o Tail(stack[Cur(h)]), lk)
         \/ ~hart[h].intr /\ InTrap(Cur(h), fs \o Tail(stack[Cur(h)]), lk),
         Acquire(h, lk, fs)
  PROVE  HInv' /\ UNCHANGED panic
<1> DEFINE f == [at |-> "spin", lk |-> lk]
<1>1. lock[lk] # h BY DEF LocksOf
<1>2. PICK s : s = Tail(stack[Cur(h)]) OBVIOUS
<1>3. PICK t : t = fs \o s OBVIOUS
<1>4. PICK c : c = PushOff(hart[h]) OBVIOUS
<1>5. /\ hart' = [hart EXCEPT ![h] = c]
      /\ \/ lock[lk] = None /\ lock' = [lock EXCEPT ![lk] = h] /\ stack' = [stack EXCEPT ![Cur(h)] = t]
         \/ /\ lock[lk] # None /\ UNCHANGED lock
            /\ stack' = [stack EXCEPT ![Cur(h)] = (<<f>> \o fs) \o s]
      /\ UNCHANGED <<proc, ticks, panic>>
  BY <1>1, <1>2, <1>3, <1>4 DEF Acquire, Goto
<1>6. IsList(s) /\ hart[h] \in HartRec BY <1>2, CurFacts, Pop
<1>7. c \in HartRec /\ c.proc = hart[h].proc /\ c.noff = 1 /\ ~c.intr /\ (c.intena <=> hart[h].intr)
  BY <1>4, <1>6, PushOffFacts
<1>8. Wakes(proc') BY <1>5, WakesFacts
<1>9. IsList(t) /\ (\/ c.intena /\ Cur(h) \in Procs /\ InCall(t, lk)
                    \/ ~c.intena /\ InTrap(Cur(h), t, lk))
  BY <1>2, <1>3, <1>7
<1>10. CASE lock[lk] = None
  <2>1. lock' = [lock EXCEPT ![lk] = h] /\ stack' = [stack EXCEPT ![Cur(h)] = t] BY <1>5, <1>10
  <2>2. Mode(Cur(h), c, t, {lk}) BY <1>7, <1>9 DEF Mode
  <2>3. /\ lock' \in [Locks -> Harts \cup {None}]
        /\ \A l \in Locks : lock'[l] = lock[l] \/ (lock[l] \in {h, None} /\ lock'[l] \in {h, None})
        /\ LocksOf(h)' = {lk}
    BY <1>10, <2>1, Taken
  <2>4. HInv' BY <1>5, <1>7, <1>8, <1>9, <2>1, <2>2, <2>3, LocalStep
  <2> QED BY <1>5, <2>4
<1>11. CASE lock[lk] # None
  <2>1. PICK u : u = <<f>> \o t OBVIOUS
  <2>2. (<<f>> \o fs) \o s = u BY <1>3, <1>6, <2>1, OnTopMore
  <2>3. IsList(u) /\ u # <<>> /\ Head(u) = f /\ Tail(u) = t BY <1>9, <2>1, OnTop
  <2>4. f.at = "spin" /\ f.lk = lk OBVIOUS
  <2>5. UNCHANGED lock /\ stack' = [stack EXCEPT ![Cur(h)] = u] BY <1>5, <1>11, <2>2
  <2>6. Mode(Cur(h), c, u, {}) BY <1>7, <1>9, <2>3, <2>4 DEF Mode
  <2>7. lock' \in [Locks -> Harts \cup {None}] /\ LocksOf(h)' = {} BY <2>5, Kept
  <2>8. HInv' BY <1>5, <1>7, <1>8, <2>3, <2>5, <2>6, <2>7, LocalStep
  <2> QED BY <1>5, <2>8
<1> QED BY <1>10, <1>11

(* A lock is given back, and the stack t goes on. *)
LEMMA GiveBack ==
  ASSUME HInv, NEW h \in Harts, NEW lk \in Locks, LocksOf(h) = {lk},
         NEW c \in HartRec, NEW t, IsList(t), c.proc = hart[h].proc,
         hart' = [hart EXCEPT ![h] = c], lock' = [lock EXCEPT ![lk] = None],
         stack' = [stack EXCEPT ![Cur(h)] = t], Wakes(proc'),
         Mode(Cur(h), c, t, {})
  PROVE  HInv'
<1>1. /\ lock' \in [Locks -> Harts \cup {None}]
      /\ \A l \in Locks : lock'[l] = lock[l] \/ (lock[l] = h /\ lock'[l] = None)
      /\ LocksOf(h)' = {}
  BY Given
<1> QED BY <1>1, LocalStep

(* A function of the kernel ends with its release(). *)
LEMMA ReleaseCall ==
  ASSUME HInv, NEW h \in Harts, NEW lk \in Locks, InCall(stack[Cur(h)], lk), LocksOf(h) = {lk},
         hart[h].noff = 1, hart[h].intena, Release(h, lk, <<>>), Wakes(proc')
  PROVE  HInv'
<1>1. IsList(stack[Cur(h)]) /\ hart[h] \in HartRec BY CurFacts
<1>2. <<>> \o Tail(stack[Cur(h)]) = <<>> BY Empty, Pop DEF InCall
<1>3. stack' = [stack EXCEPT ![Cur(h)] = <<>>] BY <1>2 DEF Release, Goto
<1> DEFINE c == PopOff(hart[h])
<1>4. c \in HartRec /\ c.proc = hart[h].proc /\ c.noff = 0 /\ c.intr BY <1>1, PopOffFacts
<1>5. hart' = [hart EXCEPT ![h] = c] /\ lock' = [lock EXCEPT ![lk] = None] BY DEF Release
<1> HIDE DEF c
<1>6. Mode(Cur(h), c, <<>>, {}) BY <1>4 DEF Mode, Base
<1> QED BY <1>3, <1>4, <1>5, <1>6, Empty, GiveBack

(* A handler ends with its release() and sret. *)
LEMMA ReturnTrap ==
  ASSUME HInv, NEW h \in Harts, NEW lk \in Locks, stack[Cur(h)] # <<>>, Base(Cur(h), Tail(stack[Cur(h)])),
         LocksOf(h) = {lk}, hart[h].noff = 1, TrapReturn(h, lk), Wakes(proc')
  PROVE  HInv'
<1> DEFINE t == Tail(stack[Cur(h)])
<1>1. IsList(stack[Cur(h)]) /\ hart[h] \in HartRec /\ IsList(t) /\ <<>> \o t = t BY CurFacts, Pop
<1>2. stack' = [stack EXCEPT ![Cur(h)] = t] BY <1>1 DEF TrapReturn, Goto
<1> DEFINE d == PopOff(hart[h])
           c == [d EXCEPT !.intr = TRUE]
<1>3. d \in HartRec /\ d.proc = hart[h].proc /\ d.noff = 0 BY <1>1, PopOffFacts
<1>4. hart' = [hart EXCEPT ![h] = c] /\ lock' = [lock EXCEPT ![lk] = None] BY DEF TrapReturn
<1> HIDE DEF d, t
<1>5. c \in HartRec /\ c.proc = hart[h].proc /\ c.noff = 0 /\ c.intr BY <1>3 DEF HartRec
<1> HIDE DEF c
<1>6. Mode(Cur(h), c, t, {}) BY <1>5 DEF Mode, t
<1> QED BY <1>1, <1>2, <1>4, <1>5, <1>6, GiveBack

-----------------------------------------------------------------------------
(* The operations of Harts.                                                *)

LEMMA Unmoved ==
  ASSUME HInv, UNCHANGED <<hart, lock, proc, stack>>
  PROVE  HInv'
<1>1. HType' /\ RunOK' BY DEF HInv, HType, RunOK
<1>2. ASSUME NEW h \in Harts PROVE Mode(Cur(h), hart[h], stack[Cur(h)], LocksOf(h))' BY Untouched
<1> QED BY <1>1, <1>2 DEF HInv, ModeOK

(* Processes wake up, and nothing else. *)
LEMMA Woke ==
  ASSUME HInv, UNCHANGED <<hart, lock, stack>>, Wakes(proc')
  PROVE  HInv'
<1>1. PICK h \in Harts : h = Hart0 BY HartsAssumption
<1>2. PICK c \in HartRec : c = hart[h] BY CurFacts
<1>3. PICK s : s = stack[Cur(h)] OBVIOUS
<1>4. IsList(s) /\ Cur(h) \in Procs \cup Harts BY <1>3, CurFacts
<1>5. hart' = [hart EXCEPT ![h] = c] /\ stack' = [stack EXCEPT ![Cur(h)] = s]
  BY <1>2, <1>3, <1>4 DEF HInv, HType
<1>6. Mode(Cur(h), c, s, LocksOf(h)) BY <1>2, <1>3, ModeOf
<1>7. lock' \in [Locks -> Harts \cup {None}] /\ LocksOf(h)' = LocksOf(h) BY Kept
<1> QED BY <1>2, <1>4, <1>5, <1>6, <1>7, LocalStep

(* A function that runs with its lock changes its frame. *)
LEMMA Turn ==
  ASSUME HInv, NEW h \in Harts, NEW lk, stack[Cur(h)] # <<>>, CallFrame(Head(stack[Cur(h)]), lk),
         NEW f, CallFrame(f, lk), Goto(h, <<f>>), UNCHANGED <<hart, lock, proc>>
  PROVE  HInv'
<1>1. PICK l \in Locks : /\ InCall(stack[Cur(h)], l) /\ LocksOf(h) = {l}
                         /\ hart[h].noff = 1 /\ ~hart[h].intr /\ hart[h].intena /\ Cur(h) \in Procs
  BY CallTop DEF CallFrame, CallAts
<1>2. l = lk /\ Tail(stack[Cur(h)]) = <<>> BY <1>1 DEF InCall, CallFrame
<1>3. PICK s : s = <<f>> OBVIOUS
<1>4. IsList(s) /\ s # <<>> /\ Head(s) = f /\ Tail(s) = <<>> BY <1>3, Single
<1>5. stack' = [stack EXCEPT ![Cur(h)] = s] BY <1>2, <1>3, Joined DEF Goto
<1>6. PICK c \in HartRec : c = hart[h] BY CurFacts
<1>7. hart' = [hart EXCEPT ![h] = c] BY <1>6 DEF HInv, HType
<1>8. Mode(Cur(h), c, s, {l}) BY <1>1, <1>2, <1>4, <1>6 DEF Mode, InCall
<1>9. lock' \in [Locks -> Harts \cup {None}] /\ LocksOf(h)' = {l} BY <1>1, Kept
<1>10. Wakes(proc') BY WakesFacts
<1> QED BY <1>4, <1>5, <1>6, <1>7, <1>8, <1>9, <1>10, LocalStep

(* The function gives its lock back and ends. *)
LEMMA ReleaseKeeps ==
  ASSUME HInv, NEW h \in Harts, NEW lk, stack[Cur(h)] # <<>>, CallFrame(Head(stack[Cur(h)]), lk),
         Release(h, lk, <<>>), Wakes(proc')
  PROVE  HInv'
<1>1. PICK l \in Locks : /\ InCall(stack[Cur(h)], l) /\ LocksOf(h) = {l}
                         /\ hart[h].noff = 1 /\ hart[h].intena
  BY CallTop DEF CallFrame, CallAts
<1>2. l = lk BY <1>1 DEF InCall, CallFrame
<1> QED BY <1>1, <1>2, ReleaseCall

(* It gives the lock to sleep, and has it again when it goes on. *)
LEMMA SleepKeeps ==
  ASSUME HInv, NEW h \in Harts, NEW lk, stack[Cur(h)] # <<>>, CallFrame(Head(stack[Cur(h)]), lk),
         NEW f, CallFrame(f, lk), NEW chan, NEW ps, Wakes(ps), Sleep(h, chan, lk, ps, <<f>>)
  PROVE  HInv' /\ UNCHANGED panic
<1>1. PICK l \in Locks : /\ InCall(stack[Cur(h)], l) /\ LocksOf(h) = {l}
                         /\ hart[h].noff = 1 /\ ~hart[h].intr /\ hart[h].intena
                         /\ hart[h].proc \in Procs /\ Cur(h) = hart[h].proc
  BY CallTop, SMTT(30) DEF CallFrame, CallAts
<1>2. l = lk /\ Tail(stack[Cur(h)]) = <<>> BY <1>1 DEF InCall, CallFrame
<1>3. PICK p \in Procs : p = hart[h].proc /\ p = Cur(h) BY <1>1
<1> PICK r : r = Resume(hart[h])
  OBVIOUS
<1> PICK g : g = [at |-> "reacquire", lk |-> lk]
  OBVIOUS
<1>4. r.at = "resume" /\ r.intena = hart[h].intena /\ g.at = "reacquire" /\ g.lk = lk BY DEF Resume
<1>5. /\ lock' = [lock EXCEPT ![lk] = None]
      /\ proc' = [ps EXCEPT ![p].state = "SLEEPING", ![p].chan = chan]
      /\ Goto(h, <<r, g>> \o <<f>>)
      /\ hart' = [hart EXCEPT ![h] = LeftTo(hart[h], 1)]
      /\ UNCHANGED panic
  BY <1>1, <1>3, <1>4 DEF Sleep
<1>6. PICK w, t : w = <<f>> /\ t = <<g>> \o w OBVIOUS
<1>7. IsList(w) /\ IsList(t) /\ t # <<>> /\ Head(t) = g /\ Tail(t) = w BY <1>6, Single, OnTop
<1>8. PICK s : s = <<r>> \o t OBVIOUS
<1>9. IsList(s) /\ s # <<>> /\ Head(s) = r /\ Tail(s) = t BY <1>7, <1>8, OnTop
<1>10. <<r, g>> \o w = s
  <2>1. <<r, g>> = <<r>> \o <<g>> BY Joined
  <2>2. PICK v : v = <<g>> /\ IsList(v) BY Single
  <2>3. (<<r>> \o v) \o w = <<r>> \o (v \o w) BY <1>7, <2>2, OnTopMore, SMTT(30)
  <2> QED BY <1>6, <1>8, <2>1, <2>2, <2>3
<1>11. s \o <<>> = s
  <2>1. PICK S : s \in Seq(S) BY <1>9 DEF IsList
  <2> QED BY <2>1, ConcatEmptySeq
<1>12. stack' = [stack EXCEPT ![p] = s] BY <1>2, <1>3, <1>5, <1>6, <1>10, <1>11 DEF Goto
<1>13. InCall(w, lk) BY <1>6, Single DEF InCall
<1>14. Base(p, t) BY <1>4, <1>7, <1>13 DEF Base
<1>15. Parked(p, s) BY <1>1, <1>4, <1>9, <1>14 DEF Parked
<1>16. PICK c \in HartRec : c = LeftTo(hart[h], 1) /\ c.proc = None /\ c.noff = 0
  BY CurFacts, LeftFacts
<1>17. /\ lock' \in [Locks -> Harts \cup {None}]
       /\ \A k \in Locks : lock'[k] = lock[k] \/ (lock[k] = h /\ lock'[k] = None)
       /\ \A k \in Locks : lock'[k] # h
  BY <1>1, <1>2, <1>5, Given
<1>18. /\ proc' = [ps EXCEPT ![p] = proc'[p]] /\ ProcRec(proc'[p]) /\ proc'[p].state = "SLEEPING"
  <2>1. ps = [q \in Procs |-> ps[q]] BY DEF Wakes
  <2>2. PICK e : e = ps[p] /\ e = [state |-> e.state, chan |-> e.chan, killed |-> e.killed]
    BY DEF Wakes, ProcRec
  <2>3. PICK d : d = [e EXCEPT !.state = "SLEEPING", !.chan = chan] OBVIOUS
  <2>4. d = [state |-> "SLEEPING", chan |-> chan, killed |-> e.killed] BY <2>2, <2>3
  <2>5. proc' = [ps EXCEPT ![p] = d] BY <1>5, <2>1, <2>2, <2>3
  <2>6. proc'[p] = d BY <2>1, <2>5
  <2>7. ProcRec(d) /\ d.state = "SLEEPING" BY <2>4 DEF ProcRec, States
  <2> QED BY <2>5, <2>6, <2>7
<1>19. HInv' BY <1>3, <1>5, <1>9, <1>12, <1>15, <1>16, <1>17, <1>18, LeaveStep
<1> QED BY <1>5, <1>19

(* A process sleeps on a sleep lock, with interrupts on. *)
LEMMA SleepInsideKeeps ==
  ASSUME HInv, NEW h \in Harts, At(h, "acquiresleep"), NEW chan, SleepInside(h, chan, <<Frame(h)>>)
  PROVE  HInv' /\ UNCHANGED panic
<1>1. stack[Cur(h)] # <<>> /\ Head(stack[Cur(h)]).at = "acquiresleep" BY Zenon DEF At, Runs
<1>2. /\ Base(Cur(h), stack[Cur(h)]) /\ LocksOf(h) = {} /\ hart[h].noff = 0 /\ hart[h].intr
      /\ hart[h].proc \in Procs /\ Cur(h) = hart[h].proc
  BY <1>1, QuietTop
<1>3. PICK p \in Procs : p = hart[h].proc /\ p = Cur(h) BY <1>2
<1>4. PICK f : f = Frame(h) OBVIOUS
<1>5. Tail(stack[Cur(h)]) = <<>> /\ f.at = "acquiresleep" BY <1>1, <1>2, <1>4 DEF Base, Frame
<1>6. PICK c \in HartRec : c = PushOff(hart[h]) /\ c.intena = TRUE BY <1>2, CurFacts, PushOffFacts
<1>7. PICK r : r = Resume(c) OBVIOUS
<1>8. r.at = "resume" /\ r.intena = TRUE BY <1>6, <1>7 DEF Resume
<1>9. /\ proc' = [proc EXCEPT ![p].state = "SLEEPING", ![p].chan = chan]
      /\ Goto(h, <<r>> \o <<f>>)
      /\ hart' = [hart EXCEPT ![h] = LeftTo(c, 1)]
      /\ UNCHANGED <<lock, panic>>
  BY <1>2, <1>3, <1>4, <1>6, <1>7 DEF SleepInside
<1>10. PICK s : s = <<r>> \o <<f>> OBVIOUS
<1>11. IsList(s) /\ s # <<>> /\ Head(s) = r /\ Tail(s) = <<f>> BY <1>10, Single, OnTop
<1>12. s \o <<>> = s
  <2>1. PICK S : s \in Seq(S) BY <1>11 DEF IsList
  <2> QED BY <2>1, ConcatEmptySeq
<1>13. stack' = [stack EXCEPT ![p] = s] BY <1>3, <1>5, <1>9, <1>10, <1>12 DEF Goto
<1>14. Base(p, <<f>>) BY <1>5, Single DEF Base
<1>15. Parked(p, s) BY <1>8, <1>11, <1>14 DEF Parked
<1>16. PICK d \in HartRec : d = LeftTo(c, 1) /\ d.proc = None /\ d.noff = 0 BY LeftFacts
<1>17. /\ lock' \in [Locks -> Harts \cup {None}]
       /\ \A k \in Locks : lock'[k] = lock[k] /\ lock'[k] # h
  BY <1>2, <1>9 DEF LocksOf, HInv, HType
<1>18. /\ proc' = [proc EXCEPT ![p] = proc'[p]] /\ ProcRec(proc'[p]) /\ proc'[p].state = "SLEEPING"
  <2>1. proc = [q \in Procs |-> proc[q]] BY WakesFacts DEF Wakes
  <2>2. PICK e : e = proc[p] /\ e = [state |-> e.state, chan |-> e.chan, killed |-> e.killed]
    BY WakesFacts DEF Wakes, ProcRec
  <2>3. PICK v : v = [e EXCEPT !.state = "SLEEPING", !.chan = chan] OBVIOUS
  <2>4. v = [state |-> "SLEEPING", chan |-> chan, killed |-> e.killed] BY <2>2, <2>3
  <2>5. proc' = [proc EXCEPT ![p] = v] BY <1>9, <2>1, <2>2, <2>3
  <2>6. proc'[p] = v BY <2>1, <2>5
  <2>7. ProcRec(v) /\ v.state = "SLEEPING" BY <2>4 DEF ProcRec, States
  <2> QED BY <2>5, <2>6, <2>7
<1>19. Wakes(proc) BY WakesFacts
<1>20. HInv' BY <1>3, <1>9, <1>11, <1>13, <1>15, <1>16, <1>17, <1>18, <1>19, LeaveStep
<1> QED BY <1>9, <1>20

LEMMA SpinKeeps ==
  ASSUME HInv, NEW h \in Harts, Spin(h)
  PROVE  HInv'
<1>1. stack[Cur(h)] # <<>> /\ Head(stack[Cur(h)]).at = "spin" BY Zenon DEF Spin, At, Runs
<1>2. PICK lk \in Locks :
        /\ lk = Head(stack[Cur(h)]).lk /\ LocksOf(h) = {} /\ hart[h].noff = 1 /\ ~hart[h].intr
        /\ \/ hart[h].intena /\ Cur(h) \in Procs /\ InCall(Tail(stack[Cur(h)]), lk)
           \/ ~hart[h].intena /\ InTrap(Cur(h), Tail(stack[Cur(h)]), lk)
  BY <1>1, SpinTop
<1>3. PICK s : s = Tail(stack[Cur(h)]) OBVIOUS
<1>4. IsList(s) /\ <<>> \o s = s BY <1>1, <1>3, CurFacts, Pop
<1>5. /\ lock[lk] = None /\ lock' = [lock EXCEPT ![lk] = h]
      /\ stack' = [stack EXCEPT ![Cur(h)] = s] /\ UNCHANGED <<hart, proc>>
  BY <1>2, <1>3, <1>4 DEF Spin, Frame, Goto
<1>6. PICK c \in HartRec : c = hart[h] BY CurFacts
<1>7. hart' = [hart EXCEPT ![h] = c] BY <1>5, <1>6 DEF HInv, HType
<1>8. Mode(Cur(h), c, s, {lk}) BY <1>2, <1>3, <1>6 DEF Mode
<1>9. /\ lock' \in [Locks -> Harts \cup {None}]
      /\ \A l \in Locks : lock'[l] = lock[l] \/ (lock[l] \in {h, None} /\ lock'[l] \in {h, None})
      /\ LocksOf(h)' = {lk}
  BY <1>2, <1>5, Taken
<1>10. Wakes(proc') BY <1>5, WakesFacts
<1> QED BY <1>4, <1>5, <1>6, <1>7, <1>8, <1>9, <1>10, LocalStep

LEMMA ReacquireKeeps ==
  ASSUME HInv, NEW h \in Harts, Reacquire(h)
  PROVE  HInv' /\ UNCHANGED panic
<1>1. stack[Cur(h)] # <<>> /\ Head(stack[Cur(h)]).at = "reacquire" BY Zenon DEF Reacquire, At, Runs
<1>2. PICK lk : lk = Head(stack[Cur(h)]).lk OBVIOUS
<1>3. /\ Base(Cur(h), stack[Cur(h)]) /\ LocksOf(h) = {} /\ hart[h].noff = 0 /\ hart[h].intr
      /\ Cur(h) \in Procs
  BY <1>1, QuietTop
<1>4. InCall(Tail(stack[Cur(h)]), lk) BY <1>1, <1>2, <1>3 DEF Base
<1>5. lk \in Locks BY <1>4, LocksAssumption DEF InCall, CallFrame
<1>6. PICK s : s = Tail(stack[Cur(h)]) /\ IsList(s) /\ <<>> \o s = s BY <1>1, CurFacts, Pop
<1>7. InCall(<<>> \o s, lk) /\ IsList(<<>> \o s) BY <1>4, <1>6
<1>8. Acquire(h, lk, <<>>) BY <1>2 DEF Reacquire, Frame
<1> QED BY <1>1, <1>3, <1>5, <1>6, <1>7, <1>8, Empty, AcquireKeeps

LEMMA LoopTopKeeps ==
  ASSUME HInv, NEW h \in Harts, LoopTop(h)
  PROVE  HInv'
<1>1. hart[h].proc = None /\ stack[h] = <<>> /\ Cur(h) = h /\ h \notin Procs /\ hart[h] \in HartRec
  BY CurFacts, Zenon DEF LoopTop
<1>2. hart[h].noff = 0 /\ LocksOf(h) = {} BY <1>1, NoFrame
<1>3. PICK c : c = [hart[h] EXCEPT !.intr = TRUE] OBVIOUS
<1>4. c \in HartRec /\ c.proc = hart[h].proc /\ c.noff = 0 BY <1>1, <1>2, <1>3 DEF HartRec
<1>5. hart' = [hart EXCEPT ![h] = c] /\ stack' = [stack EXCEPT ![Cur(h)] = <<>>] /\ UNCHANGED <<lock, proc>>
  BY <1>1, <1>3, Zenon DEF LoopTop, HInv, HType
<1>6. Mode(Cur(h), c, <<>>, {}) BY <1>1, <1>4 DEF Mode, Base
<1>7. lock' \in [Locks -> Harts \cup {None}] /\ LocksOf(h)' = {} BY <1>2, <1>5, Kept
<1>8. Wakes(proc') BY <1>5, WakesFacts
<1> QED BY <1>4, <1>5, <1>6, <1>7, <1>8, Empty, LocalStep

(* The scheduler's hart goes on with the process p where it left. *)
LEMMA PickKeeps ==
  ASSUME HInv, NEW h \in Harts, NEW p \in Procs, Pick(h, p)
  PROVE  HInv'
<1>1. hart[h].proc = None /\ stack[h] = <<>> /\ Cur(h) = h /\ hart[h] \in HartRec
  BY CurFacts, Zenon DEF Pick
<1>2. hart[h].noff = 0 /\ LocksOf(h) = {} BY <1>1, NoFrame
<1>3. proc[p].state = "RUNNABLE" /\ Parked(p, stack[p]) BY Zenon DEF Pick, HInv, RunOK
<1>4. PICK s, i : s = Tail(stack[p]) /\ i = Head(stack[p]).intena OBVIOUS
<1>5. i \in BOOLEAN BY <1>3, <1>4 DEF Parked
<1>6. IsList(s) BY <1>3, <1>4, Pop, Zenon DEF Parked, HInv, HType
<1>7. PICK d \in HartRec : d = PushOff(hart[h]) /\ d.noff = 1 BY <1>1, <1>2, PushOffFacts
<1>8. PICK e : e = [d EXCEPT !.proc = p, !.intena = i] OBVIOUS
<1>9. e \in HartRec /\ e.proc = p /\ e.noff = 1 /\ e.intena = i BY <1>5, <1>7, <1>8 DEF HartRec
<1>10. PICK c \in HartRec : c = PopOff(e) /\ c.proc = p /\ c.noff = 0 /\ (c.intr <=> i)
  BY <1>9, PopOffFacts
<1>11. /\ hart' = [hart EXCEPT ![h] = c] /\ stack' = [stack EXCEPT ![p] = s] /\ UNCHANGED lock
       /\ proc' = [proc EXCEPT ![p].state = "RUNNING"]
  BY <1>4, <1>7, <1>8, <1>10, Zenon DEF Pick
<1>12. /\ hart' \in [Harts -> HartRec] /\ hart'[h] = c
       /\ \A g \in Harts : g # h => hart'[g] = hart[g]
  BY <1>11 DEF HInv, HType
<1>13. /\ stack' = [x \in Procs \cup Harts |-> stack'[x]] /\ stack'[p] = s
       /\ \A x \in Procs \cup Harts : x # p => stack'[x] = stack[x]
  BY <1>11 DEF HInv, HType
<1>14. /\ proc' = [q \in Procs |-> proc'[q]] /\ ProcRec(proc'[p]) /\ proc'[p].state = "RUNNING"
       /\ \A q \in Procs : q # p => proc'[q] = proc[q]
  <2>1. proc = [q \in Procs |-> proc[q]] BY Zenon DEF HInv, HType
  <2>2. PICK r : r = proc[p] /\ r = [state |-> r.state, chan |-> r.chan, killed |-> r.killed]
    BY Zenon DEF HInv, HType, ProcRec
  <2>3. PICK t : t = [r EXCEPT !.state = "RUNNING"] OBVIOUS
  <2>4. t = [state |-> "RUNNING", chan |-> r.chan, killed |-> r.killed] BY <2>2, <2>3
  <2>5. proc' = [proc EXCEPT ![p] = t] BY <1>11, <2>1, <2>2, <2>3
  <2>6. ProcRec(t) /\ t.state = "RUNNING" BY <2>4 DEF ProcRec, States
  <2> QED BY <2>1, <2>5, <2>6
<1>15. HType'
  <2>1. \A x \in Procs \cup Harts : IsList(stack'[x]) BY <1>6, <1>13 DEF HInv, HType
  <2>2. \A q \in Procs : ProcRec(proc'[q]) BY <1>14 DEF HInv, HType
  <2>3. lock' \in [Locks -> Harts \cup {None}] BY <1>11 DEF HInv, HType
  <2> QED BY <1>12, <1>13, <1>14, <2>1, <2>2, <2>3 DEF HType
<1>16. None \notin Procs /\ Procs \cap Harts = {} BY HartsAssumption
<1>17. \A g \in Harts : hart[g].proc # p BY <1>3 DEF HInv, RunOK
<1>18. RunOK'
  <2>1. ASSUME NEW q \in Procs PROVE proc'[q].state = "RUNNING" <=> \E g \in Harts : hart'[g].proc = q
    BY <1>1, <1>10, <1>12, <1>14, <1>16 DEF HInv, RunOK
  <2>2. \A f, g \in Harts : hart'[f].proc = hart'[g].proc /\ f # g => hart'[f].proc = None
    BY <1>10, <1>12, <1>17 DEF HInv, RunOK
  <2>3. \A g \in Harts : hart'[g].proc # None => stack'[g] = <<>>
    BY <1>1, <1>12, <1>13, <1>16 DEF HInv, RunOK
  <2>4. \A q \in Procs : proc'[q].state \in {"RUNNABLE", "SLEEPING"} => Parked(q, stack'[q])
    BY <1>13, <1>14 DEF HInv, RunOK
  <2> QED BY <2>1, <2>2, <2>3, <2>4 DEF RunOK
<1>19. ModeOK'
  <2>1. ASSUME NEW g \in Harts PROVE Mode(Cur(g), hart[g], stack[Cur(g)], LocksOf(g))'
    <3>1. CASE g = h
      <4>1. Cur(h)' = p BY <1>10, <1>12, <1>16 DEF Cur
      <4>2. stack'[Cur(h)'] = s /\ LocksOf(h)' = {} BY <1>2, <1>11, <1>13, <4>1 DEF LocksOf
      <4>3. \/ i = TRUE /\ Base(p, s)
            \/ i = FALSE /\ s # <<>> /\ Head(s).at = "trapret" /\ Base(p, Tail(s))
        BY <1>3, <1>4 DEF Parked
      <4>4. CASE i = TRUE
        <5>1. Base(p, s) /\ c.intr BY <1>10, <4>3, <4>4
        <5>2. Mode(p, c, s, {}) BY <1>10, <5>1 DEF Mode
        <5> QED BY <1>12, <3>1, <4>1, <4>2, <5>2
      <4>5. CASE i = FALSE
        <5>1. s # <<>> /\ Head(s).at = "trapret" /\ Base(p, Tail(s)) /\ ~c.intr BY <1>10, <4>3, <4>5
        <5>2. Mode(p, c, s, {}) BY <1>10, <5>1 DEF Mode
        <5> QED BY <1>12, <3>1, <4>1, <4>2, <5>2
      <4> QED BY <1>5, <4>4, <4>5
    <3>2. CASE g # h
      <4>1. Cur(g) \in Procs \cup Harts /\ Cur(g) # p BY <1>16, <1>17, CurFacts DEF Cur
      <4>2. stack'[Cur(g)] = stack[Cur(g)] /\ hart'[g] = hart[g] BY <1>12, <1>13, <3>2, <4>1
      <4> QED BY <1>11, <4>2, Untouched
    <3> QED BY <3>1, <3>2
  <2> QED BY <2>1 DEF ModeOK
<1> QED BY <1>15, <1>18, <1>19 DEF HInv

LEMMA HandlerFacts ==
  ASSUME NEW x, NEW s, IsList(s), Base(x, s), NEW fs, NEW lk, Handler(fs, lk)
  PROVE  /\ IsList(fs) /\ IsList(fs \o s) /\ InTrap(x, fs \o s, lk) /\ lk \in Locks
         /\ \A a : (<<a>> \o fs) \o s = <<a>> \o (fs \o s)
<1>1. lk \in Locks BY LocksAssumption DEF Handler, HandlerFrame
<1>2. IsList(fs) /\ IsList(fs \o s) /\ InTrap(x, fs \o s, lk)
  <2>1. CASE \E f : fs = <<f>> /\ HandlerFrame(f, lk)
    <3>1. PICK f : fs = <<f>> /\ HandlerFrame(f, lk) BY <2>1
    <3>2. IsList(<<f>>) BY Single
    <3>3. PICK t : t = <<f>> \o s OBVIOUS
    <3>4. IsList(t) /\ t # <<>> /\ Head(t) = f /\ Tail(t) = s BY <3>3, OnTop
    <3>5. InTrap(x, t, lk) BY <3>1, <3>4 DEF InTrap
    <3> QED BY <3>1, <3>2, <3>3, <3>4, <3>5
  <2>2. CASE \E f, g : fs = <<f, g>> /\ f.at = "consoleintr" /\ g.at = "uartintr" /\ lk = "cons"
    <3>1. PICK f, g : fs = <<f, g>> /\ f.at = "consoleintr" /\ g.at = "uartintr" /\ lk = "cons"
      BY <2>2
    <3>2. PICK v : v = <<g>> OBVIOUS
    <3>3. IsList(v) /\ fs = <<f>> \o v BY <3>1, <3>2, Single, Joined
    <3>4. IsList(fs) BY <3>3, OnTop
    <3>5. PICK u : u = <<g>> \o s OBVIOUS
    <3>6. IsList(u) /\ u # <<>> /\ Head(u) = g /\ Tail(u) = s BY <3>5, OnTop
    <3>7. PICK t : t = <<f>> \o u OBVIOUS
    <3>8. IsList(t) /\ t # <<>> /\ Head(t) = f /\ Tail(t) = u BY <3>6, <3>7, OnTop
    <3>9. fs \o s = t BY <3>2, <3>3, <3>5, <3>7, OnTopMore, SMTT(30)
    <3>10. InTrap(x, t, lk) BY <3>1, <3>6, <3>8 DEF InTrap
    <3> QED BY <3>4, <3>8, <3>9, <3>10
  <2> QED BY <2>1, <2>2 DEF Handler
<1>3. \A a : (<<a>> \o fs) \o s = <<a>> \o (fs \o s) BY <1>2, OnTopMore
<1> QED BY <1>1, <1>2, <1>3

(* A trap, which puts its handler on top of whatever runs. *)
LEMMA TrapKeeps ==
  ASSUME HInv, NEW h \in Harts, NEW lk, NEW fs, Handler(fs, lk), Trap(h, lk, fs), UNCHANGED proc
  PROVE  HInv'
<1>1. hart[h].intr BY Zenon DEF Trap
<1>2. Base(Cur(h), stack[Cur(h)]) /\ LocksOf(h) = {} /\ hart[h].noff = 0 BY <1>1, Interruptible
<1>3. PICK s : s = stack[Cur(h)] /\ IsList(s) BY CurFacts
<1>4. PICK t : t = fs \o s OBVIOUS
<1>5. /\ lk \in Locks /\ IsList(fs) /\ IsList(t) /\ InTrap(Cur(h), t, lk)
      /\ \A a : (<<a>> \o fs) \o s = <<a>> \o t
  BY <1>2, <1>3, <1>4, HandlerFacts
<1>6. hart[h] \in HartRec BY CurFacts
<1>7. PICK d : d = [hart[h] EXCEPT !.intr = FALSE] OBVIOUS
<1>8. d \in HartRec /\ d.proc = hart[h].proc /\ d.noff = 0 /\ ~d.intr
  BY <1>2, <1>6, <1>7 DEF HartRec
<1>9. PICK c \in HartRec : c = PushOff(d) /\ c.proc = hart[h].proc /\ c.noff = 1 /\ ~c.intr /\ ~c.intena
  BY <1>8, PushOffFacts
<1>10. PICK f : f = [at |-> "spin", lk |-> lk] OBVIOUS
<1>11. f.at = "spin" /\ f.lk = lk BY <1>10
<1>12. /\ hart' = [hart EXCEPT ![h] = c]
       /\ \/ lock[lk] = None /\ lock' = [lock EXCEPT ![lk] = h] /\ stack' = [stack EXCEPT ![Cur(h)] = fs \o @]
          \/ lock[lk] # None /\ UNCHANGED lock /\ stack' = [stack EXCEPT ![Cur(h)] = <<f>> \o fs \o @]
  BY <1>7, <1>9, <1>10, Zenon DEF Trap
<1>13. Cur(h) \in Procs \cup Harts /\ stack = [x \in Procs \cup Harts |-> stack[x]]
  BY CurFacts DEF HInv, HType
<1>14. Wakes(proc') BY WakesFacts
<1>15. CASE lock[lk] = None
  <2>1. lock' = [lock EXCEPT ![lk] = h] /\ stack' = [stack EXCEPT ![Cur(h)] = t]
    BY <1>3, <1>4, <1>12, <1>13, <1>15
  <2>2. Mode(Cur(h), c, t, {lk}) BY <1>5, <1>9 DEF Mode
  <2>3. /\ lock' \in [Locks -> Harts \cup {None}]
        /\ \A l \in Locks : lock'[l] = lock[l] \/ (lock[l] \in {h, None} /\ lock'[l] \in {h, None})
        /\ LocksOf(h)' = {lk}
    BY <1>2, <1>5, <1>15, <2>1, Taken
  <2> QED BY <1>5, <1>9, <1>12, <1>14, <2>1, <2>2, <2>3, LocalStep
<1>16. CASE lock[lk] # None
  <2>1. PICK u : u = <<f>> \o t OBVIOUS
  <2>2. IsList(u) /\ u # <<>> /\ Head(u) = f /\ Tail(u) = t BY <1>5, <2>1, OnTop
  <2>3. (<<f>> \o fs) \o s = u BY <1>5, <2>1
  <2>4. UNCHANGED lock /\ stack' = [stack EXCEPT ![Cur(h)] = u] BY <1>3, <1>12, <1>13, <1>16, <2>3
  <2>5. Mode(Cur(h), c, u, {}) BY <1>5, <1>9, <1>11, <2>2 DEF Mode
  <2>6. lock' \in [Locks -> Harts \cup {None}] /\ LocksOf(h)' = {} BY <1>2, <2>4, Kept
  <2> QED BY <1>9, <1>12, <1>14, <2>2, <2>4, <2>5, <2>6, LocalStep
<1> QED BY <1>15, <1>16

(* A handler ends. *)
LEMMA TrapReturnKeeps ==
  ASSUME HInv, NEW h \in Harts, NEW lk, stack[Cur(h)] # <<>>, HandlerFrame(Head(stack[Cur(h)]), lk),
         TrapReturn(h, lk), Wakes(proc')
  PROVE  HInv'
<1>1. PICK l \in Locks : InTrap(Cur(h), stack[Cur(h)], l) /\ LocksOf(h) = {l} /\ hart[h].noff = 1
  BY TrapTop DEF HandlerFrame, TrapAts
<1>2. l = lk /\ Base(Cur(h), Tail(stack[Cur(h)])) BY <1>1 DEF InTrap, HandlerFrame
<1> QED BY <1>1, <1>2, ReturnTrap

LEMMA TickKeeps ==
  ASSUME HInv, NEW h \in Harts, Tick(h)
  PROVE  HInv'
<1>1. HandlerFrame(Plain("clockintr"), "ticks") BY DEF HandlerFrame, Plain
<1>2. Handler(<<Plain("clockintr")>>, "ticks") BY <1>1 DEF Handler
<1> QED BY <1>2, TrapKeeps DEF Tick

(* A process leaves its hart in a trap. *)
LEMMA YieldStack ==
  ASSUME NEW p \in Procs, NEW b, IsList(b), Base(p, b)
  PROVE  \E s : /\ s = <<[at |-> "resume", intena |-> FALSE], Plain("trapret")>> \o b
                /\ IsList(s) /\ Parked(p, s)
<1> PICK r : r = [at |-> "resume", intena |-> FALSE]
  OBVIOUS
<1> PICK g : g = Plain("trapret")
  OBVIOUS
<1>1. r.at = "resume" /\ r.intena = FALSE /\ g.at = "trapret" BY DEF Plain
<1>2. PICK t : t = <<g>> \o b OBVIOUS
<1>3. IsList(t) /\ t # <<>> /\ Head(t) = g /\ Tail(t) = b BY <1>2, OnTop
<1>4. PICK s : s = <<r>> \o t OBVIOUS
<1>5. IsList(s) /\ s # <<>> /\ Head(s) = r /\ Tail(s) = t BY <1>3, <1>4, OnTop
<1>6. <<r, g>> \o b = s
  <2>1. <<r, g>> = <<r>> \o <<g>> BY Joined
  <2>2. (<<r>> \o <<g>>) \o b = <<r>> \o (<<g>> \o b) BY Single, OnTopMore
  <2> QED BY <1>2, <1>4, <2>1, <2>2
<1>7. Parked(p, s) BY <1>1, <1>3, <1>5 DEF Parked
<1> QED BY <1>5, <1>6, <1>7

LEMMA YieldProc ==
  ASSUME NEW p \in Procs, NEW ps, Wakes(ps), proc' = [ps EXCEPT ![p].state = "RUNNABLE"]
  PROVE  proc' = [ps EXCEPT ![p] = proc'[p]] /\ ProcRec(proc'[p]) /\ proc'[p].state = "RUNNABLE"
<1>1. ps = [q \in Procs |-> ps[q]] BY DEF Wakes
<1>2. PICK e : e = ps[p] /\ e = [state |-> e.state, chan |-> e.chan, killed |-> e.killed]
  BY DEF Wakes, ProcRec
<1>3. PICK v : v = [e EXCEPT !.state = "RUNNABLE"] OBVIOUS
<1>4. v = [state |-> "RUNNABLE", chan |-> e.chan, killed |-> e.killed] BY <1>2, <1>3
<1>5. proc' = [ps EXCEPT ![p] = v] BY <1>1, <1>2, <1>3
<1>6. proc'[p] = v BY <1>1, <1>5
<1>7. ProcRec(v) /\ v.state = "RUNNABLE" BY <1>4 DEF ProcRec, States
<1> QED BY <1>5, <1>6, <1>7

LEMMA PreemptKeeps ==
  ASSUME HInv, NEW h \in Harts, Preempt(h)
  PROVE  HInv'
<1>1. hart[h].intr /\ hart[h].proc # None BY Zenon DEF Preempt
<1>2. PICK p \in Procs : p = hart[h].proc /\ p = Cur(h) BY <1>1, CurFacts
<1>3. Base(p, stack[p]) /\ LocksOf(h) = {} BY <1>1, <1>2, Interruptible
<1>4. PICK b : b = stack[p] /\ IsList(b) BY <1>2, CurFacts
<1>5. PICK c \in HartRec : c = Yielded(hart[h]) /\ c.proc = None /\ c.noff = 0
  BY CurFacts, LeftFacts
<1>6. PICK s : s = <<[at |-> "resume", intena |-> FALSE], Plain("trapret")>> \o b /\ IsList(s) /\ Parked(p, s)
  BY <1>3, <1>4, YieldStack
<1>7. /\ hart' = [hart EXCEPT ![h] = c] /\ UNCHANGED lock
      /\ stack' = [stack EXCEPT ![p] = s]
  BY <1>2, <1>4, <1>5, <1>6, Zenon DEF Preempt, HInv, HType
<1>8. Wakes(proc) BY WakesFacts
<1>9. proc' = [proc EXCEPT ![p] = proc'[p]] /\ ProcRec(proc'[p]) /\ proc'[p].state = "RUNNABLE"
  BY <1>2, <1>8, YieldProc, Zenon DEF Preempt
<1>10. /\ lock' \in [Locks -> Harts \cup {None}]
       /\ \A lk \in Locks : lock'[lk] = lock[lk] /\ lock'[lk] # h
  BY <1>3, <1>7 DEF LocksOf, HInv, HType
<1> QED BY <1>2, <1>5, <1>6, <1>7, <1>8, <1>9, <1>10, LeaveStep

LEMMA ClockIntrKeeps ==
  ASSUME HInv, NEW h \in Harts, ClockIntr(h)
  PROVE  HInv'
<1>1. stack[Cur(h)] # <<>> /\ Head(stack[Cur(h)]).at = "clockintr" BY Zenon DEF ClockIntr, At, Runs
<1>2. CASE hart[h].proc = None
  <2>1. TrapReturn(h, "ticks") /\ proc' = Woken(proc, <<"ticks">>) BY <1>2 DEF ClockIntr
  <2>2. HandlerFrame(Head(stack[Cur(h)]), "ticks") BY <1>1 DEF HandlerFrame
  <2>3. Wakes(proc') BY <2>1, WakesFacts
  <2> QED BY <1>1, <2>1, <2>2, <2>3, TrapReturnKeeps
<1>3. CASE hart[h].proc # None
  <2>1. PICK p \in Procs : p = hart[h].proc /\ p = Cur(h) BY <1>3, CurFacts
  <2>2. PICK l \in Locks : InTrap(p, stack[p], l) /\ LocksOf(h) = {l} /\ hart[h].noff = 1
    BY <1>1, <2>1, TrapTop DEF TrapAts
  <2>3. l = "ticks" /\ Base(p, Tail(stack[p])) BY <1>1, <2>1, <2>2 DEF InTrap, HandlerFrame
  <2>4. PICK b : b = Tail(stack[p]) /\ IsList(b) BY <1>1, <2>1, CurFacts, Pop
  <2>5. PopOff(hart[h]) \in HartRec BY <2>2, CurFacts, PopOffFacts
  <2>6. PICK c \in HartRec : c = Yielded(PopOff(hart[h])) /\ c.proc = None /\ c.noff = 0
    BY <2>5, LeftFacts
  <2>7. PICK ps : ps = Woken(proc, <<"ticks">>) /\ Wakes(ps) BY WakesFacts
  <2>8. PICK s : s = <<[at |-> "resume", intena |-> FALSE], Plain("trapret")>> \o b /\ IsList(s) /\ Parked(p, s)
    BY <2>3, <2>4, YieldStack
  <2>9. /\ hart' = [hart EXCEPT ![h] = c] /\ lock' = [lock EXCEPT ![l] = None]
        /\ stack' = [stack EXCEPT ![p] = s]
    BY <1>3, <2>1, <2>3, <2>4, <2>6, <2>8 DEF ClockIntr, Goto, HInv, HType
  <2>10. proc' = [ps EXCEPT ![p] = proc'[p]] /\ ProcRec(proc'[p]) /\ proc'[p].state = "RUNNABLE"
    BY <1>3, <2>1, <2>7, YieldProc DEF ClockIntr
  <2>11. /\ lock' \in [Locks -> Harts \cup {None}]
         /\ \A lk \in Locks : lock'[lk] = lock[lk] \/ (lock[lk] = h /\ lock'[lk] = None)
         /\ \A lk \in Locks : lock'[lk] # h
    BY <2>2, <2>9, Given
  <2> QED BY <2>1, <2>6, <2>7, <2>8, <2>9, <2>10, <2>11, LeaveStep
<1> QED BY <1>2, <1>3

LEMMA TrapDoneKeeps ==
  ASSUME HInv, NEW h \in Harts, TrapDone(h)
  PROVE  HInv'
<1>1. stack[Cur(h)] # <<>> /\ Head(stack[Cur(h)]).at = "trapret" BY Zenon DEF TrapDone, At, Runs
<1>2. Base(Cur(h), Tail(stack[Cur(h)])) /\ LocksOf(h) = {} /\ hart[h].noff = 0 BY <1>1, ReturnTop
<1>3. PICK t : t = Tail(stack[Cur(h)]) /\ IsList(t) /\ <<>> \o t = t BY <1>1, CurFacts, Pop
<1>4. PICK c : c = [hart[h] EXCEPT !.intr = TRUE] OBVIOUS
<1>5. c \in HartRec /\ c.proc = hart[h].proc /\ c.noff = 0 /\ c.intr
  <2>1. hart[h] \in HartRec BY CurFacts
  <2> QED BY <1>2, <1>4, <2>1 DEF HartRec
<1>6. /\ hart' = [hart EXCEPT ![h] = c] /\ stack' = [stack EXCEPT ![Cur(h)] = t] /\ UNCHANGED <<lock, proc>>
  BY <1>3, <1>4 DEF TrapDone, Goto, HInv, HType
<1>7. Mode(Cur(h), c, t, {}) BY <1>2, <1>3, <1>5 DEF Mode
<1>8. lock' \in [Locks -> Harts \cup {None}] /\ LocksOf(h)' = {} BY <1>2, <1>6, Kept
<1>9. Wakes(proc') BY <1>6, WakesFacts
<1> QED BY <1>3, <1>5, <1>6, <1>7, <1>8, <1>9, LocalStep

LEMMA SysSleepKeeps ==
  ASSUME HInv, NEW h \in Harts, SysSleep(h)
  PROVE  HInv' /\ UNCHANGED panic
<1>1. stack[Cur(h)] # <<>> /\ Head(stack[Cur(h)]).at = "sleep" BY Zenon DEF SysSleep, At, Runs
<1>2. CallFrame(Head(stack[Cur(h)]), "ticks") BY <1>1, CallTop DEF CallAts, InCall, CallFrame
<1>3. PICK f : /\ f = [Frame(h) EXCEPT !.since = IF @ = None THEN ticks.now ELSE @]
               /\ \/ Sleep(h, <<"ticks">>, "ticks", proc, <<f>>)
                  \/ Release(h, "ticks", <<>>) /\ UNCHANGED <<proc, ticks, panic>>
  BY DEF SysSleep
<1>4. CallFrame(f, "ticks") BY <1>1, <1>2, <1>3 DEF CallFrame, Frame
<1>5. CASE Sleep(h, <<"ticks">>, "ticks", proc, <<f>>)
  BY <1>1, <1>2, <1>4, <1>5, WakesFacts, SleepKeeps
<1>6. CASE Release(h, "ticks", <<>>) /\ UNCHANGED <<proc, ticks, panic>>
  BY <1>1, <1>2, <1>6, WakesFacts, ReleaseKeeps
<1> QED BY <1>3, <1>5, <1>6

LEMMA HartStepKeeps ==
  ASSUME HInv, NEW h \in Harts, HartStep(h)
  PROVE  HInv' /\ UNCHANGED panic
<1>1. CASE Spin(h) BY <1>1, SpinKeeps DEF Spin
<1>2. CASE Reacquire(h) BY <1>2, ReacquireKeeps
<1>3. CASE LoopTop(h) BY <1>3, LoopTopKeeps, Zenon DEF LoopTop
<1>4. CASE Tick(h) BY <1>4, TickKeeps DEF Tick
<1>5. CASE Preempt(h) BY <1>5, PreemptKeeps, Zenon DEF Preempt
<1>6. CASE ClockIntr(h) BY <1>6, ClockIntrKeeps DEF ClockIntr
<1>7. CASE TrapDone(h) BY <1>7, TrapDoneKeeps DEF TrapDone
<1>8. CASE SysSleep(h) BY <1>8, SysSleepKeeps
<1>9. ASSUME NEW p \in Procs, Pick(h, p) PROVE HInv' /\ UNCHANGED panic BY <1>9, PickKeeps, Zenon DEF Pick
<1> QED BY <1>1, <1>2, <1>3, <1>4, <1>5, <1>6, <1>7, <1>8, <1>9 DEF HartStep

-----------------------------------------------------------------------------
(* The drivers.                                                            *)

(* Outside of any lock a frame ends. *)
LEMMA QuietGo ==
  ASSUME HInv, NEW h \in Harts, stack[Cur(h)] # <<>>, Head(stack[Cur(h)]).at \in {"acquiresleep", "deref"},
         Goto(h, <<>>), UNCHANGED <<hart, lock, proc>>
  PROVE  HInv'
<1>1. /\ Base(Cur(h), stack[Cur(h)]) /\ LocksOf(h) = {} /\ hart[h].noff = 0 /\ hart[h].intr
  BY QuietTop
<1>2. Tail(stack[Cur(h)]) = <<>> BY <1>1 DEF Base
<1>3. stack' = [stack EXCEPT ![Cur(h)] = <<>>] BY <1>2, Empty, Pop DEF Goto
<1>4. PICK c \in HartRec : c = hart[h] BY CurFacts
<1>5. hart' = [hart EXCEPT ![h] = c] BY <1>4 DEF HInv, HType
<1>6. Mode(Cur(h), c, <<>>, {}) BY <1>1, <1>4 DEF Mode, Base
<1>7. lock' \in [Locks -> Harts \cup {None}] /\ LocksOf(h)' = {} BY <1>1, Kept
<1>8. Wakes(proc') BY WakesFacts
<1> QED BY <1>3, <1>4, <1>5, <1>6, <1>7, <1>8, Empty, LocalStep

LEMMA AcquireSleepKeeps ==
  ASSUME HInv, NEW h \in Harts, AcquireSleep(h)
  PROVE  HInv' /\ PanicOK
<1>1. At(h, "acquiresleep") /\ stack[Cur(h)] # <<>> /\ Head(stack[Cur(h)]).at = "acquiresleep"
  BY Zenon DEF AcquireSleep, At, Runs
<1>2. PICK i : /\ i = Frame(h).i
               /\ \/ SleepInside(h, <<"lock", i>>, <<Frame(h)>>)
                  \/ Goto(h, <<>>) /\ UNCHANGED <<hart, lock, proc, ticks, panic>>
                  \/ Acquire(h, "vdisk", <<[at |-> "rw", i |-> i, write |-> FALSE]>>)
  BY DEF AcquireSleep
<1>3. CASE SleepInside(h, <<"lock", i>>, <<Frame(h)>>) BY <1>1, <1>3, SleepInsideKeeps DEF PanicOK
<1>4. CASE Goto(h, <<>>) /\ UNCHANGED <<hart, lock, proc, ticks, panic>>
  BY <1>1, <1>4, QuietGo DEF PanicOK
<1>5. CASE Acquire(h, "vdisk", <<[at |-> "rw", i |-> i, write |-> FALSE]>>)
  <2>1. /\ Base(Cur(h), stack[Cur(h)]) /\ LocksOf(h) = {} /\ hart[h].noff = 0 /\ hart[h].intr
        /\ Cur(h) \in Procs
    BY <1>1, QuietTop
  <2>2. Tail(stack[Cur(h)]) = <<>> BY <1>1, <2>1 DEF Base
  <2>3. PICK f : f = [at |-> "rw", i |-> i, write |-> FALSE] OBVIOUS
  <2>4. CallFrame(f, "vdisk") BY <2>3 DEF CallFrame
  <2>5. PICK t : t = <<f>> OBVIOUS
  <2>6. IsList(t) /\ InCall(t, "vdisk") /\ t \o <<>> = t BY <2>4, <2>5, Single, Joined DEF InCall
  <2>7. "vdisk" \in Locks BY LocksAssumption
  <2>8. Acquire(h, "vdisk", t) /\ InCall(t \o Tail(stack[Cur(h)]), "vdisk") /\ IsList(t \o Tail(stack[Cur(h)]))
    BY <1>5, <2>2, <2>3, <2>5, <2>6
  <2>9. HInv' /\ UNCHANGED panic BY <1>1, <2>1, <2>6, <2>7, <2>8, AcquireKeeps
  <2> QED BY <2>9 DEF PanicOK
<1> QED BY <1>2, <1>3, <1>4, <1>5

LEMMA DiskRwKeeps ==
  ASSUME HInv, NEW h \in Harts, DiskRw(h)
  PROVE  HInv' /\ PanicOK
<1>1. stack[Cur(h)] # <<>> /\ Head(stack[Cur(h)]).at = "rw" BY Zenon DEF DiskRw, At, Runs
<1>2. CallFrame(Head(stack[Cur(h)]), "vdisk") BY <1>1, CallTop DEF CallAts, InCall, CallFrame
<1>3. CASE \E f \in {Frame(h)} : \E idx \in {Lowest3} : Publish(h, f.i, f.write, idx)
  <2>1. PICK i, w, d : Sleep(h, <<"buf", i>>, "vdisk", proc, <<[at |-> "wait", i |-> i, head |-> d, write |-> w]>>)
    BY <1>3 DEF Publish
  <2>2. PICK f : f = [at |-> "wait", i |-> i, head |-> d, write |-> w] OBVIOUS
  <2>3. CallFrame(f, "vdisk") BY <2>2 DEF CallFrame
  <2>4. HInv' /\ UNCHANGED panic BY <1>1, <1>2, <2>1, <2>2, <2>3, WakesFacts, SleepKeeps
  <2> QED BY <2>4 DEF PanicOK
<1>4. CASE \E f \in {Frame(h)} :
             Sleep(h, <<"free">>, "vdisk", IF disk.free = {} THEN proc ELSE Woken(proc, <<"free">>), <<f>>)
  <2>1. PICK ps : /\ ps = (IF disk.free = {} THEN proc ELSE Woken(proc, <<"free">>))
                  /\ Sleep(h, <<"free">>, "vdisk", ps, <<Frame(h)>>)
    BY <1>4
  <2>2. Wakes(ps) BY <2>1, WakesFacts
  <2>3. HInv' /\ UNCHANGED panic BY <1>1, <1>2, <2>1, <2>2, SleepKeeps DEF Frame
  <2> QED BY <2>3 DEF PanicOK
<1> QED BY <1>3, <1>4 DEF DiskRw

LEMMA RwDoneKeeps ==
  ASSUME HInv, NEW h \in Harts, RwDone(h)
  PROVE  HInv' /\ PanicOK
<1>1. stack[Cur(h)] # <<>> /\ Head(stack[Cur(h)]).at = "wait" BY Zenon DEF RwDone, At, Runs
<1>2. CallFrame(Head(stack[Cur(h)]), "vdisk") BY <1>1, CallTop DEF CallAts, InCall, CallFrame
<1>3. CASE Sleep(h, <<"buf", Frame(h).i>>, "vdisk", proc, <<Frame(h)>>)
  <2>1. HInv' /\ UNCHANGED panic BY <1>1, <1>2, <1>3, WakesFacts, SleepKeeps DEF Frame
  <2> QED BY <2>1 DEF PanicOK
<1>4. CASE Panic("free_desc") BY <1>4, Unmoved DEF Panic, PanicOK, OtherPanics
<1>5. CASE proc' = Woken(proc, <<"free">>) /\ Release(h, "vdisk", <<>>) /\ UNCHANGED <<ticks, panic>>
  BY <1>1, <1>2, <1>5, WakesFacts, ReleaseKeeps DEF PanicOK
<1> QED BY <1>3, <1>4, <1>5 DEF RwDone

(* The acknowledgement goes on with the used ring. *)
LEMMA AckKeeps ==
  ASSUME HInv, NEW h \in Harts, Ack(h)
  PROVE  HInv' /\ PanicOK
<1>1. stack[Cur(h)] # <<>> /\ Head(stack[Cur(h)]).at = "ack" BY Zenon DEF Ack, At, Runs
<1>2. PICK lk \in Locks : /\ InTrap(Cur(h), stack[Cur(h)], lk) /\ LocksOf(h) = {lk}
                          /\ hart[h].noff = 1 /\ ~hart[h].intr /\ ~hart[h].intena
  BY <1>1, TrapTop DEF TrapAts
<1>3. lk = "vdisk" /\ Base(Cur(h), Tail(stack[Cur(h)])) BY <1>1, <1>2 DEF InTrap, HandlerFrame
<1>4. PICK s : s = Tail(stack[Cur(h)]) /\ IsList(s) BY <1>1, CurFacts, Pop
<1>5. PICK f : f = Plain("drain") OBVIOUS
<1>6. PICK t : t = <<f>> \o s OBVIOUS
<1>7. IsList(t) /\ t # <<>> /\ Head(t) = f /\ Tail(t) = s BY <1>4, <1>6, OnTop
<1>8. f.at = "drain" BY <1>5 DEF Plain
<1>9. stack' = [stack EXCEPT ![Cur(h)] = t] /\ UNCHANGED <<hart, lock, proc, panic>>
  BY <1>4, <1>5, <1>6 DEF Ack, Goto, HInv, HType
<1>10. PICK c \in HartRec : c = hart[h] BY CurFacts
<1>11. hart' = [hart EXCEPT ![h] = c] BY <1>9, <1>10 DEF HInv, HType
<1>12. InTrap(Cur(h), t, lk) BY <1>3, <1>4, <1>7, <1>8 DEF InTrap, HandlerFrame
<1>13. Mode(Cur(h), c, t, {lk}) BY <1>2, <1>10, <1>12 DEF Mode
<1>14. lock' \in [Locks -> Harts \cup {None}] /\ LocksOf(h)' = {lk} BY <1>2, <1>9, Kept
<1>15. Wakes(proc') BY <1>9, WakesFacts
<1>16. HInv' BY <1>7, <1>9, <1>10, <1>11, <1>13, <1>14, <1>15, LocalStep
<1> QED BY <1>9, <1>16 DEF PanicOK

LEMMA DrainKeeps ==
  ASSUME HInv, NEW h \in Harts, Drain(h)
  PROVE  HInv' /\ PanicOK
<1>1. stack[Cur(h)] # <<>> /\ Head(stack[Cur(h)]).at = "drain" BY Zenon DEF Drain, At, Runs
<1>2. HandlerFrame(Head(stack[Cur(h)]), "vdisk") BY <1>1 DEF HandlerFrame
<1>3. CASE TrapReturn(h, "vdisk") /\ UNCHANGED <<proc, panic>>
  BY <1>1, <1>2, <1>3, WakesFacts, TrapReturnKeeps DEF PanicOK
<1>4. CASE Panic("virtio_disk_intr") BY <1>4, Unmoved DEF Panic, PanicOK, OtherPanics
<1>5. CASE \E r : Finished(r) /\ UNCHANGED <<hart, lock, stack, ticks, panic>>
  BY <1>5, WakesFacts, Woke DEF Finished, PanicOK
<1> QED BY <1>3, <1>4, <1>5 DEF Drain

LEMMA CacheStepKeeps ==
  ASSUME HInv, NEW h \in Harts, CacheStep(h)
  PROVE  HInv' /\ PanicOK
<1>1. CASE Deref(h) BY <1>1, QuietGo, Zenon DEF Deref, At, Runs, PanicOK
<1> QED BY <1>1, AcquireSleepKeeps, DiskRwKeeps, RwDoneKeeps, AckKeeps, DrainKeeps DEF CacheStep

LEMMA ConsoleReadKeeps ==
  ASSUME HInv, NEW h \in Harts, ConsoleRead(h)
  PROVE  HInv' /\ UNCHANGED panic
<1>1. stack[Cur(h)] # <<>> /\ Head(stack[Cur(h)]).at = "consoleread" BY Zenon DEF ConsoleRead, At, Runs
<1>2. CallFrame(Head(stack[Cur(h)]), "cons") BY <1>1, CallTop DEF CallAts, InCall, CallFrame
<1>3. CASE Release(h, "cons", <<>>) /\ UNCHANGED <<proc, ticks, panic>>
  BY <1>1, <1>2, <1>3, WakesFacts, ReleaseKeeps
<1>4. CASE Sleep(h, <<"line">>, "cons", proc, <<Frame(h)>>)
  BY <1>1, <1>2, <1>4, WakesFacts, SleepKeeps DEF Frame
<1>5. CASE Goto(h, <<[Frame(h) EXCEPT !.n = @ - 1]>>) /\ UNCHANGED <<hart, lock, proc, ticks, panic>>
  <2>1. PICK f : f = [Frame(h) EXCEPT !.n = @ - 1] OBVIOUS
  <2>2. CallFrame(f, "cons") BY <1>1, <1>2, <2>1 DEF CallFrame, Frame
  <2> QED BY <1>1, <1>2, <1>5, <2>1, <2>2, Turn
<1> QED BY <1>3, <1>4, <1>5 DEF ConsoleRead

LEMMA UartPutcKeeps ==
  ASSUME HInv, NEW h \in Harts, UartPutc(h)
  PROVE  HInv' /\ UNCHANGED panic
<1>1. stack[Cur(h)] # <<>> /\ Head(stack[Cur(h)]).at = "putc" BY Zenon DEF UartPutc, At, Runs
<1>2. CallFrame(Head(stack[Cur(h)]), "uart") BY <1>1, CallTop DEF CallAts, InCall, CallFrame
<1>3. CASE Sleep(h, <<"tx">>, "uart", proc, <<Frame(h)>>)
  BY <1>1, <1>2, <1>3, WakesFacts, SleepKeeps DEF Frame
<1>4. CASE /\ proc' = IF Idle THEN Woken(proc, <<"tx">>) ELSE proc
           /\ Release(h, "uart", <<>>) /\ UNCHANGED <<ticks, panic>>
  <2>1. Wakes(proc') BY <1>4, WakesFacts
  <2> QED BY <1>1, <1>2, <1>4, <2>1, ReleaseKeeps
<1> QED BY <1>3, <1>4 DEF UartPutc

(* What uartintr() needs next. *)
LEMMA UartNextFacts == Handler(UartNext[2], UartNext[1])
<1>1. CASE uart.rx = <<>>
  <2>1. HandlerFrame(Plain("start"), "uart") BY DEF HandlerFrame, Plain
  <2>2. Handler(<<Plain("start")>>, "uart") BY <2>1 DEF Handler
  <2> QED BY <1>1, <2>2 DEF UartNext
<1>2. CASE uart.rx # <<>>
  <2>1. PICK f : f = [at |-> "consoleintr", c |-> Head(uart.rx)] OBVIOUS
  <2>2. f.at = "consoleintr" /\ Plain("uartintr").at = "uartintr" BY <2>1 DEF Plain
  <2>3. Handler(<<f, Plain("uartintr")>>, "cons") BY <2>2 DEF Handler
  <2> QED BY <1>2, <2>1, <2>3 DEF UartNext
<1> QED BY <1>1, <1>2

LEMMA UartIntrKeeps ==
  ASSUME HInv, NEW h \in Harts, UartIntr(h)
  PROVE  HInv' /\ UNCHANGED panic
<1>1. stack[Cur(h)] # <<>> /\ Head(stack[Cur(h)]).at = "uartintr" BY Zenon DEF UartIntr, At, Runs
<1>2. Base(Cur(h), Tail(stack[Cur(h)])) /\ LocksOf(h) = {} /\ hart[h].noff = 0 /\ ~hart[h].intr
  BY <1>1, ReturnTop
<1>3. PICK s : s = Tail(stack[Cur(h)]) /\ IsList(s) BY <1>1, CurFacts, Pop
<1>4. PICK lk, fs : lk = UartNext[1] /\ fs = UartNext[2] OBVIOUS
<1>5. lk \in Locks /\ IsList(fs) /\ IsList(fs \o s) /\ InTrap(Cur(h), fs \o s, lk)
  BY <1>2, <1>3, <1>4, UartNextFacts, HandlerFacts
<1>6. Acquire(h, lk, fs) BY <1>4 DEF UartIntr
<1> QED BY <1>1, <1>2, <1>3, <1>5, <1>6, AcquireKeeps

(* consoleintr() ends, and uartintr() goes on. *)
LEMMA ConsoleIntrKeeps ==
  ASSUME HInv, NEW h \in Harts, At(h, "consoleintr"), Release(h, "cons", <<>>), Wakes(proc')
  PROVE  HInv'
<1>1. stack[Cur(h)] # <<>> /\ Head(stack[Cur(h)]).at = "consoleintr" BY Zenon DEF At, Runs
<1>2. PICK lk \in Locks : /\ InTrap(Cur(h), stack[Cur(h)], lk) /\ LocksOf(h) = {lk}
                          /\ hart[h].noff = 1 /\ ~hart[h].intr /\ ~hart[h].intena
  BY <1>1, TrapTop DEF TrapAts
<1>3. PICK t : t = Tail(stack[Cur(h)]) /\ IsList(t) /\ <<>> \o t = t BY <1>1, CurFacts, Pop
<1>4. lk = "cons" /\ t # <<>> /\ Head(t).at = "uartintr" /\ Base(Cur(h), Tail(t))
  BY <1>1, <1>2, <1>3 DEF InTrap, HandlerFrame
<1>5. PICK c \in HartRec : c = PopOff(hart[h]) /\ c.proc = hart[h].proc /\ c.noff = 0 /\ ~c.intr
  BY <1>2, CurFacts, PopOffFacts
<1>6. hart' = [hart EXCEPT ![h] = c] /\ lock' = [lock EXCEPT ![lk] = None] /\ stack' = [stack EXCEPT ![Cur(h)] = t]
  BY <1>3, <1>4, <1>5 DEF Release, Goto, HInv, HType
<1>7. Mode(Cur(h), c, t, {}) BY <1>4, <1>5 DEF Mode
<1> QED BY <1>2, <1>3, <1>5, <1>6, <1>7, GiveBack

LEMMA KillLineKeeps ==
  ASSUME HInv, NEW h \in Harts, KillLine(h)
  PROVE  HInv' /\ UNCHANGED panic
<1>1. At(h, "consoleintr") /\ UNCHANGED <<proc, panic>> BY DEF KillLine
<1>2. UNCHANGED <<hart, lock, stack>> \/ Release(h, "cons", <<>>) BY DEF KillLine
<1>3. CASE UNCHANGED <<hart, lock, stack>> BY <1>1, <1>3, Unmoved
<1>4. CASE Release(h, "cons", <<>>) BY <1>1, <1>4, WakesFacts, ConsoleIntrKeeps
<1> QED BY <1>1, <1>2, <1>3, <1>4

LEMMA BackspaceKeeps ==
  ASSUME HInv, NEW h \in Harts, Backspace(h)
  PROVE  HInv' /\ UNCHANGED panic
<1>1. At(h, "consoleintr") /\ UNCHANGED <<proc, panic>> /\ Release(h, "cons", <<>>)
  BY DEF Backspace
<1> QED BY <1>1, WakesFacts, ConsoleIntrKeeps

LEMMA CharacterKeeps ==
  ASSUME HInv, NEW h \in Harts, Character(h)
  PROVE  HInv' /\ UNCHANGED panic
<1>1. At(h, "consoleintr") /\ UNCHANGED panic /\ Release(h, "cons", <<>>) BY DEF Character
<1>2. proc' = Woken(proc, <<"line">>) \/ proc' = proc BY DEF Character
<1>3. Wakes(proc') BY <1>2, WakesFacts
<1> QED BY <1>1, <1>3, ConsoleIntrKeeps

LEMMA UartDoneKeeps ==
  ASSUME HInv, NEW h \in Harts, UartDone(h)
  PROVE  HInv' /\ UNCHANGED panic
<1>1. stack[Cur(h)] # <<>> /\ Head(stack[Cur(h)]).at = "start"
  BY Zenon DEF UartDone, UartIntrStart, At, Runs
<1>2. HandlerFrame(Head(stack[Cur(h)]), "uart") BY <1>1 DEF HandlerFrame
<1>3. /\ proc' = IF Sends THEN Woken(proc, <<"tx">>) ELSE proc
      /\ TrapReturn(h, "uart") /\ UNCHANGED panic
  BY DEF UartDone, UartIntrStart
<1>4. Wakes(proc') BY <1>3, WakesFacts
<1> QED BY <1>1, <1>2, <1>3, <1>4, TrapReturnKeeps

LEMMA ConsoleStepKeeps ==
  ASSUME HInv, NEW h \in Harts, ConsoleStep(h)
  PROVE  HInv' /\ UNCHANGED panic
BY ConsoleReadKeeps, UartPutcKeeps, UartIntrKeeps, KillLineKeeps, BackspaceKeeps, CharacterKeeps DEF ConsoleStep

-----------------------------------------------------------------------------
(* The calls.                                                              *)

LEMMA ReadyFacts ==
  ASSUME HInv, NEW h \in Harts, hart[h].proc # None, stack[hart[h].proc] = <<>>
  PROVE  /\ hart[h].proc \in Procs /\ Cur(h) = hart[h].proc /\ hart[h] \in HartRec
         /\ hart[h].noff = 0 /\ hart[h].intr /\ LocksOf(h) = {}
<1>1. Cur(h) = hart[h].proc /\ Cur(h) \in Procs /\ hart[h] \in HartRec BY CurFacts
<1> QED BY <1>1, NoFrame

LEMMA BeginKeeps ==
  ASSUME HInv, NEW h \in Harts, hart[h].proc # None, stack[hart[h].proc] = <<>>,
         NEW lk, NEW f, CallFrame(f, lk), Begin(h, lk, f)
  PROVE  HInv' /\ UNCHANGED panic
<1>1. /\ hart[h].proc \in Procs /\ Cur(h) = hart[h].proc
      /\ hart[h].noff = 0 /\ hart[h].intr /\ LocksOf(h) = {}
  BY ReadyFacts
<1>2. lk \in Locks BY LocksAssumption DEF CallFrame
<1>3. PICK c \in HartRec : c = PushOff(hart[h]) /\ c.proc = hart[h].proc /\ c.noff = 1 /\ ~c.intr /\ c.intena
  BY <1>1, ReadyFacts, PushOffFacts
<1>4. PICK g : g = [at |-> "spin", lk |-> lk] OBVIOUS
<1>5. g.at = "spin" /\ g.lk = lk BY <1>4
<1>6. PICK t : t = <<f>> OBVIOUS
<1>7. IsList(t) /\ InCall(t, lk) BY <1>6, Single DEF InCall
<1>8. /\ hart' = [hart EXCEPT ![h] = c] /\ UNCHANGED <<proc, panic>>
      /\ \/ lock[lk] = None /\ lock' = [lock EXCEPT ![lk] = h] /\ stack' = [stack EXCEPT ![Cur(h)] = t]
         \/ lock[lk] # None /\ UNCHANGED lock /\ stack' = [stack EXCEPT ![Cur(h)] = <<g, f>>]
  BY <1>1, <1>3, <1>4, <1>6 DEF Begin, Push, HInv, HType
<1>9. Wakes(proc') BY <1>8, WakesFacts
<1>10. CASE lock[lk] = None
  <2>1. lock' = [lock EXCEPT ![lk] = h] /\ stack' = [stack EXCEPT ![Cur(h)] = t] BY <1>8, <1>10
  <2>2. Mode(Cur(h), c, t, {lk}) BY <1>1, <1>2, <1>3, <1>7 DEF Mode
  <2>3. /\ lock' \in [Locks -> Harts \cup {None}]
        /\ \A l \in Locks : lock'[l] = lock[l] \/ (lock[l] \in {h, None} /\ lock'[l] \in {h, None})
        /\ LocksOf(h)' = {lk}
    BY <1>1, <1>2, <1>10, <2>1, Taken
  <2>4. HInv' BY <1>3, <1>7, <1>8, <1>9, <2>1, <2>2, <2>3, LocalStep
  <2> QED BY <1>8, <2>4
<1>11. CASE lock[lk] # None
  <2>1. PICK u : u = <<g>> \o t OBVIOUS
  <2>2. IsList(u) /\ u # <<>> /\ Head(u) = g /\ Tail(u) = t BY <1>7, <2>1, OnTop
  <2>3. <<g, f>> = u BY <1>6, <2>1, Joined
  <2>4. UNCHANGED lock /\ stack' = [stack EXCEPT ![Cur(h)] = u] BY <1>8, <1>11, <2>3
  <2>5. Mode(Cur(h), c, u, {}) BY <1>1, <1>2, <1>3, <1>5, <1>7, <2>2 DEF Mode
  <2>6. lock' \in [Locks -> Harts \cup {None}] /\ LocksOf(h)' = {} BY <1>1, <2>4, Kept
  <2>7. HInv' BY <1>3, <1>8, <1>9, <2>2, <2>4, <2>5, <2>6, LocalStep
  <2> QED BY <1>8, <2>7
<1> QED BY <1>10, <1>11

(* The process goes on with interrupts on in a frame that holds no lock. *)
LEMMA PushKeeps ==
  ASSUME HInv, NEW h \in Harts, hart[h].proc # None, stack[hart[h].proc] = <<>>,
         NEW f, f.at \in {"acquiresleep", "deref"}, Push(h, <<f>>), UNCHANGED <<hart, lock>>, Wakes(proc')
  PROVE  HInv'
<1>1. /\ hart[h].proc \in Procs /\ Cur(h) = hart[h].proc
      /\ hart[h].noff = 0 /\ hart[h].intr /\ LocksOf(h) = {}
  BY ReadyFacts
<1>2. PICK c \in HartRec : c = hart[h] BY CurFacts
<1>3. PICK t : t = <<f>> OBVIOUS
<1>4. IsList(t) /\ Base(Cur(h), t) BY <1>1, <1>3, Single DEF Base
<1>5. hart' = [hart EXCEPT ![h] = c] /\ stack' = [stack EXCEPT ![Cur(h)] = t]
  BY <1>1, <1>2, <1>3 DEF Push, HInv, HType
<1>6. Mode(Cur(h), c, t, {}) BY <1>1, <1>2, <1>4 DEF Mode
<1>7. lock' \in [Locks -> Harts \cup {None}] /\ LocksOf(h)' = {} BY <1>1, Kept
<1> QED BY <1>2, <1>4, <1>5, <1>6, <1>7, LocalStep

LEMMA CallBreadKeeps ==
  ASSUME HInv, NEW h \in Harts, CallBread(h)
  PROVE  HInv' /\ PanicOK
<1>1. hart[h].proc # None /\ stack[hart[h].proc] = <<>> BY Zenon DEF CallBread, Ready
<1>2. CASE Panic("bget") BY <1>2, Unmoved DEF Panic, PanicOK, OtherPanics
<1>3. CASE \E i : NoChange /\ Push(h, <<[at |-> "acquiresleep", i |-> i]>>)
  <2>1. PICK i, f : f = [at |-> "acquiresleep", i |-> i] /\ NoChange /\ Push(h, <<f>>) BY <1>3
  <2>2. f.at \in {"acquiresleep", "deref"} BY <2>1
  <2>3. UNCHANGED <<hart, lock, proc, panic>> BY <2>1 DEF NoChange
  <2>4. Wakes(proc') BY <2>3, WakesFacts
  <2> QED BY <1>1, <2>1, <2>2, <2>3, <2>4, PushKeeps DEF PanicOK
<1> QED BY <1>2, <1>3 DEF CallBread

LEMMA CallBrelseKeeps ==
  ASSUME HInv, NEW h \in Harts, CallBrelse(h)
  PROVE  HInv' /\ PanicOK
<1>1. hart[h].proc # None /\ stack[hart[h].proc] = <<>> /\ UNCHANGED <<hart, lock, panic>>
  BY Zenon DEF CallBrelse, Ready
<1>2. PICK i : proc' = Woken(proc, <<"lock", i>>) /\ Push(h, <<[at |-> "deref", i |-> i]>>)
  BY DEF CallBrelse
<1>3. PICK f : f = [at |-> "deref", i |-> i] OBVIOUS
<1>4. f.at \in {"acquiresleep", "deref"} /\ Push(h, <<f>>) BY <1>2, <1>3
<1>5. Wakes(proc') BY <1>2, WakesFacts
<1> QED BY <1>1, <1>4, <1>5, PushKeeps DEF PanicOK

LEMMA BeginsKeep ==
  ASSUME HInv, NEW h \in Harts, CallBwrite(h) \/ CallRead(h) \/ CallWrite(h) \/ CallSleep(h)
  PROVE  HInv' /\ UNCHANGED panic
<1>1. hart[h].proc # None /\ stack[hart[h].proc] = <<>>
  BY Zenon DEF CallBwrite, CallRead, CallWrite, CallSleep, Ready
<1>2. CASE CallBwrite(h)
  <2>1. PICK f : f = [at |-> "rw", i |-> Buffer(h), write |-> TRUE] OBVIOUS
  <2>2. CallFrame(f, "vdisk") /\ Begin(h, "vdisk", f) BY <1>2, <2>1 DEF CallFrame, CallBwrite
  <2> QED BY <1>1, <2>2, BeginKeeps
<1>3. CASE CallRead(h)
  <2>1. PICK f : f = [at |-> "consoleread", n |-> Call(h).n, target |-> Call(h).n] OBVIOUS
  <2>2. CallFrame(f, "cons") /\ Begin(h, "cons", f) BY <1>3, <2>1 DEF CallFrame, CallRead
  <2> QED BY <1>1, <2>2, BeginKeeps
<1>4. CASE CallWrite(h)
  <2>1. PICK f : f = [at |-> "putc", c |-> Call(h).c] OBVIOUS
  <2>2. CallFrame(f, "uart") /\ Begin(h, "uart", f) BY <1>4, <2>1 DEF CallFrame, CallWrite
  <2> QED BY <1>1, <2>2, BeginKeeps
<1>5. CASE CallSleep(h)
  <2>1. PICK f : f = [at |-> "sleep", n |-> Call(h).n, since |-> None] OBVIOUS
  <2>2. CallFrame(f, "ticks") /\ Begin(h, "ticks", f) BY <1>5, <2>1 DEF CallFrame, CallSleep
  <2> QED BY <1>1, <2>2, BeginKeeps
<1> QED BY <1>2, <1>3, <1>4, <1>5

LEMMA CallKillKeeps ==
  ASSUME HInv, NEW h \in Harts, CallKill(h)
  PROVE  HInv' /\ PanicOK
<1>1. UNCHANGED <<hart, lock, stack, panic>> BY DEF CallKill
<1>2. PICK p : proc' = [proc EXCEPT ![p].killed = TRUE, ![p].chan = IF proc[p].state = "SLEEPING" THEN None ELSE @,
                                    ![p].state = IF @ = "SLEEPING" THEN "RUNNABLE" ELSE @]
  BY Zenon DEF CallKill
<1>3. proc = [q \in Procs |-> proc[q]] /\ \A q \in Procs : ProcRec(proc[q]) BY Zenon DEF HInv, HType
<1>4. CASE p \in Procs
  <2>1. PICK e : e = proc[p] /\ e = [state |-> e.state, chan |-> e.chan, killed |-> e.killed] /\ e.state \in States
    BY <1>3, <1>4 DEF ProcRec
  <2>2. PICK v : v = [e EXCEPT !.killed = TRUE, !.chan = IF proc[p].state = "SLEEPING" THEN None ELSE @,
                               !.state = IF @ = "SLEEPING" THEN "RUNNABLE" ELSE @]
    OBVIOUS
  <2>3. v = [state |-> IF e.state = "SLEEPING" THEN "RUNNABLE" ELSE e.state,
             chan |-> IF proc[p].state = "SLEEPING" THEN None ELSE e.chan, killed |-> TRUE]
    BY <2>1, <2>2
  <2>4. ProcRec(v) /\ (v.state = e.state \/ (e.state = "SLEEPING" /\ v.state = "RUNNABLE"))
    BY <2>1, <2>3 DEF ProcRec, States
  <2>5. proc' = [proc EXCEPT ![p] = v] BY <1>2, <1>3, <1>4, <2>1, <2>2
  <2>6. Wakes(proc') BY <1>3, <1>4, <2>1, <2>4, <2>5 DEF Wakes
  <2> QED BY <1>1, <2>6, Woke DEF PanicOK
<1>5. CASE p \notin Procs
  <2>1. proc' = proc BY <1>2, <1>3, <1>5
  <2> QED BY <1>1, <2>1, Unmoved DEF PanicOK
<1> QED BY <1>4, <1>5

LEMMA ExitKeeps ==
  ASSUME HInv, NEW h \in Harts, Exit(h)
  PROVE  HInv' /\ PanicOK
<1>1. hart[h].proc # None /\ stack[hart[h].proc] = <<>> /\ UNCHANGED <<lock, stack, panic>>
  BY Zenon DEF Exit
<1>2. PICK p \in Procs : p = hart[h].proc /\ p = Cur(h) BY <1>1, ReadyFacts
<1>3. LocksOf(h) = {} /\ PushOff(hart[h]) \in HartRec BY <1>1, ReadyFacts, PushOffFacts
<1>4. PICK c \in HartRec : c = LeftTo(PushOff(hart[h]), 1) /\ c.proc = None /\ c.noff = 0
  BY <1>3, LeftFacts
<1>5. PICK s : s = stack[p] /\ IsList(s) BY <1>2, CurFacts
<1>6. hart' = [hart EXCEPT ![h] = c] /\ stack' = [stack EXCEPT ![p] = s]
  BY <1>1, <1>2, <1>4, <1>5, Zenon DEF Exit, HInv, HType
<1>7. /\ lock' \in [Locks -> Harts \cup {None}]
      /\ \A lk \in Locks : lock'[lk] = lock[lk] /\ lock'[lk] # h
  BY <1>1, <1>3 DEF LocksOf, HInv, HType
<1>8. Wakes(proc) BY WakesFacts
<1>9. proc' = [proc EXCEPT ![p] = proc'[p]] /\ ProcRec(proc'[p]) /\ proc'[p].state = "ZOMBIE"
  <2>1. proc = [q \in Procs |-> proc[q]] BY Zenon DEF HInv, HType
  <2>2. PICK e : e = proc[p] /\ e = [state |-> e.state, chan |-> e.chan, killed |-> e.killed]
    BY Zenon DEF HInv, HType, ProcRec
  <2>3. PICK v : v = [e EXCEPT !.state = "ZOMBIE"] OBVIOUS
  <2>4. v = [state |-> "ZOMBIE", chan |-> e.chan, killed |-> e.killed] BY <2>2, <2>3
  <2>5. proc' = [proc EXCEPT ![p] = v] BY <1>2, <2>1, <2>2, <2>3, Zenon DEF Exit
  <2>6. proc'[p] = v BY <2>1, <2>5
  <2>7. ProcRec(v) /\ v.state = "ZOMBIE" BY <2>4 DEF ProcRec, States
  <2> QED BY <2>5, <2>6, <2>7
<1>10. HInv' BY <1>2, <1>4, <1>5, <1>6, <1>7, <1>8, <1>9, LeaveStep
<1> QED BY <1>1, <1>10 DEF PanicOK

LEMMA CallsKeep ==
  ASSUME HInv, NEW h \in Harts, Calls(h)
  PROVE  HInv' /\ PanicOK
<1>1. CASE CallModify(h) \/ CallPin(h) \/ CallReturn(h)
  <2>1. UNCHANGED <<hart, lock, proc, stack, panic>>
    BY <1>1 DEF CallModify, CallPin, CallReturn, NoChange
  <2> QED BY <2>1, Unmoved DEF PanicOK
<1>2. CASE CallBwrite(h) \/ CallRead(h) \/ CallWrite(h) \/ CallSleep(h)
  BY <1>2, BeginsKeep DEF PanicOK
<1> QED BY <1>1, <1>2, CallBreadKeeps, CallBrelseKeeps, CallKillKeeps, ExitKeeps DEF Calls

LEMMA ExternalKeeps ==
  ASSUME HInv, NEW h \in Harts, External(h)
  PROVE  HInv' /\ UNCHANGED panic
<1>1. UNCHANGED <<proc, panic>> BY DEF External
<1>2. \/ Trap(h, "vdisk", <<Plain("ack")>>)
      \/ Trap(h, UartNext[1], UartNext[2])
  BY DEF External
<1>3. HandlerFrame(Plain("ack"), "vdisk") BY DEF HandlerFrame, Plain
<1>4. Handler(<<Plain("ack")>>, "vdisk") BY <1>3 DEF Handler
<1> QED BY <1>1, <1>2, <1>4, UartNextFacts, TrapKeeps

-----------------------------------------------------------------------------
(* The inductive invariant.                                                *)

LEMMA NextKeeps ==
  ASSUME HInv, [Next]_vars
  PROVE  HInv' /\ PanicOK
<1>1. ASSUME NEW h \in Harts, HartStep(h) PROVE HInv' /\ PanicOK BY <1>1, HartStepKeeps DEF PanicOK
<1>2. ASSUME NEW h \in Harts, CacheStep(h) PROVE HInv' /\ PanicOK BY <1>2, CacheStepKeeps
<1>3. ASSUME NEW h \in Harts, ConsoleStep(h) PROVE HInv' /\ PanicOK
  BY <1>3, ConsoleStepKeeps DEF PanicOK
<1>4. ASSUME NEW h \in Harts, Calls(h) PROVE HInv' /\ PanicOK BY <1>4, CallsKeep
<1>5. ASSUME NEW h \in Harts, External(h) PROVE HInv' /\ PanicOK BY <1>5, ExternalKeeps DEF PanicOK
<1>6. ASSUME NEW h \in Harts, UartDone(h) PROVE HInv' /\ PanicOK BY <1>6, UartDoneKeeps DEF PanicOK
<1>7. CASE KeyPress \/ Transmitted \/ (\E d \in Descs : DiskDone(d)) \/ Idling \/ UNCHANGED vars
  <2>1. UNCHANGED <<hart, lock, proc, stack, panic>>
    BY <1>7, Zenon DEF KeyPress, Transmitted, DiskDone, DeviceDone, Idling, vars
  <2> QED BY <2>1, Unmoved DEF PanicOK
<1> QED BY <1>1, <1>2, <1>3, <1>4, <1>5, <1>6, <1>7 DEF Next

LEMMA InitHolds == Init => HInv /\ panic = ""
<1> SUFFICES ASSUME Init PROVE HInv /\ panic = ""
  BY Zenon
<1>1. PICK online, n : HartsInit(online, n) /\ online \subseteq Harts
  BY WorkloadsAssumption, Zenon DEF Init
<1>2. None \notin Procs /\ None \notin Harts /\ Procs \cap Harts = {} BY HartsAssumption
<1>3. /\ hart = [h \in Harts |-> [proc |-> None, noff |-> 0, intena |-> FALSE, intr |-> h \in online]]
      /\ lock = [lk \in Locks |-> None]
      /\ proc = [p \in Procs |-> [state |-> "RUNNABLE", chan |-> None, killed |-> FALSE]]
      /\ panic = ""
  BY <1>1, Zenon DEF HartsInit
<1>4. PICK r, o : r = [at |-> "resume", intena |-> TRUE] /\ o = Plain("off") OBVIOUS
<1>5. r.at = "resume" /\ r.intena = TRUE /\ o.at = "off" BY <1>4 DEF Plain
<1>6. /\ stack = [x \in Procs \cup Harts |-> stack[x]]
      /\ \A p \in Procs : stack[p] = <<r>>
      /\ \A h \in Harts : stack[h] = IF h \in online THEN <<>> ELSE <<o>>
  <2> DEFINE F(x) == CASE x \in Procs -> <<[at |-> "resume", intena |-> TRUE]>>
                       [] x \in online -> <<>>
                       [] OTHER -> <<Plain("off")>>
  <2>1. stack = [x \in Procs \cup Harts |-> F(x)] BY <1>1, Zenon DEF HartsInit
  <2>2. \A p \in Procs : F(p) = <<r>> BY <1>1, <1>2, <1>4
  <2>3. \A h \in Harts : F(h) = IF h \in online THEN <<>> ELSE <<o>> BY <1>2, <1>4
  <2> HIDE DEF F
  <2> QED BY <2>1, <2>2, <2>3, Zenon
<1>7. HType
  <2>1. ASSUME NEW h \in Harts PROVE hart[h] \in HartRec
    <3>1. CASE h \in online
      <4>1. hart[h] = [proc |-> None, noff |-> 0, intena |-> FALSE, intr |-> TRUE] BY <1>3, <3>1, Zenon
      <4> QED BY <4>1 DEF HartRec
    <3>2. CASE h \notin online
      <4>1. (h \in online) = FALSE BY <3>2
      <4>2. hart[h] = [proc |-> None, noff |-> 0, intena |-> FALSE, intr |-> FALSE] BY <1>3, <4>1, Zenon
      <4> QED BY <4>2 DEF HartRec
    <3> QED BY <3>1, <3>2
  <2>2. lock \in [Locks -> Harts \cup {None}] BY <1>3, Zenon
  <2>3. proc = [p \in Procs |-> proc[p]] /\ \A p \in Procs : ProcRec(proc[p])
    BY <1>3, Zenon DEF ProcRec, States
  <2>4. hart \in [Harts -> HartRec] BY <1>3, <2>1, Zenon
  <2>5. \A x \in Procs \cup Harts : IsList(stack[x]) BY <1>6, Single, Empty
  <2> QED BY <1>6, <2>2, <2>3, <2>4, <2>5, Zenon DEF HType
<1>8. \A p \in Procs : Parked(p, stack[p]) BY <1>5, <1>6, Single, Zenon DEF Parked, Base
<1>9. RunOK BY <1>2, <1>3, <1>8, Zenon DEF RunOK
<1>10. ModeOK
  <2>1. ASSUME NEW h \in Harts PROVE Mode(Cur(h), hart[h], stack[Cur(h)], LocksOf(h))
    <3>1. Cur(h) = h /\ LocksOf(h) = {} /\ hart[h].noff = 0 /\ (hart[h].intr <=> h \in online)
      BY <1>2, <1>3, Zenon DEF Cur, LocksOf
    <3>2. CASE h \in online BY <1>2, <1>6, <3>1, <3>2 DEF Mode, Base
    <3>3. CASE h \notin online BY <1>5, <1>6, <3>1, <3>3, Single DEF Mode
    <3> QED BY <3>2, <3>3
  <2> QED BY <2>1 DEF ModeOK
<1> QED BY <1>3, <1>7, <1>9, <1>10, Zenon DEF HInv

(* What each hart's frames, locks and interrupt counters say of each other, *)
(* for any interleaving of calls, traps and devices (spinlock.c, proc.c).   *)
THEOREM StacksMatch == Spec => []HInv
<1>1. HInv /\ [Next]_vars => HInv' BY NextKeeps
<1> QED BY InitHolds, <1>1, PTL DEF Spec

(* No hart takes a spinlock that it holds (spinlock.c:27) and none goes to   *)
(* the scheduler with one in hand (sched() of proc.c), for any workload.    *)
THEOREM NoLockPanic == Spec => []LocksSafe
<1>1. Init => HInv /\ LocksSafe BY InitHolds, Zenon DEF LocksSafe
<1>2. (HInv /\ LocksSafe) /\ [Next]_vars => (HInv /\ LocksSafe)'
  BY NextKeeps, Zenon DEF PanicOK, OtherPanics, LocksSafe
<1> QED BY <1>1, <1>2, PTL DEF Spec

-----------------------------------------------------------------------------
(* The counters.                                                           *)

LEMMA Lengths ==
  ASSUME NEW S, NEW s \in Seq(S), s # <<>>
  PROVE  /\ Tail(s) \in Seq(S) /\ s[1] = Head(s) /\ 1 \in 1..Len(s) /\ Len(s) = Len(Tail(s)) + 1
         /\ \A k \in 1..Len(Tail(s)) : s[k + 1] = Tail(s)[k]
         /\ Tail(s) = <<>> => Len(s) = 1
<1>1. Len(s) \in Nat \ {0} BY EmptySeq
<1>2. Tail(s) \in Seq(S) /\ Len(Tail(s)) = Len(s) - 1 /\ \A k \in 1..Len(Tail(s)) : Tail(s)[k] = s[k + 1]
  BY HeadTailProperties
<1>3. s[1] = Head(s) /\ 1 \in 1..Len(s) BY <1>1
<1>4. Tail(s) = <<>> => Len(Tail(s)) = 0 BY EmptySeq
<1> QED BY <1>1, <1>2, <1>3, <1>4

(* Where interrupts are on, no frame is a handler's. *)
LEMMA BaseQuiet ==
  ASSUME NEW x, NEW s, IsList(s), Base(x, s)
  PROVE  /\ \A k \in 1..Len(s) : s[k].at \notin Handlers
         /\ s # <<>> => Head(s).at # "spin"
<1>1. PICK S : s \in Seq(S) BY DEF IsList
<1>2. CASE s = <<>> BY <1>2
<1>3. CASE s # <<>> /\ Tail(s) = <<>> /\ Head(s).at \in {"acquiresleep", "deref"}
  <2>1. Len(s) = 1 /\ s[1] = Head(s) BY <1>1, <1>3, Lengths
  <2> QED BY <1>3, <2>1 DEF Handlers
<1>4. CASE s # <<>> /\ Head(s).at = "reacquire" /\ InCall(Tail(s), Head(s).lk)
  <2>1. PICK t : t = Tail(s) OBVIOUS
  <2>2. t \in Seq(S) /\ t # <<>> /\ Tail(t) = <<>> /\ CallFrame(Head(t), Head(s).lk)
    BY <1>1, <1>4, <2>1 DEF InCall
  <2>3. Len(t) = 1 /\ t[1] = Head(t) BY <2>2, Lengths
  <2>4. Len(s) = 2 /\ s[1] = Head(s) /\ s[2] = t[1]
    <3>1. Len(s) = Len(t) + 1 /\ s[1] = Head(s) /\ \A k \in 1..Len(t) : s[k + 1] = t[k]
      BY <1>1, <1>4, <2>1, Lengths
    <3> QED BY <2>3, <3>1
  <2>5. s[2].at \notin Handlers BY <2>2, <2>3, <2>4 DEF CallFrame, Handlers
  <2>6. s[1].at \notin Handlers BY <1>4, <2>4 DEF Handlers
  <2>7. \A k \in 1..Len(s) : k = 1 \/ k = 2 BY <2>4
  <2> QED BY <1>4, <2>5, <2>6, <2>7
<1> QED BY <1>2, <1>3, <1>4 DEF Base

LEMMA Counted == HInv => IntrMatches
<1> SUFFICES ASSUME HInv, NEW h \in Harts
             PROVE  /\ hart[h].noff = Cardinality(LocksOf(h)) + (IF stack[Cur(h)] # <<>> /\ Frame(h).at = "spin" THEN 1 ELSE 0)
                    /\ hart[h].noff > 0 \/ InHandler(h) => ~hart[h].intr
                    /\ hart[h].proc # None /\ hart[h].noff = 0 /\ ~InHandler(h) => hart[h].intr
  BY DEF IntrMatches
<1> PICK s : s = stack[Cur(h)] /\ IsList(s)
  BY CurFacts
<1> PICK H : H = LocksOf(h)
  OBVIOUS
<1>1. Cardinality({}) = 0 /\ \A lk : Cardinality({lk}) = 1 BY FS_EmptySet, FS_Singleton
<1>2. InHandler(h) <=> \E k \in 1..Len(s) : s[k].at \in Handlers BY DEF InHandler
<1>3. s # <<>> /\ Head(s).at \in Handlers => InHandler(h)
  <2>1. PICK S : s \in Seq(S) BY DEF IsList
  <2>2. s # <<>> => 1 \in 1..Len(s) /\ s[1] = Head(s) BY <2>1
  <2> QED BY <1>2, <2>2
<1>4. Mode(Cur(h), hart[h], s, H) BY ModeOf
<1>5. hart[h].proc # None => Cur(h) \in Procs BY CurFacts
<1>6. hart[h].proc = None => Cur(h) \notin Procs BY CurFacts
<1>7. CASE Base(Cur(h), s) /\ hart[h].noff = 0 /\ H = {} /\ (Cur(h) \in Procs => hart[h].intr)
  <2>1. ~InHandler(h) /\ (s # <<>> => Head(s).at # "spin") BY <1>2, <1>7, BaseQuiet
  <2> QED BY <1>1, <1>5, <1>7, <2>1 DEF Frame
<1>8. CASE hart[h].noff = 1 /\ ~hart[h].intr
  <2>1. CASE \E lk : H = {lk} /\ s # <<>> /\ Head(s).at # "spin"
    <3>1. Cardinality(H) = 1 BY <1>1, <2>1
    <3> QED BY <1>8, <2>1, <3>1 DEF Frame
  <2>2. CASE H = {} /\ s # <<>> /\ Head(s).at = "spin" BY <1>1, <1>8, <2>2 DEF Frame
  <2>3. \/ \E lk : H = {lk} /\ s # <<>> /\ Head(s).at # "spin"
        \/ H = {} /\ s # <<>> /\ Head(s).at = "spin"
    <3>1. \A lk : InCall(s, lk) => s # <<>> /\ Head(s).at # "spin" BY DEF InCall, CallFrame
    <3>2. \A x, lk : InTrap(x, s, lk) => s # <<>> /\ Head(s).at # "spin"
      BY DEF InTrap, HandlerFrame
    <3> QED BY <1>4, <1>8, <3>1, <3>2, SMTT(30) DEF Mode
  <2> QED BY <2>1, <2>2, <2>3
<1>9. CASE /\ hart[h].noff = 0 /\ ~hart[h].intr /\ H = {}
           /\ s # <<>> /\ Head(s).at \in {"uartintr", "trapret"}
  <2>1. InHandler(h) /\ Head(s).at # "spin" BY <1>3, <1>9 DEF Handlers
  <2> QED BY <1>1, <1>9, <2>1 DEF Frame
<1>10. CASE /\ hart[h].noff = 0 /\ ~hart[h].intr /\ H = {} /\ Cur(h) \in Harts
            /\ s # <<>> /\ Head(s).at = "off"
  <2>1. hart[h].proc = None /\ Head(s).at # "spin" BY <1>5, <1>10, HartsAssumption
  <2> QED BY <1>1, <1>10, <2>1 DEF Frame
<1> QED BY <1>4, <1>7, <1>8, <1>9, <1>10 DEF Mode

(* On every hart, at every step of every interleaving, noff counts the      *)
(* spinlocks held or being taken, interrupts are off exactly there and in   *)
(* handlers, and intena goes with the thread (spinlock.c:86, proc.c:703).   *)
THEOREM IntrAlwaysMatches == Spec => []IntrMatches
BY StacksMatch, Counted, PTL

-----------------------------------------------------------------------------
LEMMA ListEqual ==
  ASSUME NEW s, NEW t, IsList(s), IsList(t), Len(s) = Len(t), \A k \in 1..Len(s) : s[k] = t[k]
  PROVE  s = t
<1>1. PICK S : s \in Seq(S) BY DEF IsList
<1>2. PICK T : t \in Seq(T) BY DEF IsList
<1>3. s \in Seq(S \cup T) /\ t \in Seq(S \cup T) BY <1>1, <1>2, SeqMonotonic
<1> QED BY <1>3, SeqEqual

LEMMA ListJoin ==
  ASSUME NEW s, NEW t, IsList(s), IsList(t)
  PROVE  /\ IsList(Chained(s, t)) /\ Len(s) \in Nat /\ Len(t) \in Nat /\ Len(Chained(s, t)) = Len(s) + Len(t)
         /\ \A k \in 1..Len(s) : Chained(s, t)[k] = s[k]
         /\ \A k \in 1..Len(t) : Chained(s, t)[Len(s) + k] = t[k]
<1>1. PICK S : s \in Seq(S) BY DEF IsList
<1>2. PICK T : t \in Seq(T) BY DEF IsList
<1>3. s \in Seq(S \cup T) /\ t \in Seq(S \cup T) BY <1>1, <1>2, SeqMonotonic
<1>4. Chained(s, t) \in Seq(S \cup T) BY <1>3 DEF Chained
<1>5. IsList(Chained(s, t)) BY <1>4 DEF IsList
<1>6. Len(s) \in Nat /\ Len(t) \in Nat /\ Len(Chained(s, t)) = Len(s) + Len(t) BY <1>3 DEF Chained
<1>7. \A k \in 1..Len(s) : Chained(s, t)[k] = s[k] BY <1>3, ConcatProperties DEF Chained
<1>8. \A k \in 1..Len(t) : Chained(s, t)[Len(s) + k] = t[k]
  <2>1. \A k \in 1..(Len(s) + Len(t)) : Chained(s, t)[k] = IF k <= Len(s) THEN s[k] ELSE t[k - Len(s)]
    BY <1>3, ConcatProperties DEF Chained
  <2> TAKE k \in 1..Len(t)
  <2>2. Len(s) + k \in 1..(Len(s) + Len(t)) /\ ~(Len(s) + k <= Len(s)) /\ (Len(s) + k) - Len(s) = k
    BY <1>6
  <2> QED BY <2>1, <2>2
<1> QED BY <1>5, <1>6, <1>7, <1>8

LEMMA ListAdd ==
  ASSUME NEW s, IsList(s), NEW x
  PROVE  /\ IsList(Added(s, x)) /\ Len(s) \in Nat /\ Len(Added(s, x)) = Len(s) + 1
         /\ \A k \in 1..Len(s) : Added(s, x)[k] = s[k]
         /\ Added(s, x)[Len(s) + 1] = x
<1>1. PICK S : s \in Seq(S) BY DEF IsList
<1>2. s \in Seq(S \cup {x}) BY <1>1, SeqMonotonic
<1>3. Added(s, x) \in Seq(S \cup {x}) BY <1>2 DEF Added
<1>4. IsList(Added(s, x)) BY <1>3 DEF IsList
<1> QED BY <1>2, <1>4 DEF Added

LEMMA ListAssoc ==
  ASSUME NEW s, NEW t, NEW u, IsList(s), IsList(t), IsList(u)
  PROVE  Chained(Chained(s, t), u) = Chained(s, Chained(t, u))
<1>1. PICK S : s \in Seq(S) BY DEF IsList
<1>2. PICK T : t \in Seq(T) BY DEF IsList
<1>3. PICK U : u \in Seq(U) BY DEF IsList
<1> DEFINE V == (S \cup T) \cup U
<1>4. s \in Seq(V) /\ t \in Seq(V) /\ u \in Seq(V) BY <1>1, <1>2, <1>3, SeqMonotonic
<1> HIDE DEF V
<1> QED BY <1>4, ConcatAssociative, SMTT(30) DEF Chained

LEMMA ListFront ==
  ASSUME NEW s, IsList(s), s # <<>>
  PROVE  /\ IsList(ButLast(s)) /\ Len(s) \in Nat \ {0} /\ Len(ButLast(s)) = Len(s) - 1
         /\ \A k \in 1..(Len(s) - 1) : ButLast(s)[k] = s[k]
<1>1. PICK S : s \in Seq(S) BY DEF IsList
<1>2. Len(s) \in Nat \ {0} BY <1>1
<1>3. ButLast(s) = SubSeq(s, 1, Len(s) - 1) BY DEF ButLast
<1>4. PICK n \in Nat : n = Len(s) - 1 BY <1>2
<1>5. \A k \in 1..n : s[k] \in S BY <1>1, <1>2, <1>4
<1>6. PICK f : f = SubSeq(s, 1, n) OBVIOUS
<1>7. f \in Seq(S) /\ Len(f) = (IF 1 <= n THEN n - 1 + 1 ELSE 0) /\ \A k \in 1..(n - 1 + 1) : f[k] = s[1 + k - 1]
  BY <1>5, <1>6, SubSeqProperties
<1>8. Len(f) = n /\ \A k \in 1..n : f[k] = s[k] BY <1>4, <1>7
<1> QED BY <1>2, <1>3, <1>4, <1>6, <1>7, <1>8 DEF IsList

-----------------------------------------------------------------------------
LEMMA DistIs ==
  ASSUME NEW a \in Ends, NEW b \in Ends
  PROVE  /\ Dist(a, b) \in Ends /\ EditMod \in Nat /\ a \in Nat /\ b \in Nat /\ a < EditMod /\ b < EditMod
         /\ Dist(a, b) \in Nat /\ Dist(a, b) < EditMod
         /\ a <= b => Dist(a, b) = b - a
         /\ a > b => Dist(a, b) = b + EditMod - a
<1>1. PICK n \in Nat \ {0} : n = EditMod BY ConsoleAssumption DEF EditMod
<1>2. ASSUME NEW x \in Nat PROVE (x < n => x % n = x) /\ (n <= x /\ x < n + n => x % n = x - n)
  OBVIOUS
<1>3. a \in Nat /\ b \in Nat /\ a < n /\ b < n BY <1>1 DEF Ends
<1>4. b + n - a \in Nat /\ b + n - a < n + n /\ (a <= b => n <= b + n - a) /\ (a > b => b + n - a < n)
  BY <1>3
<1>5. CASE a <= b
  <2>1. Dist(a, b) = (b + n - a) - n BY <1>1, <1>2, <1>4, <1>5 DEF Dist
  <2> QED BY <1>1, <1>3, <1>5, <2>1 DEF Ends
<1>6. CASE a > b
  <2>1. Dist(a, b) = b + n - a BY <1>1, <1>2, <1>4, <1>6 DEF Dist
  <2> QED BY <1>1, <1>3, <1>6, <2>1 DEF Ends
<1>7. Dist(a, b) \in Nat /\ Dist(a, b) < n BY <1>1, <1>5, <1>6 DEF Ends
<1> QED BY <1>1, <1>3, <1>5, <1>6, <1>7

LEMMA UpIs ==
  ASSUME NEW a \in Ends
  PROVE  /\ Up(a) \in Ends /\ Before(a) \in Ends /\ a \in Nat /\ EditMod \in Nat /\ a < EditMod
         /\ Up(a) = IF a + 1 = EditMod THEN 0 ELSE a + 1
         /\ Before(a) = IF a = 0 THEN EditMod - 1 ELSE a - 1
<1>1. PICK n \in Nat \ {0} : n = EditMod BY ConsoleAssumption DEF EditMod
<1>2. ASSUME NEW x \in Nat PROVE (x < n => x % n = x) /\ (n <= x /\ x < n + n => x % n = x - n)
  OBVIOUS
<1>3. a \in Nat /\ a < n /\ a + 1 \in Nat /\ a + n - 1 \in Nat BY <1>1 DEF Ends
<1>4. Up(a) = IF a + 1 = n THEN 0 ELSE a + 1 BY <1>1, <1>2, <1>3 DEF Up
<1>5. Before(a) = IF a = 0 THEN n - 1 ELSE a - 1 BY <1>1, <1>2, <1>3 DEF Before
<1> QED BY <1>1, <1>3, <1>4, <1>5 DEF Ends

LEMMA SlotIs ==
  ASSUME NEW x \in Nat, x < 2 * EditMod
  PROVE  /\ Slot(x) \in 0..(INPUT_BUF_SIZE - 1) /\ EditMod = 2 * INPUT_BUF_SIZE /\ INPUT_BUF_SIZE \in Nat \ {0}
         /\ \E q \in 0..3 : Slot(x) = x - q * INPUT_BUF_SIZE
<1>1. PICK n \in Nat \ {0} : n = INPUT_BUF_SIZE BY ConsoleAssumption
<1>2. EditMod = 2 * n /\ Slot(x) = x % n BY <1>1 DEF EditMod, Slot
<1>3. x % n \in 0..(n - 1) OBVIOUS
<1>4. x < 4 * n BY <1>2
<1>5. CASE x < n BY <1>1, <1>2, <1>3, <1>5
<1>6. CASE n <= x /\ x < 2 * n
  <2>1. x % n = x - n BY <1>6
  <2> QED BY <1>1, <1>2, <1>3, <2>1
<1>7. CASE 2 * n <= x /\ x < 3 * n
  <2>1. x % n = x - 2 * n BY <1>7
  <2> QED BY <1>1, <1>2, <1>3, <2>1
<1>8. CASE 3 * n <= x
  <2>1. x % n = x - 3 * n BY <1>4, <1>8
  <2> QED BY <1>1, <1>2, <1>3, <2>1
<1> QED BY <1>5, <1>6, <1>7, <1>8

(* Places less than the size apart have slots of their own, and an index   *)
(* that wrapped around has the slot it would have had.                     *)
LEMMA SlotsApart ==
  ASSUME NEW x \in Nat, NEW y \in Nat, x < y, y < 2 * EditMod, y - x < INPUT_BUF_SIZE
  PROVE  Slot(x) # Slot(y)
<1>1. PICK n \in Nat \ {0} : n = INPUT_BUF_SIZE BY ConsoleAssumption
<1>2. PICK p \in 0..3 : Slot(x) = x - p * n /\ Slot(x) \in 0..(n - 1) BY <1>1, SlotIs
<1>3. PICK q \in 0..3 : Slot(y) = y - q * n /\ Slot(y) \in 0..(n - 1) BY <1>1, SlotIs
<1>4. SUFFICES ASSUME x - p * n = y - q * n PROVE FALSE BY <1>2, <1>3
<1>5. y - x = q * n - p * n /\ 0 < y - x /\ y - x < n BY <1>1, <1>4
<1>6. p \in {0, 1, 2, 3} /\ q \in {0, 1, 2, 3} OBVIOUS
<1> QED BY <1>5, <1>6

LEMMA SlotWraps ==
  ASSUME NEW x \in Nat, x < EditMod
  PROVE  Slot(x + EditMod) = Slot(x)
<1>1. PICK n \in Nat \ {0} : n = INPUT_BUF_SIZE /\ EditMod = 2 * n BY ConsoleAssumption DEF EditMod
<1>2. PICK p \in 0..3 : Slot(x) = x - p * n /\ Slot(x) \in 0..(n - 1) BY <1>1, SlotIs
<1>3. PICK q \in 0..3 : Slot(x + EditMod) = x + EditMod - q * n /\ Slot(x + EditMod) \in 0..(n - 1)
  BY <1>1, SlotIs
<1>4. p \in {0, 1, 2, 3} /\ q \in {0, 1, 2, 3} OBVIOUS
<1> QED BY <1>1, <1>2, <1>3, <1>4

-----------------------------------------------------------------------------
LEMMA FunctionList == ASSUME NEW S, NEW n \in Nat, NEW s \in [1..n -> S] PROVE s \in Seq(S)
OBVIOUS

LEMMA CellsList ==
  ASSUME NEW ring, NEW a, NEW n \in Nat
  PROVE  /\ IsList(Cells(ring, a, n)) /\ Len(Cells(ring, a, n)) = n
         /\ \A k \in 1..n : Cells(ring, a, n)[k] = ring[Slot(a + k - 1)]
         /\ n = 0 => Cells(ring, a, n) = <<>>
<1>1. PICK s, S : s = Cells(ring, a, n) /\ S = {ring[Slot(a + k - 1)] : k \in 1..n} OBVIOUS
<1>4. \A k \in 1..n : s[k] = ring[Slot(a + k - 1)] BY <1>1 DEF Cells
<1>2. s \in Seq(S)
  <2>1. s \in [1..n -> S] BY <1>1 DEF Cells
  <2> QED BY <2>1, FunctionList
<1>3. Len(s) = n
  <2>1. DOMAIN s = 1..n BY <1>1 DEF Cells
  <2>2. DOMAIN s = 1..Len(s) /\ Len(s) \in Nat BY <1>2, LenProperties
  <2> QED BY <2>1, <2>2
<1>5. IsList(s) BY <1>2 DEF IsList
<1>6. n = 0 => s = <<>> BY <1>2, <1>3, EmptySeq
<1> QED BY <1>1, <1>3, <1>4, <1>5, <1>6

LEMMA CellsJoin ==
  ASSUME NEW ring, NEW a \in Nat, NEW b \in Nat, NEW n \in Nat, NEW m \in Nat,
         SameSlots(b, a + n, m)
  PROVE  Chained(Cells(ring, a, n), Cells(ring, b, m)) = Cells(ring, a, n + m)
<1>1. PICK s : /\ s = Cells(ring, a, n) /\ IsList(s) /\ Len(s) = n
               /\ \A k \in 1..n : s[k] = ring[Slot(a + k - 1)]
  BY CellsList
<1>2. PICK t : /\ t = Cells(ring, b, m) /\ IsList(t) /\ Len(t) = m
               /\ \A k \in 1..m : t[k] = ring[Slot(b + k - 1)]
  BY CellsList
<1>3. n + m \in Nat OBVIOUS
<1>4. PICK u : /\ u = Cells(ring, a, n + m) /\ IsList(u) /\ Len(u) = n + m
               /\ \A k \in 1..(n + m) : u[k] = ring[Slot(a + k - 1)]
  BY <1>3, CellsList
<1>0. IsList(s) /\ IsList(t) BY <1>1, <1>2
<1>5. PICK v : v = Chained(s, t) OBVIOUS
<1>9. /\ IsList(v) /\ Len(v) = Len(s) + Len(t)
      /\ \A k \in 1..Len(s) : v[k] = s[k]
      /\ \A k \in 1..Len(t) : v[Len(s) + k] = t[k]
  BY <1>0, <1>5, ListJoin
<1>6. Len(v) = n + m /\ (\A k \in 1..n : v[k] = s[k]) /\ (\A k \in 1..m : v[n + k] = t[k])
  BY <1>1, <1>2, <1>9
<1>7. ASSUME NEW k \in 1..(n + m) PROVE v[k] = u[k]
  <2>1. CASE k <= n
    <3>1. k \in 1..n BY <2>1
    <3>2. v[k] = s[k] BY <1>6, <3>1
    <3>3. s[k] = ring[Slot(a + k - 1)] BY <1>1, <3>1
    <3>4. u[k] = ring[Slot(a + k - 1)] BY <1>4
    <3> QED
      BY <3>2, <3>3, <3>4
  <2>2. CASE k > n
    <3>1. PICK j \in 1..m : j = k - n /\ k = n + j BY <2>2
    <3>2. j - 1 \in 0..m /\ b + j - 1 = b + (j - 1) /\ a + k - 1 = a + n + (j - 1) BY <3>1
    <3>3. Slot(b + j - 1) = Slot(a + k - 1) BY <3>2 DEF SameSlots
    <3>4. v[k] = t[j] /\ t[j] = ring[Slot(b + j - 1)] /\ u[k] = ring[Slot(a + k - 1)]
      BY <1>2, <1>4, <1>6, <3>1
    <3> QED BY <3>3, <3>4
  <2> QED BY <2>1, <2>2
<1>8. v = u BY <1>4, <1>9, <1>6, <1>7, ListEqual
<1> QED BY <1>1, <1>2, <1>4, <1>5, <1>8

(* A ring that differs only in slots that are not among the n. *)
LEMMA CellsSame ==
  ASSUME NEW ring, NEW other, NEW a \in Nat, NEW n \in Nat,
         SameRing(ring, other, a, n)
  PROVE  Cells(other, a, n) = Cells(ring, a, n)
BY DEF Cells, SameRing

LEMMA CellsAdd ==
  ASSUME NEW ring, NEW other, NEW a \in Nat, NEW n \in Nat, NEW c,
         PutBehind(ring, other, a, n, c)
  PROVE  Added(Cells(ring, a, n), c) = Cells(other, a, n + 1)
<1>1. PICK s : /\ s = Cells(ring, a, n) /\ IsList(s) /\ Len(s) = n
               /\ \A k \in 1..n : s[k] = ring[Slot(a + k - 1)]
  BY CellsList
<1>2. PICK u : /\ u = Cells(other, a, n + 1) /\ IsList(u) /\ Len(u) = n + 1
               /\ \A k \in 1..(n + 1) : u[k] = other[Slot(a + k - 1)]
  BY CellsList
<1>6. PICK v : v = Added(s, c) OBVIOUS
<1>7. IsList(s) /\ Len(s) = n BY <1>1
<1>8. /\ IsList(v) /\ Len(v) = Len(s) + 1
      /\ \A k \in 1..Len(s) : v[k] = s[k]
      /\ v[Len(s) + 1] = c
  BY <1>6, <1>7, ListAdd
<1>3. /\ IsList(v) /\ Len(v) = n + 1
      /\ \A k \in 1..n : v[k] = s[k]
      /\ v[n + 1] = c
  BY <1>7, <1>8
<1>4. ASSUME NEW k \in 1..(n + 1) PROVE v[k] = u[k]
  <2>1. CASE k \in 1..n BY <1>1, <1>2, <1>3, <2>1 DEF PutBehind, SameRing
  <2>2. CASE k = n + 1
    <3>1. a + k - 1 = a + n BY <2>2
    <3> QED BY <1>2, <1>3, <2>2, <3>1 DEF PutBehind
  <2> QED BY <2>1, <2>2
<1>5. v = u BY <1>2, <1>3, <1>4, ListEqual
<1> QED BY <1>1, <1>2, <1>5, <1>6

LEMMA CellsFewer ==
  ASSUME NEW ring, NEW a \in Nat, NEW n \in Nat \ {0}
  PROVE  Cells(ring, a, n) # <<>> /\ ButLast(Cells(ring, a, n)) = Cells(ring, a, n - 1)
<1>1. PICK s : /\ s = Cells(ring, a, n) /\ IsList(s) /\ Len(s) = n
               /\ \A k \in 1..n : s[k] = ring[Slot(a + k - 1)]
  BY CellsList
<1>2. n - 1 \in Nat OBVIOUS
<1>3. PICK u : /\ u = Cells(ring, a, n - 1) /\ IsList(u) /\ Len(u) = n - 1
               /\ \A k \in 1..(n - 1) : u[k] = ring[Slot(a + k - 1)]
  BY <1>2, CellsList
<1>4. s # <<>> BY <1>1
<1>8. PICK v : v = ButLast(s) OBVIOUS
<1>9. IsList(s) /\ Len(s) = n BY <1>1
<1>10. IsList(v) /\ Len(v) = Len(s) - 1 /\ \A k \in 1..(Len(s) - 1) : v[k] = s[k]
  BY <1>4, <1>8, <1>9, ListFront
<1>5. IsList(v) /\ Len(v) = n - 1 /\ \A k \in 1..(n - 1) : v[k] = s[k] BY <1>9, <1>10
<1>6. ASSUME NEW k \in 1..(n - 1) PROVE v[k] = u[k]
  <2>1. k \in 1..n OBVIOUS
  <2>2. s[k] = ring[Slot(a + k - 1)] /\ u[k] = ring[Slot(a + k - 1)] /\ v[k] = s[k]
    BY <1>1, <1>3, <1>5, <2>1
  <2> QED BY <2>2
<1>7. v = u BY <1>3, <1>5, <1>6, ListEqual
<1> QED BY <1>1, <1>3, <1>4, <1>7, <1>8

LEMMA CellsPrefix ==
  ASSUME NEW ring, NEW a \in Nat, NEW n \in Nat, NEW m \in Nat, n <= m
  PROVE  \E k \in 0..Len(Cells(ring, a, m)) : Cells(ring, a, n) = SubSeq(Cells(ring, a, m), 1, k)
<1>1. PICK s : /\ s = Cells(ring, a, n) /\ IsList(s) /\ Len(s) = n
               /\ \A k \in 1..n : s[k] = ring[Slot(a + k - 1)]
  BY CellsList
<1>2. PICK u : /\ u = Cells(ring, a, m) /\ IsList(u) /\ Len(u) = m
               /\ \A k \in 1..m : u[k] = ring[Slot(a + k - 1)]
  BY CellsList
<1>3. PICK S : s \in Seq(S) BY <1>1 DEF IsList
<1>4. PICK T : u \in Seq(T) BY <1>2 DEF IsList
<1>5. SubSeq(s, 1, n) = [k \in 1..n |-> s[k]] /\ SubSeq(u, 1, n) = [k \in 1..n |-> u[k]]
  BY <1>1, <1>2, <1>3, <1>4
<1>6. s = [k \in 1..n |-> s[k]] BY <1>1, <1>3
<1>7. [k \in 1..n |-> s[k]] = [k \in 1..n |-> u[k]] BY <1>1, <1>2
<1>8. s = SubSeq(u, 1, n) BY <1>5, <1>6, <1>7
<1> QED BY <1>1, <1>2, <1>8

-----------------------------------------------------------------------------
(* The ring's indices. *)

\* Reading: the next character leaves the ring.
LEMMA RingTake ==
  ASSUME NEW ring, NEW r \in Ends, NEW w \in Ends, r # w
  PROVE  /\ Cells(ring, r, Dist(r, w)) = Chained(<<ring[Slot(r)]>>, Cells(ring, Up(r), Dist(Up(r), w)))
         /\ Dist(r, w) = Dist(Up(r), w) + 1
<1>1. PICK u \in Ends : u = Up(r) /\ (u = r + 1 \/ (u = 0 /\ r + 1 = EditMod))
  <2>1. Up(r) \in Ends /\ Up(r) = IF r + 1 = EditMod THEN 0 ELSE r + 1 BY UpIs
  <2>2. Up(r) = r + 1 \/ (Up(r) = 0 /\ r + 1 = EditMod) BY <2>1
  <2> QED BY <2>1, <2>2
<1>2. /\ r \in Nat /\ w \in Nat /\ EditMod \in Nat /\ r < EditMod /\ w < EditMod
      /\ r <= w => Dist(r, w) = w - r
      /\ r > w => Dist(r, w) = w + EditMod - r
  BY DistIs
<1>3. PICK d \in Nat : /\ d = Dist(u, w) /\ d < EditMod /\ u \in Nat
                       /\ u <= w => d = w - u
                       /\ u > w => d = w + EditMod - u
  <2>1. Dist(u, w) \in Nat BY DistIs
  <2> QED BY <2>1, DistIs
<1>4. Dist(r, w) = d + 1 BY <1>1, <1>2, <1>3
<1>5. Cells(ring, r, 1) = <<ring[Slot(r)]>>
  <2>1. 0 \in Nat /\ r + 0 = r /\ 0 + 1 = 1 BY <1>2
  <2>2. Cells(ring, r, 0) = <<>> BY <2>1, CellsList
  <2>3. SameRing(ring, ring, r, 0) BY DEF SameRing
  <2>4. PutBehind(ring, ring, r, 0, ring[Slot(r)]) BY <2>1, <2>3 DEF PutBehind
  <2>5. Added(Cells(ring, r, 0), ring[Slot(r)]) = Cells(ring, r, 0 + 1)
    BY <1>2, <2>1, <2>4, CellsAdd
  <2>6. Added(<<>>, ring[Slot(r)]) = <<ring[Slot(r)]>> BY DEF Added
  <2> QED BY <2>1, <2>2, <2>5, <2>6
<1>6. SameSlots(u, r + 1, d)
  <2>0. SUFFICES ASSUME NEW j \in 0..d PROVE Slot(u + j) = Slot(r + 1 + j) BY DEF SameSlots
  <2>1. CASE u = r + 1 BY <2>1
  <2>2. CASE u = 0 /\ r + 1 = EditMod
    <3>1. j \in Nat /\ j < EditMod /\ u + j = j /\ r + 1 + j = j + EditMod BY <1>2, <1>3, <2>2
    <3>2. Slot(j + EditMod) = Slot(j) BY <3>1, SlotWraps
    <3> QED BY <3>1, <3>2
  <2> QED BY <1>1, <2>1, <2>2
<1>7. Chained(Cells(ring, r, 1), Cells(ring, u, d)) = Cells(ring, r, 1 + d)
  <2>1. 1 \in Nat /\ r \in Nat /\ u \in Nat /\ d \in Nat BY <1>2, <1>3
  <2> QED BY <1>6, <2>1, CellsJoin
<1>8. 1 + d = d + 1 BY <1>3
<1> QED BY <1>1, <1>3, <1>4, <1>5, <1>7, <1>8

\* Typing: a character goes behind the n from a on.
LEMMA RingPut ==
  ASSUME NEW ring, NEW a \in Ends, NEW e \in Ends, Dist(a, e) < INPUT_BUF_SIZE, NEW c,
         IsRing(ring), NEW other, Puts(ring, other, e, c)
  PROVE  /\ Dist(a, Up(e)) = Dist(a, e) + 1
         /\ Added(Cells(ring, a, Dist(a, e)), c) = Cells(other, a, Dist(a, e) + 1)
         /\ \A n \in 0..Dist(a, e) : Cells(other, a, n) = Cells(ring, a, n)
<1>1. PICK d \in Nat : /\ d = Dist(a, e) /\ a \in Nat /\ e \in Nat /\ EditMod \in Nat /\ a < EditMod /\ e < EditMod
                       /\ d < INPUT_BUF_SIZE
                       /\ ((a <= e /\ d = e - a) \/ (a > e /\ d = e + EditMod - a))
  <2>1. Dist(a, e) \in Nat /\ a \in Nat /\ e \in Nat /\ EditMod \in Nat /\ a < EditMod /\ e < EditMod
    BY DistIs
  <2>2. (a <= e => Dist(a, e) = e - a) /\ (a > e => Dist(a, e) = e + EditMod - a) BY DistIs
  <2>3. (a <= e /\ Dist(a, e) = e - a) \/ (a > e /\ Dist(a, e) = e + EditMod - a) BY <2>1, <2>2
  <2> QED BY <2>1, <2>3
<1>2. PICK N \in Nat \ {0} : INPUT_BUF_SIZE = N /\ EditMod = N + N BY ConsoleAssumption DEF EditMod
<1>3. Dist(a, Up(e)) = d + 1
  <2>1. PICK u \in Ends : u = Up(e) /\ (u = e + 1 \/ (u = 0 /\ e + 1 = EditMod))
    <3>1. Up(e) \in Ends /\ Up(e) = IF e + 1 = EditMod THEN 0 ELSE e + 1 BY UpIs
    <3>2. Up(e) = e + 1 \/ (Up(e) = 0 /\ e + 1 = EditMod) BY <3>1
    <3> QED BY <3>1, <3>2
  <2>2. /\ u \in Nat
        /\ a <= u => Dist(a, u) = u - a
        /\ a > u => Dist(a, u) = u + EditMod - a
    BY DistIs
  <2>3. PICK E \in Nat : E = EditMod /\ E = N + N BY <1>1, <1>2
  <2>4. d < N /\ a < E /\ e < E BY <1>1, <1>2, <2>3
  <2>5. (a <= u /\ u - a = d + 1) \/ (a > u /\ u + E - a = d + 1)
    <3>1. CASE a <= e
      <4>1. d = e - a /\ a \in Nat /\ e \in Nat BY <1>1, <3>1
      <4>2. u = e + 1 \/ (u = 0 /\ e + 1 = E /\ a > 0) BY <1>1, <2>1, <2>3, <2>4, <4>1
      <4> QED BY <3>1, <2>3, <2>4, <4>1, <4>2
    <3>2. CASE a > e
      <4>1. d = e + E - a /\ a \in Nat /\ e \in Nat BY <1>1, <2>3, <3>2
      <4>2. (u = e + 1 /\ u < a) \/ (u = 0 /\ e + 1 = E) BY <2>1, <2>3, <2>4, <4>1, <3>2
      <4> QED BY <2>3, <2>4, <3>2, <4>1, <4>2
    <3> QED BY <1>1, <3>1, <3>2
  <2> QED BY <1>1, <2>1, <2>2, <2>3, <2>5
<1>4. Slot(a + d) = Slot(e)
  <2>1. CASE a + d = e BY <2>1
  <2>2. CASE a + d = e + EditMod BY <1>1, <2>2, SlotWraps
  <2> QED BY <1>1, <2>1, <2>2
<1>5. Slot(e) \in 0..(N - 1)
  <2>1. e < 2 * EditMod BY <1>1
  <2> QED BY <1>1, <1>2, <2>1, SlotIs
<1>6. ASSUME NEW k \in 1..d PROVE other[Slot(a + k - 1)] = ring[Slot(a + k - 1)]
  <2>0. a + k - 1 \in Nat /\ a + d \in Nat BY <1>1
  <2>1. PICK x, y \in Nat : x = a + k - 1 /\ y = a + d BY <2>0
  <2>2. x < y /\ y < 2 * EditMod /\ y - x < INPUT_BUF_SIZE /\ x < 2 * EditMod
    <3>1. a + d = e \/ a + d = e + EditMod BY <1>1
    <3>2. e < EditMod /\ EditMod \in Nat /\ e \in Nat /\ d < N /\ a \in Nat /\ N \in Nat /\ INPUT_BUF_SIZE = N
      BY <1>1, <1>2
    <3>3. y < 2 * EditMod BY <2>1, <3>1, <3>2
    <3> QED BY <2>1, <3>2, <3>3
  <2>3. Slot(x) # Slot(y) BY <2>2, SlotsApart
  <2>4. Slot(x) \in 0..(N - 1) BY <1>2, <2>2, SlotIs
  <2> QED BY <1>2, <1>4, <2>1, <2>3, <2>4 DEF IsRing, Puts
<1>7. other[Slot(a + d)] = c BY <1>2, <1>4, <1>5 DEF IsRing, Puts
<1>8. Added(Cells(ring, a, d), c) = Cells(other, a, d + 1)
  <2>1. a \in Nat /\ d \in Nat /\ SameRing(ring, other, a, d) BY <1>1, <1>6 DEF SameRing
  <2>2. PutBehind(ring, other, a, d, c) BY <1>7, <2>1 DEF PutBehind
  <2> QED BY <2>1, <2>2, CellsAdd
<1>9. ASSUME NEW n \in 0..d PROVE Cells(other, a, n) = Cells(ring, a, n)
  <2>1. n \in Nat /\ \A k \in 1..n : k \in 1..d BY <1>1
  <2>2. SameRing(ring, other, a, n) BY <1>6, <2>1 DEF SameRing
  <2>3. a \in Nat /\ n \in Nat BY <1>1, <2>1
  <2> QED BY <2>2, <2>3, CellsSame
<1> QED BY <1>1, <1>3, <1>8, <1>9

\* What is complete and what is not, one after the other.
LEMMA RingParts ==
  ASSUME NEW ring, NEW r \in Ends, NEW w \in Ends, NEW n \in Nat, n < EditMod
  PROVE  Chained(Cells(ring, r, Dist(r, w)), Cells(ring, w, n)) = Cells(ring, r, Dist(r, w) + n)
<1>1. /\ r \in Nat /\ w \in Nat /\ EditMod \in Nat /\ r < EditMod /\ w < EditMod
      /\ Dist(r, w) \in Nat
      /\ (r + Dist(r, w) = w \/ r + Dist(r, w) = w + EditMod)
  BY DistIs, UpIs
<1>2. SameSlots(w, r + Dist(r, w), n)
  <2>0. SUFFICES ASSUME NEW j \in 0..n PROVE Slot(w + j) = Slot(r + Dist(r, w) + j)
    BY DEF SameSlots
  <2>1. CASE r + Dist(r, w) = w BY <2>1
  <2>2. CASE r + Dist(r, w) = w + EditMod
    <3>1. CASE w + j < EditMod
      <4>1. w + j \in Nat /\ r + Dist(r, w) + j = (w + j) + EditMod BY <1>1, <2>2
      <4> QED BY <3>1, <4>1, SlotWraps
    <3>2. CASE w + j >= EditMod
      <4>1. PICK x \in Nat : x = w + j - EditMod /\ x < EditMod /\ w + j = x + EditMod /\ r + Dist(r, w) + j = x + 2 * EditMod
        BY <1>1, <2>2, <3>2
      <4>2. Slot(x + EditMod) = Slot(x) BY <4>1, SlotWraps
      <4>3. Slot(x + 2 * EditMod) = Slot(x)
        <5>1. PICK m \in Nat \ {0} : m = INPUT_BUF_SIZE /\ EditMod = 2 * m
          BY ConsoleAssumption DEF EditMod
        <5>2. PICK q \in 0..3 : Slot(x) = x - q * m /\ Slot(x) \in 0..(m - 1) BY <4>1, <5>1, SlotIs
        <5>3. PICK z : z = Slot(x) /\ z \in Nat /\ z < m BY <5>1, <5>2
        <5>4. x + 4 * m = m * (q + 4) + z /\ q + 4 \in Nat BY <5>1, <5>2, <5>3
        <5>5. (x + 4 * m) % m = z BY <5>3, <5>4, <5>1
        <5> QED BY <5>1, <5>3, <5>5 DEF Slot
      <4> QED BY <4>1, <4>2, <4>3
    <3> QED BY <1>1, <3>1, <3>2
  <2> QED BY <1>1, <2>1, <2>2
<1>3. r \in Nat /\ w \in Nat /\ Dist(r, w) \in Nat BY <1>1
<1> QED BY <1>2, <1>3, CellsJoin

-----------------------------------------------------------------------------
LEMMA FitsSizes ==
  ASSUME NEW r \in Ends, NEW w \in Ends, NEW e \in Ends, Dist(r, w) + Dist(w, e) <= INPUT_BUF_SIZE
  PROVE  /\ Dist(r, e) = Dist(r, w) + Dist(w, e) /\ Dist(r, w) \in Nat /\ Dist(w, e) \in Nat
         /\ INPUT_BUF_SIZE \in Nat \ {0} /\ EditMod = 2 * INPUT_BUF_SIZE /\ w \in Nat /\ r \in Nat /\ e \in Nat
         /\ Dist(w, e) = 0 <=> w = e
<1>1. INPUT_BUF_SIZE \in Nat \ {0} /\ EditMod = 2 * INPUT_BUF_SIZE BY ConsoleAssumption DEF EditMod
<1> QED BY <1>1, DistIs

LEMMA DistSame == ASSUME NEW a \in Ends PROVE Dist(a, a) = 0 /\ a \in Nat
<1>1. a \in Nat /\ a <= a /\ (a <= a => Dist(a, a) = a - a) BY DistIs
<1> QED BY <1>1

LEMMA LineIs ==
  ASSUME NEW g, NEW a, NEW n, NEW line, HasLine(g, a, n, line, FALSE)
  PROVE  line = Cells(g, a, n)
BY DEF HasLine

LEMMA LineHas ==
  ASSUME NEW g, NEW a, NEW n \in 0..INPUT_BUF_SIZE
  PROVE  HasLine(g, a, n, Cells(g, a, n), FALSE)
<1>1. n <= n BY ConsoleAssumption
<1> QED BY <1>1 DEF HasLine

\* One step back from e: one character less than there were.
LEMMA DistBack ==
  ASSUME NEW w \in Ends, NEW e \in Ends, w # e
  PROVE  /\ Before(e) \in Ends /\ Dist(w, e) \in Nat \ {0} /\ Dist(w, Before(e)) = Dist(w, e) - 1
         /\ Slot(w + Dist(w, e) - 1) = Slot(Before(e))
<1>1. PICK b \in Ends : b = Before(e) /\ (b = e - 1 \/ (e = 0 /\ b = EditMod - 1))
  <2>1. Before(e) \in Ends /\ e \in Nat /\ Before(e) = IF e = 0 THEN EditMod - 1 ELSE e - 1 BY UpIs
  <2>2. Before(e) = e - 1 \/ (e = 0 /\ Before(e) = EditMod - 1) BY <2>1
  <2> QED BY <2>1, <2>2
<1>2. PICK d \in Nat : /\ d = Dist(w, e) /\ w \in Nat /\ e \in Nat /\ EditMod \in Nat /\ w < EditMod /\ e < EditMod
                       /\ w <= e => d = e - w
                       /\ w > e => d = e + EditMod - w
  <2>1. Dist(w, e) \in Nat BY DistIs
  <2> QED BY <2>1, DistIs
<1>3. PICK f \in Nat : /\ f = Dist(w, b) /\ b \in Nat /\ b < EditMod
                       /\ w <= b => f = b - w
                       /\ w > b => f = b + EditMod - w
  <2>1. Dist(w, b) \in Nat BY DistIs
  <2> QED BY <2>1, DistIs
<1>4. d # 0 /\ f = d - 1 BY <1>1, <1>2, <1>3
<1>5. w + d - 1 = b \/ w + d - 1 = b + EditMod BY <1>1, <1>2, <1>3
<1>6. Slot(b + EditMod) = Slot(b) BY <1>2, <1>3, SlotWraps
<1>7. Slot(w + d - 1) = Slot(b) BY <1>5, <1>6
<1> QED BY <1>1, <1>2, <1>3, <1>4, <1>7

LEMMA FitsRead ==
  ASSUME NEW g, NEW r, NEW w, NEW e, NEW took, NEW done, NEW line, NEW killing,
         Fits(g, r, w, e, took, done, line, killing), r # w
  PROVE  Fits(g, Up(r), w, e, Added(took, g[Slot(r)]), done, line, killing)
<1>1. r \in Ends /\ w \in Ends /\ e \in Ends /\ IsList(took) /\ Up(r) \in Ends BY UpIs DEF Fits
<1> PICK c : c = g[Slot(r)]
  OBVIOUS
<1>2. /\ Cells(g, r, Dist(r, w)) = Chained(<<c>>, Cells(g, Up(r), Dist(Up(r), w)))
      /\ Dist(r, w) = Dist(Up(r), w) + 1
  BY <1>1, RingTake
<1>4. Dist(Up(r), w) \in Nat /\ Dist(w, e) \in Nat BY <1>1, DistIs
<1> PICK u : u = Cells(g, Up(r), Dist(Up(r), w))
  OBVIOUS
<1>5. IsList(u) /\ IsList(<<c>>) /\ IsList(Added(took, c))
  BY <1>1, <1>4, CellsList, Single, ListAdd
<1>6. Added(took, c) = Chained(took, <<c>>)
  <2>1. PICK S : took \in Seq(S) BY <1>1 DEF IsList
  <2>2. took \in Seq(S \cup {c}) BY <2>1, SeqMonotonic
  <2> QED BY <2>2, AppendIsConcat DEF Chained, Added
<1>7. Chained(Added(took, c), u) = Chained(took, Chained(<<c>>, u)) BY <1>1, <1>5, <1>6, ListAssoc
<1>8. Chained(Added(took, c), u) = done BY <1>2, <1>7 DEF Fits
<1>9. Dist(Up(r), w) + Dist(w, e) <= INPUT_BUF_SIZE
  <2>1. PICK i, j \in Nat : i = Dist(Up(r), w) /\ j = Dist(w, e) BY <1>4
  <2>2. i + 1 + j <= INPUT_BUF_SIZE /\ INPUT_BUF_SIZE \in Nat
    BY <1>2, <2>1, ConsoleAssumption DEF Fits
  <2> QED BY <2>1, <2>2
<1> QED BY <1>1, <1>5, <1>8, <1>9 DEF Fits

LEMMA FitsErase ==
  ASSUME NEW g, NEW r, NEW w, NEW e, NEW took, NEW done, NEW line,
         Fits(g, r, w, e, took, done, line, TRUE), e # w
  PROVE  Fits(g, r, w, Before(e), took, done, line, TRUE)
<1>1. r \in Ends /\ w \in Ends /\ e \in Ends BY DEF Fits
<1>2. PICK m, n \in Nat : m = Dist(r, w) /\ n = Dist(w, e) /\ n # 0 /\ Dist(w, Before(e)) = n - 1 /\ Before(e) \in Ends
  <2>1. Dist(r, w) \in Nat BY <1>1, DistIs
  <2> QED BY <1>1, <2>1, DistBack
<1>3. m + n <= INPUT_BUF_SIZE /\ INPUT_BUF_SIZE \in Nat BY <1>2, ConsoleAssumption DEF Fits
<1>4. m + (n - 1) <= INPUT_BUF_SIZE BY <1>3
<1>5. NoNewline(g, w, n) /\ HasLine(g, w, n, line, TRUE) BY <1>2 DEF Fits
<1>6. NoNewline(g, w, n - 1) BY <1>5 DEF NoNewline
<1>7. HasLine(g, w, n - 1, line, TRUE)
  <2>1. PICK k \in 0..INPUT_BUF_SIZE : line = Cells(g, w, k) /\ n <= k BY <1>5 DEF HasLine
  <2>2. n - 1 <= k BY <1>3, <2>1
  <2> QED BY <2>1, <2>2 DEF HasLine
<1> QED BY <1>1, <1>2, <1>4, <1>6, <1>7 DEF Fits

LEMMA FitsBackspace ==
  ASSUME NEW g, NEW r, NEW w, NEW e, NEW took, NEW done, NEW line,
         Fits(g, r, w, e, took, done, line, FALSE)
  PROVE  /\ e = w <=> line = <<>>
         /\ e # w => Fits(g, r, w, Before(e), took, done, ButLast(line), FALSE)
<1>1. r \in Ends /\ w \in Ends /\ e \in Ends /\ w \in Nat BY DistSame DEF Fits
<1>2. line = Cells(g, w, Dist(w, e)) BY LineIs DEF Fits
<1>3. CASE e = w
  <2>1. Dist(w, e) = 0 BY <1>1, <1>3, DistSame
  <2>2. 0 \in Nat OBVIOUS
  <2>3. line = <<>> BY <1>2, <2>1, <2>2, CellsList
  <2> QED BY <1>3, <2>3
<1>4. CASE e # w
  <2>1. PICK m, n \in Nat : m = Dist(r, w) /\ n = Dist(w, e) /\ n # 0 /\ Dist(w, Before(e)) = n - 1 /\ Before(e) \in Ends
    <3>1. Dist(r, w) \in Nat BY <1>1, DistIs
    <3> QED BY <1>1, <1>4, <3>1, DistBack
  <2>2. n \in Nat \ {0} BY <2>1
  <2>3. line # <<>> /\ ButLast(line) = Cells(g, w, n - 1) BY <1>1, <1>2, <2>1, <2>2, CellsFewer
  <2>4. m + n <= INPUT_BUF_SIZE /\ INPUT_BUF_SIZE \in Nat BY <2>1, ConsoleAssumption DEF Fits
  <2>5. m + (n - 1) <= INPUT_BUF_SIZE /\ n - 1 \in 0..INPUT_BUF_SIZE BY <2>2, <2>4
  <2>6. NoNewline(g, w, n) BY <2>1 DEF Fits
  <2>7. NoNewline(g, w, n - 1) BY <2>6 DEF NoNewline
  <2>8. HasLine(g, w, n - 1, ButLast(line), FALSE) BY <2>3, <2>5, LineHas
  <2> QED BY <1>1, <1>4, <2>1, <2>3, <2>5, <2>7, <2>8 DEF Fits
<1> QED BY <1>3, <1>4

LEMMA FitsKilled ==
  ASSUME NEW g, NEW r, NEW w, NEW e, NEW took, NEW done, NEW line, NEW killing,
         Fits(g, r, w, e, took, done, line, killing), e = w \/ g[Slot(Before(e))] = NL
  PROVE  Fits(g, r, w, e, took, done, <<>>, FALSE)
<1>1. r \in Ends /\ w \in Ends /\ e \in Ends /\ w \in Nat BY DistSame DEF Fits
<1>2. e = w
  <2>1. SUFFICES ASSUME e # w, g[Slot(Before(e))] = NL PROVE FALSE OBVIOUS
  <2>2. PICK n \in Nat : n = Dist(w, e) /\ n # 0 /\ Slot(w + n - 1) = Slot(Before(e))
    BY <1>1, <2>1, DistBack
  <2>3. NoNewline(g, w, n) /\ n \in 1..n BY <2>2 DEF Fits
  <2>4. g[Slot(w + n - 1)] # NL BY <2>3 DEF NoNewline
  <2> QED BY <2>1, <2>2, <2>4
<1>3. Dist(w, e) = 0 /\ 0 \in Nat /\ 0 \in 0..INPUT_BUF_SIZE
  BY <1>1, <1>2, DistSame, ConsoleAssumption
<1>4. <<>> = Cells(g, w, 0) BY <1>1, <1>3, CellsList
<1>5. HasLine(g, w, 0, <<>>, FALSE) BY <1>3, <1>4, LineHas
<1> QED BY <1>1, <1>3, <1>5 DEF Fits

\* A character in a ring that is not full.
LEMMA FitsPut ==
  ASSUME NEW g, NEW r, NEW w, NEW e, NEW took, NEW done, NEW line, NEW c,
         Fits(g, r, w, e, took, done, line, FALSE), Dist(r, w) + Dist(w, e) < INPUT_BUF_SIZE,
         NEW h, Puts(g, h, e, c)
  PROVE  /\ c # NL => Fits(h, r, w, Up(e), took, done, Added(line, c), FALSE)
         /\ Fits(h, r, Up(e), Up(e), took, Chained(done, Added(line, c)), <<>>, FALSE)
<1>1. r \in Ends /\ w \in Ends /\ e \in Ends /\ Up(e) \in Ends /\ w \in Nat /\ r \in Nat /\ IsList(took) /\ IsRing(g)
  BY UpIs, DistSame DEF Fits
<1>2. /\ line = Cells(g, w, Dist(w, e)) /\ done = Chained(took, Cells(g, r, Dist(r, w)))
      /\ NoNewline(g, w, Dist(w, e))
  BY LineIs DEF Fits
<1>3. PICK n, m, b \in Nat : /\ n = Dist(r, w) /\ m = Dist(w, e) /\ Dist(r, e) = n + m
                             /\ n + m < b /\ b = INPUT_BUF_SIZE
  <2>1. Dist(r, w) + Dist(w, e) <= INPUT_BUF_SIZE BY DEF Fits
  <2> QED BY <1>1, <2>1, FitsSizes
<1>4. IsRing(h) BY <1>1 DEF IsRing, Puts
<1>5. /\ Dist(w, Up(e)) = m + 1
      /\ Added(line, c) = Cells(h, w, m + 1)
      /\ \A k \in 0..m : Cells(h, w, k) = Cells(g, w, k)
  <2>1. Dist(w, e) < INPUT_BUF_SIZE BY <1>3
  <2> QED BY <1>1, <1>2, <1>3, <2>1, RingPut
<1>6. /\ Dist(r, Up(e)) = n + m + 1
      /\ \A k \in 0..(n + m) : Cells(h, r, k) = Cells(g, r, k)
  <2>1. Dist(r, e) < INPUT_BUF_SIZE BY <1>3
  <2> QED BY <1>1, <1>3, <2>1, RingPut
<1>7. Chained(took, Cells(h, r, n)) = done
  <2>1. n \in 0..(n + m) BY <1>3
  <2> QED BY <1>2, <1>3, <1>6, <2>1
<1>8. ASSUME c # NL PROVE Fits(h, r, w, Up(e), took, done, Added(line, c), FALSE)
  <2>1. NoNewline(h, w, m + 1)
    <3>1. SUFFICES ASSUME NEW k \in 1..(m + 1) PROVE h[Slot(w + k - 1)] # NL BY DEF NoNewline
    <3> PICK v : v = Added(line, c)
      OBVIOUS
    <3>2. Len(v) = m + 1 /\ v[k] = h[Slot(w + k - 1)]
      <4>1. PICK z \in Nat : z = m + 1 OBVIOUS
      <4>2. v = Cells(h, w, z) BY <1>5, <4>1
      <4>3. Len(Cells(h, w, z)) = z /\ \A j \in 1..z : Cells(h, w, z)[j] = h[Slot(w + j - 1)]
        BY <4>1, CellsList
      <4> QED BY <4>1, <4>2, <4>3
    <3>3. IsList(line) /\ Len(line) = m /\ \A j \in 1..m : line[j] = g[Slot(w + j - 1)]
      BY <1>2, <1>3, CellsList
    <3>4. v[m + 1] = c /\ \A j \in 1..m : v[j] = line[j] BY <3>3, ListAdd
    <3>5. CASE k = m + 1 BY <1>8, <3>2, <3>4, <3>5
    <3>6. CASE k \in 1..m
      <4>1. g[Slot(w + k - 1)] # NL BY <1>2, <1>3, <3>6 DEF NoNewline
      <4> QED BY <3>2, <3>3, <3>4, <3>6, <4>1
    <3> QED BY <3>5, <3>6
  <2>2. m + 1 \in 0..INPUT_BUF_SIZE /\ n + (m + 1) <= INPUT_BUF_SIZE BY <1>3
  <2>3. HasLine(h, w, m + 1, Added(line, c), FALSE) BY <1>5, <2>2, LineHas
  <2> QED BY <1>1, <1>3, <1>4, <1>5, <1>7, <2>1, <2>2, <2>3 DEF Fits
<1>9. Fits(h, r, Up(e), Up(e), took, Chained(done, Added(line, c)), <<>>, FALSE)
  <2>1. Chained(Cells(h, r, n), Cells(h, w, m + 1)) = Cells(h, r, n + (m + 1))
    <3>1. m + 1 \in Nat /\ m + 1 < EditMod BY <1>3, ConsoleAssumption DEF EditMod
    <3> QED BY <1>1, <1>3, <3>1, RingParts
  <2>2. IsList(Cells(h, r, n)) /\ IsList(Cells(h, w, m + 1))
    <3>1. m + 1 \in Nat OBVIOUS
    <3> QED BY <3>1, CellsList
  <2>3. Chained(done, Added(line, c)) = Chained(took, Chained(Cells(h, r, n), Cells(h, w, m + 1)))
    BY <1>1, <1>5, <1>7, <2>2, ListAssoc
  <2>4. n + (m + 1) = n + m + 1 BY <1>3
  <2>5. Chained(done, Added(line, c)) = Chained(took, Cells(h, r, Dist(r, Up(e))))
    BY <1>6, <2>1, <2>3, <2>4
  <2>6. Dist(Up(e), Up(e)) = 0 /\ Up(e) \in Nat BY <1>1, DistSame
  <2>7. 0 \in Nat /\ 0 \in 0..INPUT_BUF_SIZE /\ Dist(r, Up(e)) + 0 <= INPUT_BUF_SIZE BY <1>3, <1>6
  <2>8. Cells(h, Up(e), 0) = <<>> BY <2>6, <2>7, CellsList
  <2>9. HasLine(h, Up(e), 0, <<>>, FALSE) BY <2>7, <2>8, LineHas
  <2>10. NoNewline(h, Up(e), 0) BY DEF NoNewline
  <2> QED BY <1>1, <1>4, <2>5, <2>6, <2>7, <2>9, <2>10 DEF Fits
<1> QED BY <1>8, <1>9

-----------------------------------------------------------------------------
(* Who is in the line editor.                                              *)

LEMMA EditorLocked ==
  ASSUME HInv, NEW h \in Harts, InEditor(h)
  PROVE  LocksOf(h) = {"cons"} /\ ~hart[h].intr
<1>1. CASE Head(stack[Cur(h)]).at = "consoleread"
  <2>1. PICK lk \in Locks : InCall(stack[Cur(h)], lk) /\ LocksOf(h) = {lk} /\ ~hart[h].intr
    BY <1>1, CallTop DEF InEditor, CallAts
  <2> QED BY <1>1, <2>1 DEF InCall, CallFrame
<1>2. CASE Head(stack[Cur(h)]).at = "consoleintr"
  <2>1. PICK lk \in Locks : InTrap(Cur(h), stack[Cur(h)], lk) /\ LocksOf(h) = {lk} /\ ~hart[h].intr
    BY <1>2, TrapTop DEF InEditor, TrapAts
  <2> QED BY <1>2, <2>1 DEF InTrap, HandlerFrame
<1> QED BY <1>1, <1>2 DEF InEditor

LEMMA OneEditor ==
  ASSUME HInv, NEW h \in Harts, NEW g \in Harts, InEditor(h), InEditor(g)
  PROVE  g = h
<1>1. LocksOf(h) = {"cons"} /\ LocksOf(g) = {"cons"} BY EditorLocked
<1> QED BY <1>1 DEF LocksOf

LEMMA ShapeKeeps ==
  ASSUME HInv, NEW h \in Harts, Shape(h), NEW g \in Harts, g # h
  PROVE  (Kills(g) => Kills(g)') /\ Cur(g)' = Cur(g) /\ stack'[Cur(g)] = stack[Cur(g)]
<1>1. hart'[g] = hart[g] /\ Cur(g)' = Cur(g) BY DEF Shape, Cur
<1>2. Cur(g) \in Procs \cup Harts /\ Cur(g) # Cur(h) BY CurFacts
<1>3. Cur(g) \in Procs => proc[Cur(g)].state = "RUNNING" BY CurFacts DEF HInv, RunOK
<1>4. stack'[Cur(g)] = stack[Cur(g)] BY <1>2, <1>3 DEF Shape
<1> QED BY <1>1, <1>4 DEF Kills

LEMMA ShapeBasics ==
  ASSUME HInv, NEW h \in Harts
  PROVE  /\ UNCHANGED <<hart, stack>> => Shape(h)
         /\ \A c : hart' = [hart EXCEPT ![h] = c] => \A g \in Harts : g # h => hart'[g] = hart[g]
         /\ \A fs : Goto(h, fs) => \A x \in Procs \cup Harts : x # Cur(h) => stack'[x] = stack[x]
         /\ hart[h].proc # None => Cur(h) = hart[h].proc
BY CurFacts DEF Shape, Goto, HInv, HType

LEMMA ShapeOps ==
  ASSUME HInv, NEW h \in Harts
  PROVE  /\ \A what : Panic(what) => Shape(h)
         /\ \A lk, fs : Release(h, lk, fs) => Shape(h)
         /\ \A lk : TrapReturn(h, lk) => Shape(h)
         /\ \A lk, fs : Acquire(h, lk, fs) => Shape(h)
         /\ \A chan, lk, ps, fs : Sleep(h, chan, lk, ps, fs) => Shape(h)
         /\ \A chan, fs : SleepInside(h, chan, fs) => Shape(h)
<1>1. \A what : Panic(what) => Shape(h) BY ShapeBasics DEF Panic
<1>2. \A lk, fs : Release(h, lk, fs) => Shape(h) BY ShapeBasics DEF Release, Shape
<1>3. \A lk : TrapReturn(h, lk) => Shape(h) BY ShapeBasics DEF TrapReturn, Shape
<1>4. \A lk, fs : Acquire(h, lk, fs) => Shape(h) BY <1>1, ShapeBasics DEF Acquire, Shape
<1>5. \A chan, lk, ps, fs : Sleep(h, chan, lk, ps, fs) => Shape(h)
  BY <1>1, ShapeBasics, ZenonT(60) DEF Sleep, Shape
<1>6. \A chan, fs : SleepInside(h, chan, fs) => Shape(h)
  BY <1>1, ShapeBasics, Zenon DEF SleepInside, Shape
<1> QED BY <1>1, <1>2, <1>3, <1>4, <1>5, <1>6

LEMMA ShapeTrap ==
  ASSUME HInv, NEW h \in Harts, NEW lk, NEW fs, Trap(h, lk, fs)
  PROVE  Shape(h)
<1>0. DOMAIN hart = Harts /\ DOMAIN stack = Procs \cup Harts BY Zenon DEF HInv, HType
<1>1. PICK c : hart' = [hart EXCEPT ![h] = c] BY Zenon DEF Trap
<1>2. PICK v : stack' = [stack EXCEPT ![Cur(h)] = v]
  <2>1. CASE lock[lk] = None
    <3>1. stack' = [stack EXCEPT ![Cur(h)] = fs \o @] BY <2>1, Zenon DEF Trap
    <3> QED BY <3>1
  <2>2. CASE lock[lk] # None
    <3>1. stack' = [stack EXCEPT ![Cur(h)] = <<[at |-> "spin", lk |-> lk]>> \o fs \o @]
      BY <2>2, Zenon DEF Trap
    <3> QED BY <3>1
  <2> QED BY <2>1, <2>2
<1> QED BY <1>0, <1>1, <1>2 DEF Shape

LEMMA ShapeHart ==
  ASSUME HInv, NEW h \in Harts, HartStep(h)
  PROVE  Shape(h)
<1>0. DOMAIN hart = Harts /\ DOMAIN stack = Procs \cup Harts BY Zenon DEF HInv, HType
<1>1. CASE Spin(h) \/ TrapDone(h) \/ LoopTop(h)
  BY <1>0, <1>1, ShapeBasics, Zenon DEF Spin, TrapDone, LoopTop, Shape
<1>2. CASE Reacquire(h) \/ SysSleep(h) BY <1>2, ShapeOps DEF Reacquire, SysSleep
<1>3. CASE Tick(h) BY <1>3, ShapeTrap DEF Tick
<1>4. CASE Preempt(h) BY <1>0, <1>4, ShapeBasics, Zenon DEF Preempt, Shape
<1>5. CASE ClockIntr(h) BY <1>0, <1>5, ShapeBasics, ShapeOps DEF ClockIntr, Shape
<1>6. ASSUME NEW p \in Procs, Pick(h, p) PROVE Shape(h) BY <1>0, <1>6, ShapeBasics, Zenon DEF Pick, Shape
<1> QED BY <1>1, <1>2, <1>3, <1>4, <1>5, <1>6 DEF HartStep

LEMMA ShapeDisk ==
  ASSUME HInv, NEW h \in Harts, CacheStep(h)
  PROVE  Shape(h)
<1>1. CASE AcquireSleep(h) BY <1>1, ShapeBasics, ShapeOps DEF AcquireSleep, Shape
<1>2. CASE Deref(h) \/ Ack(h) BY <1>2, ShapeBasics DEF Deref, Ack, Shape
<1>3. CASE DiskRw(h) BY <1>3, ShapeOps DEF DiskRw, Publish
<1>4. CASE RwDone(h) BY <1>4, ShapeOps, SMTT(30) DEF RwDone
<1>5. CASE Drain(h) BY <1>5, ShapeBasics, ShapeOps DEF Drain
<1> QED BY <1>1, <1>2, <1>3, <1>4, <1>5 DEF CacheStep

LEMMA ShapeConsole ==
  ASSUME HInv, NEW h \in Harts, ConsoleStep(h) \/ UartDone(h) \/ External(h)
  PROVE  Shape(h)
<1>0. DOMAIN hart = Harts /\ DOMAIN stack = Procs \cup Harts BY Zenon DEF HInv, HType
<1>1. CASE ConsoleRead(h) BY <1>1, ShapeBasics, ShapeOps DEF ConsoleRead, Shape
<1>2. CASE UartPutc(h) \/ UartIntr(h) BY <1>2, ShapeOps DEF UartPutc, UartIntr
<1>3. CASE KillLine(h) \/ Backspace(h) \/ Character(h)
  BY <1>3, ShapeBasics, ShapeOps DEF KillLine, Backspace, Character
<1>4. CASE UartDone(h) BY <1>4, ShapeOps DEF UartDone, UartIntrStart
<1>5. CASE External(h)
  <2>1. Trap(h, "vdisk", <<Plain("ack")>>) \/ Trap(h, UartNext[1], UartNext[2])
    BY <1>5 DEF External
  <2> QED BY <2>1, ShapeTrap
<1> QED BY <1>1, <1>2, <1>3, <1>4, <1>5 DEF ConsoleStep

LEMMA ShapePush ==
  ASSUME HInv, NEW h \in Harts, hart[h].proc # None, NEW fs, Push(h, fs), OwnHart(h)
  PROVE  Shape(h)
<1>1. DOMAIN hart = Harts /\ DOMAIN stack = Procs \cup Harts /\ Cur(h) = hart[h].proc
  BY ShapeBasics DEF HInv, HType
<1>2. stack' = [stack EXCEPT ![Cur(h)] = fs] BY <1>1 DEF Push
<1> QED BY <1>1, <1>2 DEF Shape, OwnHart

LEMMA ShapeBegin ==
  ASSUME HInv, NEW h \in Harts, hart[h].proc # None, NEW lk, NEW f, Begin(h, lk, f)
  PROVE  Shape(h)
<1>1. OwnHart(h) BY DEF Begin, HInv, HType, OwnHart
<1>2. Push(h, <<f>>) \/ Push(h, <<[at |-> "spin", lk |-> lk], f>>) BY DEF Begin
<1> QED BY <1>1, <1>2, ShapePush

LEMMA ShapeCalls ==
  ASSUME HInv, NEW h \in Harts, Calls(h)
  PROVE  Shape(h) /\ stack[Cur(h)] = <<>>
<1>0. DOMAIN hart = Harts /\ DOMAIN stack = Procs \cup Harts BY Zenon DEF HInv, HType
<1>1. hart[h].proc # None /\ stack[hart[h].proc] = <<>>
  BY Zenon DEF Calls, Ready, CallBread, CallModify, CallBwrite, CallBrelse, CallPin, CallRead, CallWrite, CallSleep,
         CallKill, CallReturn, Exit
<1>2. stack[Cur(h)] = <<>> /\ Cur(h) = hart[h].proc BY <1>1, ShapeBasics
<1>11. SUFFICES Shape(h) BY <1>2
<1>3. CASE CallBread(h)
  <2>1. CASE Panic("bget") BY <2>1, ShapeOps
  <2>2. CASE \E i : NoChange /\ Push(h, <<[at |-> "acquiresleep", i |-> i]>>)
    <3>1. PICK i : NoChange /\ Push(h, <<[at |-> "acquiresleep", i |-> i]>>) BY <2>2
    <3>2. OwnHart(h) BY <3>1 DEF NoChange, OwnHart
    <3> QED BY <1>1, <3>1, <3>2, ShapePush
  <2> QED BY <1>3, <2>1, <2>2 DEF CallBread
<1>4. CASE CallBwrite(h)
  <2>1. PICK f : Begin(h, "vdisk", f) BY <1>4 DEF CallBwrite
  <2> QED BY <1>1, <2>1, ShapeBegin
<1>5. CASE CallRead(h)
  <2>1. PICK f : Begin(h, "cons", f) BY <1>5 DEF CallRead
  <2> QED BY <1>1, <2>1, ShapeBegin
<1>6. CASE CallWrite(h)
  <2>1. PICK f : Begin(h, "uart", f) BY <1>6 DEF CallWrite
  <2> QED BY <1>1, <2>1, ShapeBegin
<1>7. CASE CallSleep(h)
  <2>1. PICK f : Begin(h, "ticks", f) BY <1>7 DEF CallSleep
  <2> QED BY <1>1, <2>1, ShapeBegin
<1>8. CASE CallBrelse(h)
  <2>1. PICK i : Push(h, <<[at |-> "deref", i |-> i]>>) BY <1>8 DEF CallBrelse
  <2>2. OwnHart(h) BY <1>8 DEF CallBrelse, OwnHart
  <2> QED BY <1>1, <2>1, <2>2, ShapePush
<1>9. CASE CallModify(h) \/ CallPin(h) \/ CallKill(h) \/ CallReturn(h)
  <2>1. UNCHANGED <<hart, stack>> BY <1>9 DEF CallModify, CallPin, CallKill, CallReturn, NoChange
  <2> QED BY <2>1, ShapeBasics
<1>10. CASE Exit(h) BY <1>0, <1>10, ShapeBasics, Zenon DEF Exit, Shape
<1> QED BY <1>3, <1>4, <1>5, <1>6, <1>7, <1>8, <1>9, <1>10 DEF Calls

(* Only its own next turn takes a hart away from taking a line back.       *)
LEMMA KillerStays ==
  ASSUME HInv, NEW k \in Harts, Kills(k), [Next]_vars
  PROVE  Kills(k)' \/ KillLine(k)
<1>1. LocksOf(k) = {"cons"} /\ ~hart[k].intr /\ stack[Cur(k)] # <<>> /\ Head(stack[Cur(k)]).at = "consoleintr"
  BY EditorLocked DEF Kills, InEditor
<1>2. \A label : At(k, label) => label = "consoleintr" BY <1>1 DEF At
<1>3. ASSUME NEW h \in Harts, Shape(h), h # k PROVE Kills(k)' BY <1>3, ShapeKeeps
<1>4. ASSUME HartStep(k) PROVE FALSE
  <2>1. ~(\E p \in Procs : Pick(k, p)) /\ ~LoopTop(k) BY <1>1, Zenon DEF Pick, LoopTop, Cur
  <2>2. ~Tick(k) /\ ~Preempt(k) BY <1>1, Zenon DEF Tick, Trap, Preempt
  <2> QED BY <1>2, <1>4, <2>1, <2>2 DEF HartStep, Spin, Reacquire, ClockIntr, TrapDone, SysSleep
<1>5. ~CacheStep(k) /\ ~UartDone(k)
  BY <1>2 DEF CacheStep, AcquireSleep, Deref, DiskRw, RwDone, Ack, Drain, UartDone, UartIntrStart
<1>6. ~External(k) BY <1>1, Zenon DEF External, Trap
<1>7. ConsoleStep(k) => KillLine(k)
  <2>1. Frame(k).c = CtrlU /\ CtrlU # BS BY ConsoleAssumption DEF Kills, Frame
  <2> QED BY <1>2, <2>1 DEF ConsoleStep, ConsoleRead, UartPutc, UartIntr, Backspace, Character
<1>8. ~Calls(k) BY <1>1, ShapeCalls
<1>9. CASE \E h \in Harts : HartStep(h) \/ CacheStep(h) \/ ConsoleStep(h) \/ Calls(h) \/ External(h) \/ UartDone(h)
  BY <1>3, <1>4, <1>5, <1>6, <1>7, <1>8, <1>9, ShapeHart, ShapeDisk, ShapeConsole, ShapeCalls
<1>10. CASE KeyPress \/ Transmitted \/ (\E d \in Descs : DiskDone(d)) \/ Idling \/ UNCHANGED vars
  <2>1. UNCHANGED <<hart, stack>>
    BY <1>10, Zenon DEF KeyPress, Transmitted, DiskDone, DeviceDone, Idling, vars
  <2>2. Cur(k)' = Cur(k) BY <2>1 DEF Cur
  <2> QED BY <2>1, <2>2 DEF Kills
<1> QED BY <1>9, <1>10 DEF Next

-----------------------------------------------------------------------------
LEMMA FitsMore ==
  ASSUME NEW g, NEW r, NEW w, NEW e, NEW took, NEW done, NEW line, NEW k, NEW l,
         Fits(g, r, w, e, took, done, line, k), k => l
  PROVE  Fits(g, r, w, e, took, done, line, l)
<1>1. HasLine(g, w, Dist(w, e), line, k) => HasLine(g, w, Dist(w, e), line, l) BY DEF HasLine
<1> QED BY <1>1 DEF Fits

LEMMA NoKiller ==
  ASSUME HInv, EInv, NEW h \in Harts, InEditor(h), ~Kills(h)
  PROVE  Edits(FALSE)
<1>1. ~Killer BY OneEditor DEF Killer, Kills, InEditor
<1>2. Killer = FALSE BY <1>1 DEF Killer
<1>3. Edits(Killer) BY DEF EInv
<1> QED BY <1>2, <1>3

\* What is to be shown of a step that leaves nobody in the middle of a line.
LEMMA EditsAfter ==
  ASSUME NEW g, NEW r, NEW w, NEW e, NEW took, NEW done, NEW line,
         cons' = [ring |-> g, r |-> r, w |-> w, e |-> e, taken |-> took],
         typed' = [done |-> done, line |-> line],
         Fits(g, r, w, e, took, done, line, FALSE)
  PROVE  EInv'
<1>1. ConsoleRec' BY DEF ConsoleRec
<1>2. Fits(g, r, w, e, took, done, line, Killer') BY FitsMore
<1>3. /\ cons'.ring = g /\ cons'.r = r /\ cons'.w = w /\ cons'.e = e /\ cons'.taken = took
      /\ typed'.done = done /\ typed'.line = line
  OBVIOUS
<1> QED BY <1>1, <1>2, <1>3 DEF EInv, Edits

LEMMA ConsoleReadEdits ==
  ASSUME HInv, EInv, NEW h \in Harts, ConsoleRead(h)
  PROVE  EInv'
<1>1. InEditor(h) /\ ~Kills(h) BY Zenon DEF ConsoleRead, At, Runs, InEditor, Kills
<1>2. Edits(FALSE) BY <1>1, NoKiller
<1>3. PICK g, r, w, e, took, done, line :
        /\ cons = [ring |-> g, r |-> r, w |-> w, e |-> e, taken |-> took]
        /\ typed = [done |-> done, line |-> line]
        /\ g = cons.ring /\ r = cons.r /\ w = cons.w /\ e = cons.e /\ took = cons.taken
        /\ done = typed.done /\ line = typed.line
  BY DEF EInv, ConsoleRec
<1>4. Fits(g, r, w, e, took, done, line, FALSE) BY <1>2, <1>3 DEF Edits
<1>5. typed' = typed BY DEF ConsoleRead
<1>6. CASE cons' = cons BY <1>3, <1>4, <1>5, <1>6, EditsAfter
<1>7. CASE r # w /\ cons' = [cons EXCEPT !.r = Up(r), !.taken = Added(took, g[Slot(r)])]
  <2>1. Fits(g, Up(r), w, e, Added(took, g[Slot(r)]), done, line, FALSE) BY <1>4, <1>7, FitsRead
  <2>2. cons' = [ring |-> g, r |-> Up(r), w |-> w, e |-> e, taken |-> Added(took, g[Slot(r)])]
    BY <1>3, <1>7
  <2> QED BY <1>3, <1>5, <2>1, <2>2, EditsAfter
<1>8. cons' = cons \/ (r # w /\ cons' = [cons EXCEPT !.r = Up(r), !.taken = Added(took, g[Slot(r)])])
  BY <1>3 DEF ConsoleRead, TakeChar, Up, Added
<1> QED BY <1>6, <1>7, <1>8

LEMMA KillLineEdits ==
  ASSUME HInv, EInv, NEW h \in Harts, KillLine(h)
  PROVE  EInv'
<1>1. Kills(h) BY Zenon DEF KillLine, At, Runs, Frame, Kills
<1>3. PICK g, r, w, e, took, done, line :
        /\ cons = [ring |-> g, r |-> r, w |-> w, e |-> e, taken |-> took]
        /\ typed = [done |-> done, line |-> line]
        /\ g = cons.ring /\ r = cons.r /\ w = cons.w /\ e = cons.e /\ took = cons.taken
        /\ done = typed.done /\ line = typed.line
  BY DEF EInv, ConsoleRec
<1>4. Fits(g, r, w, e, took, done, line, TRUE) BY <1>3, FitsMore DEF EInv, Edits
<1>5. CASE e # w /\ cons' = Erased /\ UNCHANGED <<hart, stack, typed>>
  <2>1. Fits(g, r, w, Before(e), took, done, line, TRUE) BY <1>4, <1>5, FitsErase
  <2>2. cons' = [ring |-> g, r |-> r, w |-> w, e |-> Before(e), taken |-> took]
    BY <1>3, <1>5 DEF Erased
  <2>3. Killer' BY <1>1, <1>5 DEF Killer, Kills, Cur
  <2>4. Fits(g, r, w, Before(e), took, done, line, Killer') BY <2>1, <2>3, FitsMore
  <2>5. ConsoleRec' BY <1>3, <1>5, <2>2 DEF ConsoleRec
  <2>6. /\ cons'.ring = g /\ cons'.r = r /\ cons'.w = w /\ cons'.e = Before(e) /\ cons'.taken = took
        /\ typed'.done = done /\ typed'.line = line
    BY <1>3, <1>5, <2>2
  <2> QED BY <2>4, <2>5, <2>6 DEF EInv, Edits
<1>6. CASE (e = w \/ g[Slot(Before(e))] = NL) /\ typed' = Edited(typed, CtrlU, FALSE) /\ cons' = cons
  <2>1. Fits(g, r, w, e, took, done, <<>>, FALSE) BY <1>4, <1>6, FitsKilled
  <2>2. typed' = [done |-> done, line |-> <<>>] BY <1>3, <1>6, ConsoleAssumption DEF Edited
  <2> QED BY <1>3, <1>6, <2>1, <2>2, EditsAfter
<1> QED BY <1>3, <1>5, <1>6 DEF KillLine, Erasable

LEMMA BackspaceEdits ==
  ASSUME HInv, EInv, NEW h \in Harts, Backspace(h)
  PROVE  EInv'
<1>1. InEditor(h) /\ ~Kills(h) BY ConsoleAssumption, Zenon DEF Backspace, At, Runs, Frame, InEditor, Kills
<1>2. Edits(FALSE) BY <1>1, NoKiller
<1>3. PICK g, r, w, e, took, done, line :
        /\ cons = [ring |-> g, r |-> r, w |-> w, e |-> e, taken |-> took]
        /\ typed = [done |-> done, line |-> line]
        /\ g = cons.ring /\ r = cons.r /\ w = cons.w /\ e = cons.e /\ took = cons.taken
        /\ done = typed.done /\ line = typed.line
  BY DEF EInv, ConsoleRec
<1>4. Fits(g, r, w, e, took, done, line, FALSE) BY <1>2, <1>3 DEF Edits
<1>5. /\ e = w <=> line = <<>>
      /\ e # w => Fits(g, r, w, Before(e), took, done, ButLast(line), FALSE)
  BY <1>4, FitsBackspace
<1>6. typed' = [typed EXCEPT !.line = IF @ = <<>> THEN @ ELSE ButLast(@)]
  BY ConsoleAssumption DEF Backspace, Edited, ButLast
<1>7. CASE e = w
  <2>1. cons' = cons BY <1>3, <1>7 DEF Backspace, Erasable
  <2>2. typed' = [done |-> done, line |-> line] BY <1>3, <1>5, <1>6, <1>7
  <2> QED BY <1>3, <1>4, <2>1, <2>2, EditsAfter
<1>8. CASE e # w
  <2>1. cons' = [ring |-> g, r |-> r, w |-> w, e |-> Before(e), taken |-> took]
    BY <1>3, <1>8 DEF Backspace, Erasable, Erased
  <2>2. typed' = [done |-> done, line |-> ButLast(line)] BY <1>3, <1>5, <1>6, <1>8
  <2>3. Fits(g, r, w, Before(e), took, done, ButLast(line), FALSE) BY <1>5, <1>8
  <2> QED BY <2>1, <2>2, <2>3, EditsAfter
<1> QED BY <1>7, <1>8

LEMMA CharacterEdits ==
  ASSUME HInv, EInv, NEW h \in Harts, Character(h)
  PROVE  EInv'
<1>1. InEditor(h) /\ ~Kills(h) BY Zenon DEF Character, At, Runs, Frame, InEditor, Kills
<1>2. Edits(FALSE) BY <1>1, NoKiller
<1>3. PICK g, r, w, e, took, done, line :
        /\ cons = [ring |-> g, r |-> r, w |-> w, e |-> e, taken |-> took]
        /\ typed = [done |-> done, line |-> line]
        /\ g = cons.ring /\ r = cons.r /\ w = cons.w /\ e = cons.e /\ took = cons.taken
        /\ done = typed.done /\ line = typed.line
  BY DEF EInv, ConsoleRec
<1>4. Fits(g, r, w, e, took, done, line, FALSE) BY <1>2, <1>3 DEF Edits
<1>5. PICK c : c = Frame(h).c /\ c \notin {CtrlU, BS} BY DEF Character
<1>6. CASE ~(Held < INPUT_BUF_SIZE)
  <2>1. cons' = cons /\ typed' = typed BY <1>6 DEF Character
  <2> QED BY <1>3, <1>4, <2>1, EditsAfter
<1>7. CASE Held < INPUT_BUF_SIZE
  <2>1. /\ typed' = Edited(typed, c, Held + 1 = INPUT_BUF_SIZE)
        /\ cons' = IF EndsLine(c) THEN [Stored(c) EXCEPT !.w = (cons.e + 1) % EditMod] ELSE Stored(c)
    BY <1>5, <1>7 DEF Character
  <2>2. Held = Dist(r, e) BY <1>3 DEF Held, Dist
  <2>3. Dist(r, w) + Dist(w, e) < INPUT_BUF_SIZE
    <3>1. r \in Ends /\ w \in Ends /\ e \in Ends /\ Dist(r, w) + Dist(w, e) <= INPUT_BUF_SIZE
      BY <1>4 DEF Fits
    <3>2. Dist(r, e) = Dist(r, w) + Dist(w, e) BY <3>1, FitsSizes
    <3> QED BY <1>7, <2>2, <3>2
  <2>4. PICK k : k = [g EXCEPT ![Slot(e)] = c] OBVIOUS
  <2>5. /\ c # NL => Fits(k, r, w, Up(e), took, done, Added(line, c), FALSE)
        /\ Fits(k, r, Up(e), Up(e), took, Chained(done, Added(line, c)), <<>>, FALSE)
    BY <1>4, <2>3, <2>4, FitsPut DEF Puts
  <2>6. Stored(c) = [ring |-> k, r |-> r, w |-> w, e |-> Up(e), taken |-> took]
    <3>1. Stored(c) = [cons EXCEPT !.ring[Slot(e)] = c, !.e = Up(e)] BY <1>3 DEF Stored, Up
    <3>2. [cons EXCEPT !.ring[Slot(e)] = c, !.e = Up(e)] = [cons EXCEPT !.ring = k, !.e = Up(e)]
      BY <1>3, <2>4
    <3> QED BY <1>3, <3>1, <3>2, ZenonT(60)
  <2>7. CASE EndsLine(c)
    <3>1. cons' = [ring |-> k, r |-> r, w |-> Up(e), e |-> Up(e), taken |-> took]
      BY <1>3, <2>1, <2>6, <2>7 DEF Up
    <3>2. typed' = [done |-> Chained(done, Added(line, c)), line |-> <<>>]
      BY <1>3, <1>5, <2>1, <2>7 DEF Edited, EndsLine, Chained, Added
    <3> QED BY <2>5, <3>1, <3>2, EditsAfter
  <2>8. CASE ~EndsLine(c)
    <3>1. cons' = [ring |-> k, r |-> r, w |-> w, e |-> Up(e), taken |-> took] BY <2>1, <2>6, <2>8
    <3>2. typed' = [done |-> done, line |-> Added(line, c)]
      BY <1>3, <1>5, <2>1, <2>8 DEF Edited, EndsLine, Added
    <3>3. c # NL BY <2>8 DEF EndsLine
    <3> QED BY <2>5, <3>1, <3>2, <3>3, EditsAfter
  <2> QED BY <2>7, <2>8
<1> QED BY <1>6, <1>7

\* Nobody else comes near it, and who takes a line back goes on doing so.
LEMMA OthersEdit ==
  ASSUME HInv, EInv, [Next]_vars, UNCHANGED <<cons, typed>>
  PROVE  EInv'
<1>1. CASE \E k \in Harts : KillLine(k) BY <1>1, KillLineEdits
<1>2. CASE ~\E k \in Harts : KillLine(k)
  <2>1. Killer => Killer' BY <1>2, KillerStays DEF Killer
  <2>2. Fits(cons.ring, cons.r, cons.w, cons.e, cons.taken, typed.done, typed.line, Killer')
    BY <2>1, FitsMore DEF EInv, Edits
  <2>3. ConsoleRec' BY DEF EInv, ConsoleRec
  <2> QED BY <2>2, <2>3 DEF EInv, Edits
<1> QED BY <1>1, <1>2

LEMMA NextEdits ==
  ASSUME HInv, EInv, [Next]_vars
  PROVE  EInv'
<1>1. ASSUME NEW h \in Harts, ConsoleStep(h) PROVE EInv'
  <2>1. CASE UartPutc(h) \/ UartIntr(h)
    <3>1. UNCHANGED <<cons, typed>> BY <2>1 DEF UartPutc, UartIntr
    <3> QED BY <3>1, OthersEdit
  <2> QED BY <1>1, <2>1, ConsoleReadEdits, KillLineEdits, BackspaceEdits, CharacterEdits DEF ConsoleStep
<1>2. ASSUME NEW h \in Harts, Calls(h) \/ External(h) \/ UartDone(h) PROVE UNCHANGED <<cons, typed>>
  BY <1>2, Zenon DEF Calls, CallBread, CallModify, CallBwrite, CallBrelse, CallPin, CallRead, CallWrite, CallSleep, CallKill,
              CallReturn, Exit, External, UartDone, UartIntrStart, driver
<1>3. CASE KeyPress \/ Transmitted \/ (\E d \in Descs : DiskDone(d)) \/ Idling \/ UNCHANGED vars
  <2>1. UNCHANGED <<cons, typed>> BY <1>3, Zenon DEF KeyPress, Transmitted, DiskDone, Idling, vars
  <2> QED BY <2>1, OthersEdit
<1>4. CASE \E h \in Harts : \/ HartStep(h) /\ UNCHANGED <<driver, todo>>
                            \/ CacheStep(h) /\ UNCHANGED <<cons, uart, keys, typed, todo>>
  <2>1. UNCHANGED <<cons, typed>> BY <1>4 DEF driver
  <2> QED BY <2>1, OthersEdit
<1>5. CASE \E h \in Harts : Calls(h) \/ External(h) \/ UartDone(h) BY <1>2, <1>5, OthersEdit
<1>6. CASE \E h \in Harts : ConsoleStep(h) BY <1>1, <1>6
<1> QED BY <1>3, <1>4, <1>5, <1>6 DEF Next

LEMMA InitEdits == Init => EInv
<1> SUFFICES ASSUME Init PROVE EInv
  OBVIOUS
<1>1. /\ cons = [ring |-> [k \in 0..(INPUT_BUF_SIZE - 1) |-> None], r |-> 0, w |-> 0, e |-> 0, taken |-> <<>>]
      /\ typed = [done |-> <<>>, line |-> <<>>]
  BY DEF Init, ConsoleInit
<1>2. ConsoleRec BY <1>1 DEF ConsoleRec
<1>3. PICK g : g = [k \in 0..(INPUT_BUF_SIZE - 1) |-> None] OBVIOUS
<1>4. IsRing(g) BY <1>3 DEF IsRing
<1>5. 0 \in Ends /\ INPUT_BUF_SIZE \in Nat BY ConsoleAssumption DEF Ends, EditMod
<1>6. Dist(0, 0) = 0 /\ 0 \in Nat /\ 0 \in 0..INPUT_BUF_SIZE BY <1>5, DistSame
<1>7. Cells(g, 0, 0) = <<>> BY <1>6, CellsList
<1>8. Chained(<<>>, <<>>) = <<>> BY DEF Chained
<1>9. HasLine(g, 0, 0, <<>>, FALSE) BY <1>6, <1>7, LineHas
<1>10. NoNewline(g, 0, 0) BY DEF NoNewline
<1>11. 0 + 0 <= INPUT_BUF_SIZE BY <1>5
<1>12. Fits(g, 0, 0, 0, <<>>, <<>>, <<>>, FALSE)
  BY <1>4, <1>5, <1>6, <1>7, <1>8, <1>9, <1>10, <1>11, Empty DEF Fits
<1>13. Fits(g, 0, 0, 0, <<>>, <<>>, <<>>, Killer) BY <1>12, FitsMore
<1> QED BY <1>1, <1>2, <1>3, <1>13 DEF EInv, Edits

LEMMA EditedAsTyped == HInv /\ EInv => LinesEdited
<1> SUFFICES ASSUME HInv, EInv PROVE LinesEdited
  OBVIOUS
<1>1. Fits(cons.ring, cons.r, cons.w, cons.e, cons.taken, typed.done, typed.line, Killer)
  BY DEF EInv, Edits
<1>2. \A a, b : InRing(a, b) = Cells(cons.ring, a, Dist(a, b)) BY DEF InRing, Cells, Dist
<1>3. cons.taken \o InRing(cons.r, cons.w) = typed.done BY <1>1, <1>2 DEF Fits, Chained
<1>4. PICK n, m \in Nat : /\ n = Dist(cons.w, cons.e) /\ typed.line = Cells(cons.ring, cons.w, m) /\ n <= m
                          /\ m = n \/ Killer
  <2>1. HasLine(cons.ring, cons.w, Dist(cons.w, cons.e), typed.line, Killer) /\ Dist(cons.w, cons.e) \in Nat
    BY <1>1, DistIs DEF Fits
  <2>2. 0..INPUT_BUF_SIZE \subseteq Nat BY ConsoleAssumption
  <2> QED BY <2>1, <2>2 DEF HasLine
<1>5. CASE m = n BY <1>2, <1>3, <1>4, <1>5 DEF LinesEdited
<1>6. CASE Killer
  <2>1. PICK h \in Harts : Kills(h) BY <1>6 DEF Killer
  <2>2. PICK s : s = stack[Cur(h)] /\ IsList(s) /\ s # <<>> /\ Cur(h) \in Procs \cup Harts
    BY <2>1, CurFacts DEF Kills
  <2>3. 1 \in 1..Len(s) /\ s[1] = Head(s)
    <3>1. PICK S : s \in Seq(S) BY <2>2 DEF IsList
    <3> QED BY <2>2, <3>1
  <2>4. s[1].at = "consoleintr" /\ s[1].c = CtrlU BY <2>1, <2>2, <2>3 DEF Kills
  <2>5. Killing BY <2>2, <2>3, <2>4 DEF Killing
  <2>6. cons.w \in Nat BY <1>1, DistSame DEF Fits
  <2>7. \E k \in 0..Len(Cells(cons.ring, cons.w, m)) : Cells(cons.ring, cons.w, n) = SubSeq(Cells(cons.ring, cons.w, m), 1, k)
    BY <1>4, <2>6, CellsPrefix
  <2> QED BY <1>2, <1>3, <1>4, <2>5, <2>7 DEF LinesEdited
<1> QED BY <1>4, <1>5, <1>6

(* Whatever the sizes of the ring and of what is typed, the ring holds      *)
(* behind what readers took the characters as a line editor without a ring  *)
(* leaves them (consoleintr() and consoleread() of console.c), and while ^U *)
(* takes a line back it still holds a beginning of that line.               *)
THEOREM LinesAlwaysEdited == Spec => []LinesEdited
<1>1. HInv /\ EInv /\ [Next]_vars => HInv' /\ EInv' BY NextKeeps, NextEdits
<1>2. HInv /\ EInv => LinesEdited BY EditedAsTyped
<1>3. Init => HInv /\ EInv BY InitHolds, InitEdits, Zenon
<1> QED BY <1>1, <1>2, <1>3, PTL DEF Spec

-----------------------------------------------------------------------------
LEMMA SameTrans ==
  ASSUME NEW r, NEW s, NEW t, Same(r, s), Same(s, t)
  PROVE  Same(r, t)
BY DEF Same

LEMMA BottomOne ==
  ASSUME NEW f
  PROVE  /\ Bottom(<<f>>) = f /\ (IsJob(<<f>>) <=> f.at \in JobAts) /\ ~IsJob(<<>>)
         /\ NoJob(<<>>) /\ (f.at \notin JobAts => NoJob(<<f>>))
         /\ \A g : f.at \notin JobAts /\ g.at \notin JobAts => NoJob(<<f, g>>)
<1>1. Len(<<f>>) = 1 /\ <<f>>[1] = f /\ <<f>> # <<>> /\ Len(<<>>) = 0 OBVIOUS
<1>2. Bottom(<<f>>) = f BY <1>1 DEF Bottom
<1>3. ASSUME NEW g, f.at \notin JobAts, g.at \notin JobAts PROVE NoJob(<<f, g>>)
  <2>1. Len(<<f, g>>) = 2 /\ <<f, g>>[1] = f /\ <<f, g>>[2] = g OBVIOUS
  <2>2. \A k \in 1..2 : k = 1 \/ k = 2 OBVIOUS
  <2> QED BY <1>3, <2>1, <2>2 DEF NoJob
<1>4. NoJob(<<>>) /\ (f.at \notin JobAts => NoJob(<<f>>)) BY <1>1 DEF NoJob
<1> QED BY <1>1, <1>2, <1>3, <1>4 DEF IsJob

(* Frames that are no jobs hide the job and do not change it. *)
LEMMA JoinFacts ==
  ASSUME NEW s, IsList(s), NEW fs, IsList(fs)
  PROVE  /\ NoJob(fs) => Same(Chained(fs, s), s)
         /\ NoJob(fs) /\ s # <<>> => Chained(fs, s) # <<>> /\ Bottom(Chained(fs, s)) = Bottom(s)
<1>1. PICK S : s \in Seq(S) BY DEF IsList
<1>2. PICK F : fs \in Seq(F) BY DEF IsList
<1>3. PICK T : T = S \cup F OBVIOUS
<1>4. s \in Seq(T) /\ fs \in Seq(T) /\ Len(s) \in Nat /\ Len(fs) \in Nat
  BY <1>1, <1>2, <1>3, SeqMonotonic
<1>5. PICK l : l = fs \o s OBVIOUS
<1>6. /\ l \in Seq(T) /\ Len(l) = Len(fs) + Len(s)
      /\ \A i \in 1..Len(fs) : l[i] = fs[i]
      /\ \A i \in 1..Len(s) : l[i + Len(fs)] = s[i]
  BY <1>4, <1>5, ConcatProperties
<1>7. CASE s = <<>>
  <2>1. Len(s) = 0 BY <1>7
  <2>2. NoJob(fs) => ~IsJob(l)
    <3> SUFFICES ASSUME NoJob(fs), l # <<>> PROVE Bottom(l).at \notin JobAts
      BY DEF IsJob
    <3>1. Len(l) # 0 BY <1>6, EmptySeq
    <3>2. Len(l) \in 1..Len(fs) /\ Bottom(l) = fs[Len(l)] BY <1>4, <1>6, <2>1, <3>1 DEF Bottom
    <3> QED BY <3>2 DEF NoJob
  <2>3. ~IsJob(s) BY <1>7 DEF IsJob
  <2> QED BY <1>5, <1>7, <2>2, <2>3 DEF Same, Chained
<1>8. CASE s # <<>>
  <2>1. Len(s) # 0 BY <1>4, <1>8, EmptySeq
  <2>2. Len(s) \in 1..Len(s) /\ Len(l) # 0 BY <1>4, <1>6, <2>1
  <2>3. l # <<>> BY <2>2
  <2>4. Bottom(l) = Bottom(s) BY <1>4, <1>6, <2>2 DEF Bottom
  <2> QED BY <1>5, <1>8, <2>3, <2>4 DEF Same, IsJob, Chained
<1> QED BY <1>7, <1>8

LEMMA PopFacts ==
  ASSUME NEW s, IsList(s), s # <<>>
  PROVE  /\ s = Chained(<<Head(s)>>, Tail(s)) /\ IsList(Tail(s))
         /\ Head(s).at \notin JobAts => Same(Tail(s), s)
<1>1. PICK S : s \in Seq(S) BY DEF IsList
<1>2. PICK a, t : a = Head(s) /\ t = Tail(s) OBVIOUS
<1>3. IsList(t) BY <1>2, Pop
<1>4. s = <<a>> \o t BY <1>1, <1>2, HeadTailProperties, ConcatProperties, SeqEqual
<1>5. IsList(<<a>>) /\ (a.at \notin JobAts => NoJob(<<a>>)) BY Single, BottomOne
<1>6. s = Chained(<<a>>, t) BY <1>4 DEF Chained
<1>7. a.at \notin JobAts => Same(s, t) BY <1>3, <1>5, <1>6, JoinFacts
<1> QED BY <1>2, <1>3, <1>6, <1>7 DEF Same

LEMMA BecomesSame ==
  ASSUME HInv, NEW x \in Procs \cup Harts, NEW t, Becomes(x, t), Same(t, stack[x])
  PROVE  JobsSame
BY DEF Becomes, JobsSame, Same

LEMMA GotoIs ==
  ASSUME HInv, NEW h \in Harts, NEW fs, Goto(h, fs)
  PROVE  Becomes(Cur(h), Chained(fs, Tail(stack[Cur(h)])))
BY CurFacts DEF Goto, Becomes, Chained, HInv, HType

LEMMA StackStays ==
  ASSUME UNCHANGED stack
  PROVE  JobsSame
BY DEF JobsSame, Same

(* A frame that is no job gives way to others that are none. *)
LEMMA GotoSame ==
  ASSUME HInv, NEW h \in Harts, stack[Cur(h)] # <<>>, Head(stack[Cur(h)]).at \notin JobAts,
         NEW fs, IsList(fs), NoJob(fs), Goto(h, fs)
  PROVE  JobsSame
<1>1. PICK s : s = stack[Cur(h)] /\ IsList(s) BY CurFacts
<1>2. IsList(Tail(s)) /\ Same(Tail(s), s) BY <1>1, PopFacts
<1>3. Same(Chained(fs, Tail(s)), Tail(s)) BY <1>2, JoinFacts
<1>4. Same(Chained(fs, Tail(s)), s) BY <1>2, <1>3, SameTrans
<1>5. Becomes(Cur(h), Chained(fs, Tail(s))) /\ Cur(h) \in Procs \cup Harts
  BY <1>1, GotoIs, CurFacts
<1> QED BY <1>1, <1>4, <1>5, BecomesSame

LEMMA SpinJob ==
  ASSUME NEW lk, NEW fs, IsList(fs), NoJob(fs)
  PROVE  IsList(<<[at |-> "spin", lk |-> lk]>> \o fs) /\ NoJob(<<[at |-> "spin", lk |-> lk]>> \o fs)
<1> PICK f : f = [at |-> "spin", lk |-> lk]
  OBVIOUS
<1>1. f = [at |-> "spin", lk |-> lk] /\ f.at = "spin" OBVIOUS
<1>2. PICK F : fs \in Seq(F) BY DEF IsList
<1>3. PICK T : T = F \cup {f} OBVIOUS
<1>4. fs \in Seq(T) /\ <<f>> \in Seq(T) /\ Len(<<f>>) = 1 /\ Len(fs) \in Nat
  BY <1>2, <1>3, SeqMonotonic
<1>5. PICK l : l = <<f>> \o fs OBVIOUS
<1>6. l \in Seq(T) /\ Len(l) = 1 + Len(fs) /\ l[1] = f /\ \A i \in 1..Len(fs) : l[i + 1] = fs[i]
  BY <1>4, <1>5, ConcatProperties
<1>7. ASSUME NEW k \in 1..Len(l) PROVE l[k].at \notin JobAts
  <2>1. CASE k = 1 BY <1>1, <1>6, <2>1 DEF JobAts
  <2>2. CASE k # 1
    <3>1. PICK i \in 1..Len(fs) : k = i + 1 BY <1>4, <1>6, <2>2
    <3> QED BY <1>6, <3>1 DEF NoJob
  <2> QED BY <2>1, <2>2
<1>8. IsList(l) /\ NoJob(l) BY <1>6, <1>7 DEF IsList, NoJob
<1> QED BY <1>1, <1>5, <1>8

LEMMA AcquireSame ==
  ASSUME HInv, NEW h \in Harts, stack[Cur(h)] # <<>>, Head(stack[Cur(h)]).at \notin JobAts,
         NEW fs, IsList(fs), NoJob(fs), NEW lk, Acquire(h, lk, fs)
  PROVE  JobsSame
<1>1. PICK gs : gs = <<[at |-> "spin", lk |-> lk]>> \o fs OBVIOUS
<1>2. IsList(gs) /\ NoJob(gs) BY <1>1, SpinJob
<1>3. Goto(h, fs) \/ Goto(h, gs) \/ UNCHANGED stack BY <1>1 DEF Acquire, Panic
<1> QED BY <1>2, <1>3, GotoSame, StackStays

LEMMA Double == ASSUME NEW a, NEW b PROVE IsList(<<a, b>>)
<1> DEFINE T == {a, b}
<1>1. <<a, b>> \in Seq(T) OBVIOUS
<1> QED BY <1>1, Zenon DEF IsList

(* Whoever goes to sleep has the frame f to go on with. *)
LEMMA SleepJob ==
  ASSUME HInv, NEW h \in Harts, stack[Cur(h)] # <<>>, Tail(stack[Cur(h)]) = <<>>,
         NEW f, NEW chan, NEW lk, NEW ps,
         Sleep(h, chan, lk, ps, <<f>>) \/ SleepInside(h, chan, <<f>>)
  PROVE  \/ UNCHANGED stack /\ panic' = "sched locks"
         \/ \E t : Becomes(Cur(h), t) /\ t # <<>> /\ Bottom(t) = f
<1>1. PICK w : w = <<f>> /\ IsList(w) /\ w # <<>> /\ Bottom(w) = f BY Single, BottomOne
<1>2. CASE \E r : r.at = "resume" /\ Goto(h, <<r>> \o w)
  <2>1. PICK r : r.at = "resume" /\ Goto(h, <<r>> \o w) BY <1>2
  <2>2. PICK v : v = <<r>> /\ IsList(v) BY Single
  <2>3. NoJob(v) BY <2>1, <2>2, BottomOne DEF JobAts
  <2>4. PICK l : l = Chained(v, w) OBVIOUS
  <2>5. l # <<>> /\ Bottom(l) = f BY <1>1, <2>2, <2>3, <2>4, JoinFacts
  <2>6. IsList(l) BY <1>1, <2>2, <2>4, OnTop DEF Chained
  <2>7. l \o <<>> = l
    <3>1. PICK S : l \in Seq(S) BY <2>6 DEF IsList
    <3> QED BY <3>1, ConcatEmptySeq
  <2>8. Goto(h, l) BY <2>1, <2>2, <2>4 DEF Chained
  <2>9. Becomes(Cur(h), l) BY <2>7, <2>8, GotoIs DEF Chained
  <2> QED BY <2>5, <2>9, Zenon
<1>3. CASE \E r, g : r.at = "resume" /\ g.at = "reacquire" /\ Goto(h, <<r, g>> \o w)
  <2>1. PICK r, g : r.at = "resume" /\ g.at = "reacquire" /\ Goto(h, <<r, g>> \o w) BY <1>3
  <2>2. PICK v : v = <<r, g>> /\ IsList(v) BY Double
  <2>3. NoJob(v) BY <2>1, <2>2, BottomOne DEF JobAts
  <2>4. PICK l : l = Chained(v, w) OBVIOUS
  <2>5. l # <<>> /\ Bottom(l) = f BY <1>1, <2>2, <2>3, <2>4, JoinFacts
  <2>6. \E S : l \in Seq(S)
    <3>1. PICK S, T : v \in Seq(S) /\ w \in Seq(T) BY <1>1, <2>2 DEF IsList
    <3>2. PICK U : U = S \cup T OBVIOUS
    <3>3. v \in Seq(U) /\ w \in Seq(U) BY <3>1, <3>2, SeqMonotonic
    <3> QED BY <2>4, <3>3, ConcatProperties DEF Chained
  <2>7. l \o <<>> = l BY <2>6, ConcatEmptySeq
  <2>8. Goto(h, l) BY <2>1, <2>2, <2>4 DEF Chained
  <2>9. Becomes(Cur(h), l) BY <2>7, <2>8, GotoIs DEF Chained
  <2> QED BY <2>5, <2>9, Zenon
<1>4. CASE Sleep(h, chan, lk, ps, <<f>>)
  <2>1. CASE hart[h].noff # 1 BY <1>4, <2>1, Zenon DEF Sleep, Panic
  <2>2. CASE hart[h].noff = 1
    <3>1. PICK r, g : r = Resume(hart[h]) /\ g = [at |-> "reacquire", lk |-> lk] OBVIOUS
    <3>2. r.at = "resume" /\ g.at = "reacquire" BY <3>1 DEF Resume
    <3>3. Goto(h, <<r, g>> \o w) BY <1>1, <1>4, <2>2, <3>1 DEF Sleep
    <3> QED BY <1>3, <3>2, <3>3, Zenon
  <2> QED BY <2>1, <2>2, Zenon
<1>5. CASE SleepInside(h, chan, <<f>>)
  <2>1. CASE hart[h].noff # 0 BY <1>5, <2>1, Zenon DEF SleepInside, Panic
  <2>2. CASE hart[h].noff = 0
    <3>1. PICK r : r = Resume(PushOff(hart[h])) OBVIOUS
    <3>2. r.at = "resume" BY <3>1 DEF Resume
    <3>3. Goto(h, <<r>> \o w) BY <1>1, <1>5, <2>2, <3>1 DEF SleepInside
    <3> QED BY <1>2, <3>2, <3>3, Zenon
  <2> QED BY <2>1, <2>2, Zenon
<1> QED BY <1>4, <1>5, Zenon

\* A frame of no job that sleeps or goes on as one.
LEMMA SleepSame ==
  ASSUME HInv, NEW h \in Harts, stack[Cur(h)] # <<>>, Head(stack[Cur(h)]).at \in CallAts \ JobAts,
         NEW f, f.at \notin JobAts, NEW chan, NEW lk, NEW ps, Sleep(h, chan, lk, ps, <<f>>)
  PROVE  JobsSame
<1>1. PICK s : s = stack[Cur(h)] /\ IsList(s) /\ s # <<>> /\ Tail(s) = <<>> /\ Head(s).at \notin JobAts
  BY CurFacts, CallTop DEF InCall
<1>2. Same(<<>>, s) BY <1>1, PopFacts
<1>3. CASE UNCHANGED stack BY <1>3, StackStays
<1>4. CASE \E t : Becomes(Cur(h), t) /\ t # <<>> /\ Bottom(t) = f
  <2>1. PICK t : Becomes(Cur(h), t) /\ t # <<>> /\ Bottom(t) = f BY <1>4
  <2>2. ~IsJob(t) /\ ~IsJob(s) BY <1>2, <2>1, BottomOne DEF IsJob, Same
  <2>3. Same(t, s) BY <2>2 DEF Same
  <2> QED BY <1>1, <2>1, <2>3, CurFacts, BecomesSame
<1> QED BY <1>1, <1>3, <1>4, SleepJob, Zenon

LEMMA OnTopAny ==
  ASSUME NEW fs, IsList(fs), NEW s, IsList(s)
  PROVE  \A a : (<<a>> \o fs) \o s = <<a>> \o (fs \o s)
<1>1. IsList(fs) /\ IsList(s) OBVIOUS
<1>2. \A a : (<<a>> \o fs) \o s = <<a>> \o (fs \o s) BY <1>1, OnTopMore
<1> QED BY <1>2

LEMMA TrapSame ==
  ASSUME HInv, NEW h \in Harts, NEW fs, IsList(fs), NoJob(fs), NEW lk, Trap(h, lk, fs)
  PROVE  JobsSame
<1>1. PICK s : s = stack[Cur(h)] /\ IsList(s) BY CurFacts
<1>2. PICK gs : gs = <<[at |-> "spin", lk |-> lk]>> \o fs OBVIOUS
<1>3. IsList(gs) /\ NoJob(gs) BY <1>2, SpinJob
<1>4. Cur(h) \in Procs \cup Harts /\ DOMAIN stack = Procs \cup Harts BY CurFacts, Zenon DEF HInv, HType
<1>5. gs \o s = <<[at |-> "spin", lk |-> lk]>> \o (fs \o s)
  <2>1. PICK f : f = [at |-> "spin", lk |-> lk] OBVIOUS
  <2>2. (<<f>> \o fs) \o s = <<f>> \o (fs \o s) BY <1>1, OnTopAny
  <2> QED BY <1>2, <2>1, <2>2
<1>6. Becomes(Cur(h), Chained(fs, s)) \/ Becomes(Cur(h), Chained(gs, s))
  <2>1. CASE lock[lk] = None
    <3>1. stack' = [stack EXCEPT ![Cur(h)] = fs \o @] BY <2>1, Zenon DEF Trap
    <3> QED BY <1>1, <1>4, <3>1 DEF Becomes, Chained, HInv, HType
  <2>2. CASE lock[lk] # None
    <3>1. stack' = [stack EXCEPT ![Cur(h)] = <<[at |-> "spin", lk |-> lk]>> \o fs \o @]
      BY <2>2, Zenon DEF Trap
    <3>2. stack' = [stack EXCEPT ![Cur(h)] = (<<[at |-> "spin", lk |-> lk]>> \o fs) \o s]
      BY <1>1, <3>1
    <3>3. stack' = [stack EXCEPT ![Cur(h)] = Chained(gs, s)] BY <1>2, <3>2 DEF Chained
    <3> QED BY <1>4, <3>3 DEF Becomes, HInv, HType
  <2> QED BY <2>1, <2>2
<1>7. Same(Chained(fs, s), s) /\ Same(Chained(gs, s), s) BY <1>1, <1>3, JoinFacts
<1> QED BY <1>1, <1>4, <1>6, <1>7, BecomesSame

LEMMA HartStepSame ==
  ASSUME HInv, NEW h \in Harts, HartStep(h)
  PROVE  JobsSame
<1>0. IsList(<<>>) /\ NoJob(<<>>) BY Empty, BottomOne
<1>1. CASE Spin(h) \/ TrapDone(h)
  <2>1. stack[Cur(h)] # <<>> /\ Head(stack[Cur(h)]).at \in {"spin", "trapret"} /\ Goto(h, <<>>)
    BY <1>1, Zenon DEF Spin, TrapDone, At, Runs
  <2> QED BY <1>0, <2>1, GotoSame DEF JobAts
<1>2. CASE Reacquire(h)
  <2>1. PICK lk : stack[Cur(h)] # <<>> /\ Head(stack[Cur(h)]).at = "reacquire" /\ Acquire(h, lk, <<>>)
    BY <1>2, Zenon DEF Reacquire, At, Runs
  <2> QED BY <1>0, <2>1, AcquireSame DEF JobAts
<1>3. CASE LoopTop(h) BY <1>3, StackStays, Zenon DEF LoopTop
<1>4. CASE Tick(h)
  <2>1. PICK f : f = Plain("clockintr") OBVIOUS
  <2>2. f.at = "clockintr" BY <2>1 DEF Plain
  <2>3. IsList(<<f>>) /\ NoJob(<<f>>) /\ Trap(h, "ticks", <<f>>)
    BY <1>4, <2>1, <2>2, Single, BottomOne DEF Tick, JobAts
  <2> QED BY <2>3, TrapSame
<1>5. CASE Preempt(h)
  <2>1. PICK r, g : r = [at |-> "resume", intena |-> FALSE] /\ g = Plain("trapret") OBVIOUS
  <2>2. r.at = "resume" /\ g.at = "trapret" BY <2>1 DEF Plain
  <2>3. IsList(<<r, g>>) /\ NoJob(<<r, g>>) BY <2>2, Double, BottomOne DEF JobAts
  <2>4. hart[h].proc # None /\ Cur(h) = hart[h].proc BY <1>5, CurFacts, Zenon DEF Preempt
  <2>5. PICK s : s = stack[Cur(h)] /\ IsList(s) BY CurFacts
  <2>6. Becomes(Cur(h), Chained(<<r, g>>, s))
    BY <1>5, <2>1, <2>4, <2>5, CurFacts, Zenon DEF Preempt, Becomes, Chained, HInv, HType
  <2> QED BY <2>3, <2>5, <2>6, JoinFacts, BecomesSame, CurFacts
<1>6. CASE ClockIntr(h)
  <2>1. stack[Cur(h)] # <<>> /\ Head(stack[Cur(h)]).at = "clockintr"
    BY <1>6, Zenon DEF ClockIntr, At, Runs
  <2>2. PICK r, g : r = [at |-> "resume", intena |-> FALSE] /\ g = Plain("trapret") OBVIOUS
  <2>3. r.at = "resume" /\ g.at = "trapret" BY <2>2 DEF Plain
  <2>4. IsList(<<r, g>>) /\ NoJob(<<r, g>>) BY <2>3, Double, BottomOne DEF JobAts
  <2>5. Goto(h, <<>>) \/ Goto(h, <<r, g>>) BY <1>6, <2>2 DEF ClockIntr, TrapReturn
  <2> QED BY <1>0, <2>1, <2>4, <2>5, GotoSame DEF JobAts
<1>7. CASE SysSleep(h)
  <2>1. stack[Cur(h)] # <<>> /\ Head(stack[Cur(h)]).at = "sleep" BY <1>7, Zenon DEF SysSleep, At, Runs
  <2>2. CallFrame(Head(stack[Cur(h)]), "ticks") BY <2>1, CallTop DEF CallAts, InCall, CallFrame
  <2>3. PICK f : /\ f = [Frame(h) EXCEPT !.since = IF @ = None THEN ticks.now ELSE @]
                 /\ \/ Sleep(h, <<"ticks">>, "ticks", proc, <<f>>)
                    \/ Release(h, "ticks", <<>>)
    BY <1>7 DEF SysSleep
  <2>4. f.at = "sleep" BY <2>1, <2>2, <2>3 DEF CallFrame, Frame
  <2>5. CASE Sleep(h, <<"ticks">>, "ticks", proc, <<f>>)
    BY <2>1, <2>4, <2>5, SleepSame DEF CallAts, JobAts
  <2>6. CASE Release(h, "ticks", <<>>) BY <1>0, <2>1, <2>6, GotoSame DEF Release, JobAts
  <2> QED BY <2>3, <2>5, <2>6
<1>8. ASSUME NEW p \in Procs, Pick(h, p) PROVE JobsSame
  <2>1. Parked(p, stack[p]) /\ IsList(stack[p]) BY <1>8, Zenon DEF Pick, HInv, RunOK, HType
  <2>2. Same(Tail(stack[p]), stack[p]) BY <2>1, PopFacts DEF Parked, JobAts
  <2>3. Becomes(p, Tail(stack[p])) BY <1>8, Zenon DEF Pick, Becomes, HInv, HType
  <2> QED BY <2>2, <2>3, BecomesSame
<1> QED BY <1>1, <1>2, <1>3, <1>4, <1>5, <1>6, <1>7, <1>8 DEF HartStep

LEMMA HandlerJob ==
  ASSUME NEW fs, NEW lk, Handler(fs, lk)
  PROVE  IsList(fs) /\ NoJob(fs)
<1>1. ASSUME NEW f, HandlerFrame(f, lk) PROVE IsList(<<f>>) /\ NoJob(<<f>>)
  BY <1>1, Single, BottomOne DEF HandlerFrame, JobAts
<1>2. ASSUME NEW f, NEW g, f.at = "consoleintr", g.at = "uartintr" PROVE IsList(<<f, g>>) /\ NoJob(<<f, g>>)
  BY <1>2, Double, BottomOne DEF JobAts
<1> QED BY <1>1, <1>2 DEF Handler

LEMMA ConsoleSame ==
  ASSUME HInv, NEW h \in Harts, ConsoleStep(h) \/ UartDone(h)
  PROVE  JobsSame
<1>0. IsList(<<>>) /\ NoJob(<<>>) BY Empty, BottomOne
<1>1. CASE ConsoleRead(h)
  <2>1. stack[Cur(h)] # <<>> /\ Head(stack[Cur(h)]).at = "consoleread"
    BY <1>1, Zenon DEF ConsoleRead, At, Runs
  <2>2. CallFrame(Head(stack[Cur(h)]), "cons") BY <2>1, CallTop DEF CallAts, InCall, CallFrame
  <2>3. PICK f : f = Frame(h) /\ f.at = "consoleread" BY <2>1 DEF Frame
  <2>4. PICK g : g = [f EXCEPT !.n = @ - 1] OBVIOUS
  <2>5. g.at = "consoleread" BY <2>2, <2>3, <2>4 DEF CallFrame, Frame
  <2>6. Release(h, "cons", <<>>) \/ Sleep(h, <<"line">>, "cons", proc, <<f>>) \/ Goto(h, <<g>>)
    BY <1>1, <2>3, <2>4 DEF ConsoleRead
  <2>7. CASE Release(h, "cons", <<>>) BY <1>0, <2>1, <2>7, GotoSame DEF Release, JobAts
  <2>8. CASE Sleep(h, <<"line">>, "cons", proc, <<f>>)
    BY <2>1, <2>3, <2>8, SleepSame DEF CallAts, JobAts
  <2>9. CASE Goto(h, <<g>>)
    <3>1. IsList(<<g>>) /\ NoJob(<<g>>) BY <2>5, Single, BottomOne DEF JobAts
    <3> QED BY <2>1, <2>9, <3>1, GotoSame DEF JobAts
  <2> QED BY <2>6, <2>7, <2>8, <2>9
<1>2. CASE UartPutc(h)
  <2>1. stack[Cur(h)] # <<>> /\ Head(stack[Cur(h)]).at = "putc" BY <1>2, Zenon DEF UartPutc, At, Runs
  <2>2. PICK f : f = Frame(h) /\ f.at = "putc" BY <2>1 DEF Frame
  <2>3. Release(h, "uart", <<>>) \/ Sleep(h, <<"tx">>, "uart", proc, <<f>>)
    BY <1>2, <2>2 DEF UartPutc
  <2>4. CASE Release(h, "uart", <<>>) BY <1>0, <2>1, <2>4, GotoSame DEF Release, JobAts
  <2>5. CASE Sleep(h, <<"tx">>, "uart", proc, <<f>>)
    BY <2>1, <2>2, <2>5, SleepSame DEF CallAts, JobAts
  <2> QED BY <2>3, <2>4, <2>5
<1>3. CASE UartIntr(h)
  <2>1. stack[Cur(h)] # <<>> /\ Head(stack[Cur(h)]).at = "uartintr" /\ Acquire(h, UartNext[1], UartNext[2])
    BY <1>3, Zenon DEF UartIntr, At, Runs
  <2>2. PICK fs, lk : fs = UartNext[2] /\ lk = UartNext[1] OBVIOUS
  <2>3. IsList(fs) /\ NoJob(fs) /\ Acquire(h, lk, fs) BY <2>1, <2>2, UartNextFacts, HandlerJob
  <2> QED BY <2>1, <2>3, AcquireSame DEF JobAts
<1>4. CASE KillLine(h) \/ Backspace(h) \/ Character(h) \/ UartDone(h)
  <2>1. stack[Cur(h)] # <<>> /\ Head(stack[Cur(h)]).at \in {"consoleintr", "start"}
    BY <1>4, Zenon DEF KillLine, Backspace, Character, UartDone, UartIntrStart, At, Runs
  <2>2. Goto(h, <<>>) \/ UNCHANGED stack
    BY <1>4 DEF KillLine, Backspace, Character, UartDone, UartIntrStart, Release, TrapReturn
  <2> QED BY <1>0, <2>1, <2>2, GotoSame, StackStays DEF JobAts
<1> QED BY <1>1, <1>2, <1>3, <1>4 DEF ConsoleStep

LEMMA ExternalSame ==
  ASSUME HInv, NEW h \in Harts, External(h)
  PROVE  JobsSame
<1>1. HandlerFrame(Plain("ack"), "vdisk") BY DEF HandlerFrame, Plain
<1>2. Handler(<<Plain("ack")>>, "vdisk") BY <1>1 DEF Handler
<1>3. \E fs, lk : Handler(fs, lk) /\ Trap(h, lk, fs) BY <1>2, UartNextFacts DEF External
<1> QED BY <1>3, HandlerJob, TrapSame

\* A call that begins a function which takes a spinlock.
LEMMA BeginJob ==
  ASSUME HInv, NEW h \in Harts, hart[h].proc # None, stack[hart[h].proc] = <<>>,
         NEW lk, NEW f, Begin(h, lk, f)
  PROVE  /\ f.at \notin JobAts => JobsSame
         /\ f.at \in JobAts => \A p \in {hart[h].proc} : JobSet(p, f)
<1>1. PICK p \in Procs : p = hart[h].proc /\ stack[p] = <<>> BY ReadyFacts
<1>2. PICK g : g = [at |-> "spin", lk |-> lk] OBVIOUS
<1>3. g.at = "spin" BY <1>2
<1>4. Becomes(p, <<f>>) \/ Becomes(p, <<g, f>>) BY <1>1, <1>2 DEF Begin, Push, Becomes, HInv, HType
<1>5. PICK w : w = <<f>> /\ IsList(w) /\ w # <<>> /\ Bottom(w) = f /\ (IsJob(w) <=> f.at \in JobAts)
  BY Single, BottomOne
<1>6. PICK v : v = <<g>> /\ IsList(v) /\ NoJob(v) BY <1>3, Single, BottomOne DEF JobAts
<1>7. PICK u : u = Chained(v, w) OBVIOUS
<1>8. u = <<g, f>> BY <1>5, <1>6, <1>7, Joined DEF Chained
<1>9. Same(u, w) /\ u # <<>> /\ Bottom(u) = f BY <1>5, <1>6, <1>7, JoinFacts
<1>10. Becomes(p, w) \/ Becomes(p, u) BY <1>4, <1>5, <1>8
<1>11. \A q \in Procs : q # p => Same(stack'[q], stack[q]) BY <1>10 DEF Becomes, Same
<1>12. (IsJob(stack'[p]) <=> f.at \in JobAts) /\ Bottom(stack'[p]) = f
  BY <1>5, <1>9, <1>10 DEF Becomes, IsJob
<1>13. ~IsJob(stack[p]) BY <1>1 DEF IsJob
<1>14. f.at \notin JobAts => JobsSame BY <1>11, <1>12, <1>13 DEF JobsSame, Same
<1>15. f.at \in JobAts => JobSet(p, f) BY <1>11, <1>12 DEF JobSet
<1> QED BY <1>1, <1>14, <1>15

LEMMA PushJob ==
  ASSUME HInv, NEW h \in Harts, NEW p \in Procs, hart[h].proc = p, NEW f, f.at \in JobAts, Push(h, <<f>>)
  PROVE  JobSet(p, f)
<1>1. stack'[p] = <<f>> /\ \A q \in Procs : q # p => stack'[q] = stack[q] BY DEF Push, HInv, HType
<1> QED BY <1>1, BottomOne DEF JobSet, Same

-----------------------------------------------------------------------------
LEMMA PopCall ==
  ASSUME NEW s, IsList(s), s # <<>>, NEW c, NEW t, c = Head(s), t = Tail(s)
  PROVE  /\ IsList(t) /\ Len(s) = Len(t) + 1 /\ Len(t) \in Nat /\ s[1] = c /\ \A k \in 1..Len(t) : s[k + 1] = t[k]
         /\ SubSeq(s, 2, Len(s)) = t
         /\ \A k \in 1..Len(t) : SubSeq(s, k + 2, Len(s)) = SubSeq(t, k + 1, Len(t))
<1>1. PICK S : s \in Seq(S) BY DEF IsList
<1>2. t \in Seq(S) /\ Len(s) = Len(t) + 1 /\ s[1] = c /\ \A k \in 1..Len(t) : s[k + 1] = t[k]
  BY <1>1, Lengths
<1>3. Len(t) \in Nat BY <1>2
<1>4. IsList(t) BY <1>2 DEF IsList
<1>5. SubSeq(s, 2, Len(s)) = t BY <1>1, TailIsSubSeq
<1>6. ASSUME NEW k \in 1..Len(t) PROVE SubSeq(s, k + 2, Len(s)) = SubSeq(t, k + 1, Len(t))
  <2>1. SubSeq(s, k + 2, Len(s)) = [j \in 1..(Len(t) - k) |-> s[j + k + 1]] BY <1>1, <1>2, <1>3
  <2>2. SubSeq(t, k + 1, Len(t)) = [j \in 1..(Len(t) - k) |-> t[j + k]] BY <1>2, <1>3
  <2>3. \A j \in 1..(Len(t) - k) : j + k \in 1..Len(t) /\ s[j + k + 1] = t[j + k] BY <1>2, <1>3
  <2> QED BY <2>1, <2>2, <2>3
<1> QED BY <1>2, <1>3, <1>4, <1>5, <1>6

LEMMA PopOrderly ==
  ASSUME NEW s, IsList(s), s # <<>>, Orderly(s)
  PROVE  Orderly(Tail(s)) /\ Proper(Head(s), Tail(s)) /\ IsList(Tail(s))
<1>1. PICK c, t : c = Head(s) /\ t = Tail(s) OBVIOUS
<1>2. /\ IsList(t) /\ Len(s) = Len(t) + 1 /\ Len(t) \in Nat /\ s[1] = c /\ \A k \in 1..Len(t) : s[k + 1] = t[k]
      /\ SubSeq(s, 2, Len(s)) = t
      /\ \A k \in 1..Len(t) : SubSeq(s, k + 2, Len(s)) = SubSeq(t, k + 1, Len(t))
  BY <1>1, PopCall, ZenonT(60)
<1>3. Proper(s[1], SubSeq(s, 2, Len(s)))
  <2>1. 1 \in 1..Len(s) /\ 1 + 1 = 2 BY <1>2
  <2> QED BY <2>1 DEF Orderly
<1>4. ASSUME NEW k \in 1..Len(t) PROVE Proper(t[k], SubSeq(t, k + 1, Len(t)))
  <2>1. k + 1 \in 1..Len(s) /\ (k + 1) + 1 = k + 2 BY <1>2
  <2>2. Proper(s[k + 1], SubSeq(s, (k + 1) + 1, Len(s))) BY <2>1 DEF Orderly
  <2> QED BY <1>2, <2>1, <2>2
<1> QED BY <1>1, <1>2, <1>3, <1>4 DEF Orderly

LEMMA PopHolds ==
  ASSUME NEW s, IsList(s), s # <<>>, NEW c, NEW t, c = Head(s), t = Tail(s), NEW b
  PROVE  Holds(s, b) <=> \/ c.f = "brelse" /\ c.b = b
                         \/ ~(c.f = "bread" /\ c.b = b) /\ Holds(t, b)
<1>1. Len(s) = Len(t) + 1 /\ Len(t) \in Nat /\ s[1] = c /\ \A k \in 1..Len(t) : s[k + 1] = t[k]
  BY PopCall
<1>2. ASSUME Holds(s, b)
      PROVE  (c.f = "brelse" /\ c.b = b) \/ (~(c.f = "bread" /\ c.b = b) /\ Holds(t, b))
  <2>1. PICK k \in 1..Len(s) : /\ s[k].f = "brelse" /\ s[k].b = b
                               /\ \A j \in 1..(k - 1) : ~(s[j].f = "bread" /\ s[j].b = b)
    BY <1>2 DEF Holds
  <2>2. CASE k = 1 BY <1>1, <2>1, <2>2
  <2>3. CASE k # 1
    <3>1. PICK l \in 1..Len(t) : k = l + 1 BY <1>1, <2>3
    <3>2. t[l].f = "brelse" /\ t[l].b = b BY <1>1, <2>1, <3>1
    <3>3. \A j \in 1..(l - 1) : j + 1 \in 1..(k - 1) /\ s[j + 1] = t[j] BY <1>1, <3>1
    <3>4. \A j \in 1..(l - 1) : ~(t[j].f = "bread" /\ t[j].b = b) BY <2>1, <3>3
    <3>5. ~(c.f = "bread" /\ c.b = b) BY <1>1, <2>1, <3>1
    <3> QED BY <3>2, <3>4, <3>5 DEF Holds
  <2> QED BY <2>2, <2>3
<1>3. ASSUME c.f = "brelse" /\ c.b = b PROVE Holds(s, b)
  <2>1. 1 \in 1..Len(s) /\ \A j \in 1..(1 - 1) : FALSE BY <1>1
  <2> QED BY <1>1, <1>3, <2>1 DEF Holds
<1>4. ASSUME ~(c.f = "bread" /\ c.b = b), Holds(t, b) PROVE Holds(s, b)
  <2>1. PICK k \in 1..Len(t) : /\ t[k].f = "brelse" /\ t[k].b = b
                               /\ \A j \in 1..(k - 1) : ~(t[j].f = "bread" /\ t[j].b = b)
    BY <1>4 DEF Holds
  <2>2. k + 1 \in 1..Len(s) /\ s[k + 1] = t[k] BY <1>1
  <2>3. ASSUME NEW j \in 1..((k + 1) - 1) PROVE ~(s[j].f = "bread" /\ s[j].b = b)
    <3>1. CASE j = 1 BY <1>1, <1>4, <3>1
    <3>2. CASE j # 1
      <4>1. PICK l \in 1..(k - 1) : j = l + 1 BY <3>2
      <4>2. s[j] = t[l] BY <1>1, <4>1
      <4> QED BY <2>1, <4>1, <4>2
    <3> QED BY <3>1, <3>2
  <2> QED BY <2>1, <2>2, <2>3 DEF Holds
<1> QED BY <1>2, <1>3, <1>4

LEMMA PopPins ==
  ASSUME NEW s, IsList(s), s # <<>>, NEW c, NEW t, c = Head(s), t = Tail(s), NEW b
  PROVE  Pins(s, b) <=> \/ c.f = "pin" /\ c.b = b /\ ~c.up
                        \/ ~(c.f = "pin" /\ c.b = b /\ c.up) /\ Pins(t, b)
<1>1. Len(s) = Len(t) + 1 /\ Len(t) \in Nat /\ s[1] = c /\ \A k \in 1..Len(t) : s[k + 1] = t[k]
  BY PopCall
<1>2. ASSUME Pins(s, b)
      PROVE  (c.f = "pin" /\ c.b = b /\ ~c.up) \/ (~(c.f = "pin" /\ c.b = b /\ c.up) /\ Pins(t, b))
  <2>1. PICK k \in 1..Len(s) : /\ s[k].f = "pin" /\ s[k].b = b /\ ~s[k].up
                               /\ \A j \in 1..(k - 1) : ~(s[j].f = "pin" /\ s[j].b = b /\ s[j].up)
    BY <1>2 DEF Pins
  <2>2. CASE k = 1 BY <1>1, <2>1, <2>2
  <2>3. CASE k # 1
    <3>1. PICK l \in 1..Len(t) : k = l + 1 BY <1>1, <2>3
    <3>2. t[l].f = "pin" /\ t[l].b = b /\ ~t[l].up BY <1>1, <2>1, <3>1
    <3>3. \A j \in 1..(l - 1) : j + 1 \in 1..(k - 1) /\ s[j + 1] = t[j] BY <1>1, <3>1
    <3>4. \A j \in 1..(l - 1) : ~(t[j].f = "pin" /\ t[j].b = b /\ t[j].up) BY <2>1, <3>3
    <3>5. ~(c.f = "pin" /\ c.b = b /\ c.up) BY <1>1, <2>1, <3>1
    <3> QED BY <3>2, <3>4, <3>5 DEF Pins
  <2> QED BY <2>2, <2>3
<1>3. ASSUME c.f = "pin" /\ c.b = b /\ ~c.up PROVE Pins(s, b)
  <2>1. 1 \in 1..Len(s) /\ \A j \in 1..(1 - 1) : FALSE BY <1>1
  <2> QED BY <1>1, <1>3, <2>1 DEF Pins
<1>4. ASSUME ~(c.f = "pin" /\ c.b = b /\ c.up), Pins(t, b) PROVE Pins(s, b)
  <2>1. PICK k \in 1..Len(t) : /\ t[k].f = "pin" /\ t[k].b = b /\ ~t[k].up
                               /\ \A j \in 1..(k - 1) : ~(t[j].f = "pin" /\ t[j].b = b /\ t[j].up)
    BY <1>4 DEF Pins
  <2>2. k + 1 \in 1..Len(s) /\ s[k + 1] = t[k] BY <1>1
  <2>3. ASSUME NEW j \in 1..((k + 1) - 1) PROVE ~(s[j].f = "pin" /\ s[j].b = b /\ s[j].up)
    <3>1. CASE j = 1 BY <1>1, <1>4, <3>1
    <3>2. CASE j # 1
      <4>1. PICK l \in 1..(k - 1) : j = l + 1 BY <3>2
      <4>2. s[j] = t[l] BY <1>1, <4>1
      <4> QED BY <2>1, <4>1, <4>2
    <3> QED BY <3>1, <3>2
  <2> QED BY <2>1, <2>2, <2>3 DEF Pins
<1> QED BY <1>2, <1>3, <1>4

(* Only blocks are held and pinned, and nothing when nothing is to be called. *)
LEMMA HeldBlocks ==
  ASSUME NEW s, IsList(s), Orderly(s), NEW b, Holds(s, b) \/ Pins(s, b)
  PROVE  b \in Blocks /\ s # <<>>
<1>1. PICK S : s \in Seq(S) BY DEF IsList
<1>2. PICK k \in 1..Len(s) : s[k].f \in {"brelse", "pin"} /\ s[k].b = b BY DEF Holds, Pins
<1>3. Proper(s[k], SubSeq(s, k + 1, Len(s))) BY <1>2 DEF Orderly
<1>4. b \in Blocks BY <1>2, <1>3 DEF Proper
<1>5. s # <<>> BY <1>1, <1>2
<1> QED BY <1>4, <1>5

LEMMA CallEffect ==
  ASSUME NEW s, IsList(s), s # <<>>, Orderly(s), NEW c, NEW t, c = Head(s), t = Tail(s)
  PROVE  /\ c.f \in {"bread", "modify", "bwrite", "pin", "brelse"} => c.b \in Blocks /\ SameBut(s, t, c.b)
         /\ c.f = "bread" => ~Holds(s, c.b) /\ Holds(t, c.b) /\ (Pins(t, c.b) <=> Pins(s, c.b))
         /\ c.f = "brelse" => Holds(s, c.b) /\ ~Holds(t, c.b) /\ (Pins(t, c.b) <=> Pins(s, c.b))
         /\ c.f \in {"modify", "bwrite"} => Holds(s, c.b) /\ SameHolds(s, t)
         /\ c.f = "pin" => /\ Holds(s, c.b) /\ Holds(t, c.b)
                           /\ \/ c.up /\ ~Pins(s, c.b) /\ Pins(t, c.b)
                              \/ ~c.up /\ Pins(s, c.b) /\ ~Pins(t, c.b)
         /\ c.f \notin {"bread", "pin", "brelse"} => SameHolds(s, t)
         /\ c.f = "ret" => SameHolds(s, <<>>)
<1>1. Proper(c, t) /\ IsList(t) /\ Orderly(t) BY PopOrderly
<1>2. \A b : Holds(s, b) <=> \/ c.f = "brelse" /\ c.b = b
                             \/ ~(c.f = "bread" /\ c.b = b) /\ Holds(t, b)
  BY PopHolds
<1>3. \A b : Pins(s, b) <=> \/ c.f = "pin" /\ c.b = b /\ ~c.up
                            \/ ~(c.f = "pin" /\ c.b = b /\ c.up) /\ Pins(t, b)
  BY PopPins
<1>4. ASSUME c.f = "ret" PROVE SameHolds(s, <<>>)
  <2>1. \A b : ~Holds(t, b) /\ ~Pins(t, b) BY <1>1, <1>4, HeldBlocks DEF Proper
  <2>2. \A b : ~Holds(<<>>, b) /\ ~Pins(<<>>, b) BY DEF Holds, Pins
  <2> QED BY <1>2, <1>3, <1>4, <2>1, <2>2 DEF SameHolds
<1>5. SameBut(s, t, c.b) BY <1>2, <1>3 DEF SameBut
<1>6. c.f \notin {"bread", "pin", "brelse"} => SameHolds(s, t) BY <1>2, <1>3 DEF SameHolds
<1> QED BY <1>1, <1>2, <1>3, <1>4, <1>5, <1>6 DEF Proper

-----------------------------------------------------------------------------
LEMMA JobKeptIs ==
  ASSUME NEW p, JobKept(p)
  PROVE  /\ \A i : (Takes(p, i)' <=> Takes(p, i)) /\ (Drops(p, i)' <=> Drops(p, i)) /\ (Starts(p, i)' <=> Starts(p, i))
         /\ \A i, d : Waits(p, i, d)' <=> Waits(p, i, d)
         /\ \A at : Has(p, at)' <=> Has(p, at)
BY DEF JobKept, Takes, Drops, Starts, Waits, Has, JobOf

LEMMA JobsKept ==
  ASSUME NEW p \in Procs, JobsSame \/ JobGone(p) \/ \E f : JobSet(p, f)
  PROVE  /\ \A q \in Procs : q # p => JobKept(q)
         /\ JobsSame => \A q \in Procs : JobKept(q)
BY DEF JobsSame, JobGone, JobSet, Same, JobKept

(* A process is at the bottom of its stack when the running frame is a job. *)
LEMMA TopJob ==
  ASSUME HInv, NEW h \in Harts, stack[Cur(h)] # <<>>, Head(stack[Cur(h)]).at \in JobAts
  PROVE  /\ hart[h].proc \in Procs /\ Cur(h) = hart[h].proc /\ Tail(stack[Cur(h)]) = <<>>
         /\ IsJob(stack[Cur(h)]) /\ JobOf(Cur(h)) = Head(stack[Cur(h)])
<1>1. PICK s : s = stack[Cur(h)] /\ IsList(s) /\ s # <<>> BY CurFacts
<1>2. hart[h].proc \in Procs /\ Cur(h) = hart[h].proc /\ Tail(s) = <<>>
  <2>1. CASE Head(s).at \in {"rw", "wait"} BY <1>1, <2>1, CallTop DEF CallAts, InCall
  <2>2. CASE Head(s).at \in {"acquiresleep", "deref"} BY <1>1, <2>2, QuietTop DEF Base
  <2> QED BY <1>1, <2>1, <2>2 DEF JobAts
<1>3. Len(s) = 1 /\ s[1] = Head(s)
  <2>1. PICK S : s \in Seq(S) BY <1>1 DEF IsList
  <2> QED BY <1>1, <1>2, <2>1, Lengths
<1> QED BY <1>1, <1>2, <1>3 DEF IsJob, Bottom, JobOf

-----------------------------------------------------------------------------
LEMMA BufAfter ==
  ASSUME BufType, NEW i \in Bufs, NEW r, BufIs(i, r), BufRec(r)
  PROVE  BufType' /\ buf'[i] = r /\ \A j \in Bufs : j # i => buf'[j] = buf[j]
<1>1. buf'[i] = r /\ (\A j \in Bufs : j # i => buf'[j] = buf[j]) /\ buf' = [j \in Bufs |-> buf'[j]]
  BY DEF BufType, BufIs
<1>2. \A j \in Bufs : BufRec(buf'[j]) BY <1>1 DEF BufType
<1> QED BY <1>1, <1>2 DEF BufType

LEMMA SetFields ==
  ASSUME NEW r, BufRec(r), NEW v
  PROVE  /\ v \in Int => \A s : s = [r EXCEPT !.refcnt = v] =>
              BufRec(s) /\ Rec(s, r.blk, r.valid, r.disk, v, r.owner) /\ s.data = r.data
         /\ v \in Procs \cup {None} => \A s : s = [r EXCEPT !.owner = v] =>
              BufRec(s) /\ Rec(s, r.blk, r.valid, r.disk, r.refcnt, v) /\ s.data = r.data
         /\ v \in BOOLEAN => \A s : s = [r EXCEPT !.disk = v] =>
              BufRec(s) /\ Rec(s, r.blk, r.valid, v, r.refcnt, r.owner) /\ s.data = r.data
         /\ v \in BOOLEAN => \A s : s = [r EXCEPT !.valid = v] =>
              BufRec(s) /\ Rec(s, r.blk, v, r.disk, r.refcnt, r.owner) /\ s.data = r.data
         /\ \A s : s = [r EXCEPT !.data = v] =>
              BufRec(s) /\ Rec(s, r.blk, r.valid, r.disk, r.refcnt, r.owner) /\ s.data = v
<1>1. PICK b, va, d, n, x, o : /\ r = [blk |-> b, valid |-> va, disk |-> d, refcnt |-> n, data |-> x, owner |-> o]
                               /\ b \in Blocks \cup {None} /\ va \in BOOLEAN /\ d \in BOOLEAN /\ n \in Int /\ o \in Procs \cup {None}
  BY DEF BufRec, Rec
<1>2. v \in Int => \A s : s = [r EXCEPT !.refcnt = v] =>
              BufRec(s) /\ Rec(s, r.blk, r.valid, r.disk, v, r.owner) /\ s.data = r.data
  BY <1>1 DEF BufRec, Rec
<1>3. v \in Procs \cup {None} => \A s : s = [r EXCEPT !.owner = v] =>
              BufRec(s) /\ Rec(s, r.blk, r.valid, r.disk, r.refcnt, v) /\ s.data = r.data
  BY <1>1 DEF BufRec, Rec
<1>4. v \in BOOLEAN => \A s : s = [r EXCEPT !.disk = v] =>
              BufRec(s) /\ Rec(s, r.blk, r.valid, v, r.refcnt, r.owner) /\ s.data = r.data
  BY <1>1 DEF BufRec, Rec
<1>5. v \in BOOLEAN => \A s : s = [r EXCEPT !.valid = v] =>
              BufRec(s) /\ Rec(s, r.blk, v, r.disk, r.refcnt, r.owner) /\ s.data = r.data
  BY <1>1 DEF BufRec, Rec
<1>6. \A s : s = [r EXCEPT !.data = v] =>
              BufRec(s) /\ Rec(s, r.blk, r.valid, r.disk, r.refcnt, r.owner) /\ s.data = v
  BY <1>1 DEF BufRec, Rec
<1> QED BY <1>2, <1>3, <1>4, <1>5, <1>6

LEMMA RecIs ==
  ASSUME NEW r, NEW b, NEW va, NEW d, NEW n, NEW o, Rec(r, b, va, d, n, o)
  PROVE  r.blk = b /\ r.valid = va /\ r.disk = d /\ r.refcnt = n /\ r.owner = o
BY DEF Rec

-----------------------------------------------------------------------------
LEMMA OneMoreOrLess ==
  ASSUME NEW A, NEW B, A \subseteq Procs, B \subseteq Procs, NEW p, \A q \in Procs : q # p => (q \in A <=> q \in B)
  PROVE  /\ Cardinality(A) \in Nat /\ Cardinality(B) \in Nat
         /\ Cardinality(B) = Cardinality(A) + Bit(p \in B) - Bit(p \in A)
<1>1. IsFiniteSet(A) /\ IsFiniteSet(B) BY DiskCacheAssumption, FS_Subset
<1>2. Cardinality(A) \in Nat /\ Cardinality(B) \in Nat BY <1>1, FS_CardinalityType
<1>3. CASE p \in A /\ p \notin B
  <2>1. B = A \ {p} BY <1>3
  <2>2. Cardinality(B) = Cardinality(A) - 1 BY <1>1, <1>3, <2>1, FS_RemoveElement
  <2> QED BY <1>2, <1>3, <2>2 DEF Bit
<1>4. CASE p \in B /\ p \notin A
  <2>1. B = A \cup {p} BY <1>4
  <2>2. Cardinality(B) = Cardinality(A) + 1 BY <1>1, <1>4, <2>1, FS_AddElement
  <2> QED BY <1>2, <1>4, <2>2 DEF Bit
<1>5. CASE p \in A <=> p \in B
  <2>1. A = B BY <1>5
  <2> QED BY <1>2, <2>1 DEF Bit
<1> QED BY <1>3, <1>4, <1>5

-----------------------------------------------------------------------------
LEMMA PairKeeps ==
  ASSUME NEW p, NEW i, PairKept(p, i)
  PROVE  /\ Uses(p, i)' <=> Uses(p, i)
         /\ PinnedBy(p, i)' <=> PinnedBy(p, i)
         /\ PairOK(p, i) => PairOK(p, i)'
<1>1. /\ (Takes(p, i)' <=> Takes(p, i)) /\ (Drops(p, i)' <=> Drops(p, i)) /\ (Starts(p, i)' <=> Starts(p, i))
      /\ \A d : Waits(p, i, d)' <=> Waits(p, i, d)
  BY JobKeptIs DEF PairKept
<1>2. /\ buf'[i].owner = p <=> buf[i].owner = p
      /\ buf'[i].blk = buf[i].blk
      /\ \A b : (Holds(todo'[p], b) <=> Holds(todo[p], b)) /\ (Pins(todo'[p], b) <=> Pins(todo[p], b))
  BY DEF PairKept, BlkKept, SameHolds
<1>3. (Owns(p, i)' <=> Owns(p, i)) /\ (Uses(p, i)' <=> Uses(p, i)) BY <1>1, <1>2 DEF Owns, Uses
<1>4. PinnedBy(p, i)' <=> PinnedBy(p, i) BY <1>2 DEF PinnedBy
<1>5. Holds(todo[p], buf[i].blk)' <=> Holds(todo[p], buf[i].blk) BY <1>2
<1> QED BY <1>1, <1>2, <1>3, <1>4, <1>5 DEF PairOK

(* A step that neither takes nor gives any buffer.                         *)
LEMMA BStays ==
  ASSUME BInv, BufType', lru' \in [1..NBUF -> Bufs], todo' = [p \in Procs |-> todo'[p]],
         \A p \in Procs : ToDo(p)' /\ JobKept(p) /\ SameHolds(todo[p], todo'[p]),
         \A i \in Bufs : BlkKept(i) /\ buf'[i].owner = buf[i].owner /\ buf'[i].refcnt = buf[i].refcnt
  PROVE  BInv'
<1>1. \A p \in Procs, i \in Bufs : PairKept(p, i) BY DEF PairKept
<1>2. \A p \in Procs : JobIn(p)' BY DEF BInv, JobKept, JobIn, JobOf
<1>3. \A p \in Procs, i \in Bufs : PairOK(p, i)' BY <1>1, PairKeeps DEF BInv
<1>4. \A p \in Procs : \A b : Wanted(p, b)' => InCache(b)'
  <2>1. \A b : InCache(b) => InCache(b)' BY DEF InCache, BlkKept
  <2>2. \A p \in Procs : \A b : Wanted(p, b)' => Wanted(p, b) BY DEF Wanted, SameHolds
  <2> QED BY <2>1, <2>2 DEF BInv
<1>5. OneBuffer' BY DEF BInv, OneBuffer, BlkKept
<1>6. ASSUME NEW i \in Bufs PROVE Counts(i)'
  <2>1. \A p \in Procs : (Uses(p, i)' <=> Uses(p, i)) /\ (PinnedBy(p, i)' <=> PinnedBy(p, i))
    BY <1>1, PairKeeps
  <2>2. Refs(i)' = Refs(i) /\ Pinners(i)' = Pinners(i) BY <2>1 DEF Refs, Pinners
  <2> QED BY <2>2 DEF BInv, Counts
<1> QED BY <1>2, <1>3, <1>4, <1>5, <1>6 DEF BInv

LEMMA CountsMove ==
  ASSUME NEW p \in Procs, NEW i \in Bufs, Counts(i), \A q \in Procs : q # p => PairKept(q, i),
         buf[i].refcnt \in Int, buf'[i].refcnt = buf[i].refcnt + Moved(p, i)
  PROVE  Counts(i)'
<1>1. \A q \in Procs : q # p => (Uses(q, i)' <=> Uses(q, i)) /\ (PinnedBy(q, i)' <=> PinnedBy(q, i))
  BY PairKeeps
<1>2. /\ Cardinality(Refs(i)) \in Nat /\ Cardinality(Refs(i)') \in Nat
      /\ Cardinality(Refs(i)') = Cardinality(Refs(i)) + Bit(p \in Refs(i)') - Bit(p \in Refs(i))
  <2>1. PICK A, B : A = Refs(i) /\ B = Refs(i)' OBVIOUS
  <2>2. A \subseteq Procs /\ B \subseteq Procs /\ \A q \in Procs : q # p => (q \in A <=> q \in B)
    BY <1>1, <2>1 DEF Refs
  <2>3. /\ Cardinality(A) \in Nat /\ Cardinality(B) \in Nat
        /\ Cardinality(B) = Cardinality(A) + Bit(p \in B) - Bit(p \in A)
    BY <2>2, OneMoreOrLess
  <2> QED BY <2>1, <2>3
<1>3. /\ Cardinality(Pinners(i)) \in Nat /\ Cardinality(Pinners(i)') \in Nat
      /\ Cardinality(Pinners(i)') = Cardinality(Pinners(i)) + Bit(p \in Pinners(i)') - Bit(p \in Pinners(i))
  <2>1. PICK A, B : A = Pinners(i) /\ B = Pinners(i)' OBVIOUS
  <2>2. A \subseteq Procs /\ B \subseteq Procs /\ \A q \in Procs : q # p => (q \in A <=> q \in B)
    BY <1>1, <2>1 DEF Pinners
  <2>3. /\ Cardinality(A) \in Nat /\ Cardinality(B) \in Nat
        /\ Cardinality(B) = Cardinality(A) + Bit(p \in B) - Bit(p \in A)
    BY <2>2, OneMoreOrLess
  <2> QED BY <2>1, <2>3
<1>4. /\ p \in Refs(i) <=> Uses(p, i)
      /\ p \in Refs(i)' <=> Uses(p, i)'
      /\ p \in Pinners(i) <=> PinnedBy(p, i)
      /\ p \in Pinners(i)' <=> PinnedBy(p, i)'
  BY DEF Refs, Pinners
<1> QED BY <1>2, <1>3, <1>4 DEF Counts, Moved, Bit

LEMMA BMoves ==
  ASSUME BInv, NEW p \in Procs, BufType', lru' \in [1..NBUF -> Bufs], todo' = [q \in Procs |-> todo'[q]],
         \A q \in Procs : q # p => JobKept(q) /\ todo'[q] = todo[q],
         \A i \in Bufs : BlkKept(i) /\ \A q \in Procs : q # p => (buf'[i].owner = q <=> buf[i].owner = q),
         ToDo(p)', JobIn(p)',
         \A b : Wanted(p, b)' => Wanted(p, b) \/ InCache(b),
         \A i \in Bufs : PairOK(p, i)' /\ buf'[i].refcnt = buf[i].refcnt + Moved(p, i)
  PROVE  BInv'
<1>1. \A q \in Procs, i \in Bufs : q # p => PairKept(q, i) BY DEF PairKept, SameHolds
<1>2. \A q \in Procs : ToDo(q)' /\ JobIn(q)' BY DEF BInv, JobKept, JobIn, JobOf, ToDo
<1>3. \A q \in Procs, i \in Bufs : PairOK(q, i)' BY <1>1, PairKeeps DEF BInv
<1>4. \A q \in Procs : \A b : Wanted(q, b)' => InCache(b)'
  <2>1. \A b : InCache(b) => InCache(b)' BY DEF InCache, BlkKept
  <2>2. \A q \in Procs : \A b : q # p => (Wanted(q, b)' <=> Wanted(q, b)) BY DEF Wanted
  <2> QED BY <2>1, <2>2 DEF BInv
<1>5. OneBuffer' BY DEF BInv, OneBuffer, BlkKept
<1>6. ASSUME NEW i \in Bufs PROVE Counts(i)'
  <2>1. Counts(i) /\ buf[i].refcnt \in Int BY DEF BInv, BufType, BufRec
  <2>2. \A q \in Procs : q # p => PairKept(q, i) BY <1>1
  <2> QED BY <2>1, <2>2, CountsMove
<1> QED BY <1>2, <1>3, <1>4, <1>5, <1>6 DEF BInv

LEMMA LeastNat ==
  ASSUME NEW S, S \subseteq Nat, S # {}
  PROVE  \E x \in S : \A y \in S : x <= y
<1> DEFINE R == OpToRel(<, Nat)
<1>1. \A x, y \in Nat : <<y, x>> \in R <=> y < x BY DEF OpToRel
<1>2. IsWellFoundedOn(R, Nat) BY NatLessThanWellFounded, Zenon
<1> HIDE DEF R
<1>3. PICK x \in S : \A y \in S : ~(<<y, x>> \in R) BY <1>2, WFMin
<1>4. ASSUME NEW y \in S PROVE x <= y
  <2>1. x \in Nat /\ y \in Nat OBVIOUS
  <2>2. ~(y < x) BY <1>1, <1>3, <2>1
  <2> QED BY <2>1, <2>2
<1> QED BY <1>4

(* The last buffer of the list that nobody counts on.                      *)
LEMMA LastUnused ==
  ASSUME lru \in [1..NBUF -> Bufs], Unused # {}
  PROVE  lru[Max(Unused)] \in Bufs /\ buf[lru[Max(Unused)]].refcnt = 0
<1>1. NBUF \in Nat BY DiskCacheAssumption
<1>2. PICK U : U = Unused /\ U \subseteq 1..NBUF /\ U # {} /\ \A k \in U : buf[lru[k]].refcnt = 0
  BY DEF Unused
<1>3. PICK S : S = {NBUF - k : k \in U} OBVIOUS
<1>4. S \subseteq Nat /\ S # {}
  <2>1. \A k \in U : NBUF - k \in Nat BY <1>1, <1>2
  <2> QED BY <1>2, <1>3, <2>1
<1>5. PICK x \in S : \A y \in S : x <= y BY <1>4, LeastNat
<1>6. PICK m \in U : x = NBUF - m BY <1>3, <1>5
<1>7. \A k \in U : m >= k
  <2>1. \A k \in U : NBUF - m <= NBUF - k BY <1>3, <1>5, <1>6
  <2> QED BY <1>1, <1>2, <2>1
<1>8. Max(U) \in U BY <1>7 DEF Max
<1> QED BY <1>2, <1>8

LEMMA NobodyHas ==
  ASSUME BInv, NEW i \in Bufs, buf[i].refcnt = 0
  PROVE  \A p \in Procs : ~Uses(p, i) /\ ~PinnedBy(p, i) /\ ~Wanted(p, buf[i].blk)
<1>1. Refs(i) \subseteq Procs /\ Pinners(i) \subseteq Procs BY DEF Refs, Pinners
<1>2. IsFiniteSet(Refs(i)) /\ IsFiniteSet(Pinners(i)) BY <1>1, DiskCacheAssumption, FS_Subset
<1>3. Cardinality(Refs(i)) \in Nat /\ Cardinality(Pinners(i)) \in Nat BY <1>2, FS_CardinalityType
<1>4. Cardinality(Refs(i)) = 0 /\ Cardinality(Pinners(i)) = 0 BY <1>3 DEF BInv, Counts
<1>5. Refs(i) = {} /\ Pinners(i) = {} BY <1>2, <1>4, FS_EmptySet
<1>6. \A p \in Procs : ~Uses(p, i) /\ ~PinnedBy(p, i) BY <1>5 DEF Refs, Pinners
<1>7. \A p \in Procs : PairOK(p, i) BY Zenon DEF BInv
<1> QED BY <1>6, <1>7, Zenon DEF PairOK, Uses, Wanted, PinnedBy

(* What a process without a job does with the buffers.                     *)
LEMMA NoJobs ==
  ASSUME NEW p, ~IsJob(stack[p])
  PROVE  \A i : /\ ~Takes(p, i) /\ ~Drops(p, i) /\ ~Starts(p, i) /\ \A d : ~Waits(p, i, d)
                /\ (Owns(p, i) <=> buf[i].owner = p) /\ (Uses(p, i) <=> buf[i].owner = p)
BY DEF Takes, Drops, Starts, Waits, Has, Owns, Uses
LEMMA EmptyStack == ASSUME NEW p, stack[p] = <<>> PROVE ~IsJob(stack[p])
BY DEF IsJob

(* The buffer of the next call.                                            *)
LEMMA BufferOf ==
  ASSUME BInv, HInv, NEW h \in Harts, hart[h].proc # None, stack[hart[h].proc] = <<>>,
         Holds(todo[hart[h].proc], Call(h).b), Call(h).b \in Blocks
  PROVE  /\ hart[h].proc \in Procs /\ Buffer(h) \in Bufs
         /\ buf[Buffer(h)].owner = hart[h].proc /\ buf[Buffer(h)].blk = Call(h).b
         /\ \A j \in Bufs : j # Buffer(h) => buf[j].blk # Call(h).b
<1>1. PICK p \in Procs : p = hart[h].proc BY CurFacts
<1>2. Wanted(p, Call(h).b) BY <1>1 DEF Wanted
<1>3. PICK i \in Bufs : buf[i].blk = Call(h).b BY <1>2 DEF BInv, InCache
<1>4. PairOK(p, i) BY DEF BInv
<1>5. buf[i].owner = p BY <1>1, <1>3, <1>4, NoJobs, EmptyStack DEF PairOK
<1>6. Buffer(h) \in Bufs /\ buf[Buffer(h)].owner = hart[h].proc /\ buf[Buffer(h)].blk = Call(h).b
  BY <1>1, <1>3, <1>5 DEF Buffer
<1>7. Call(h).b # None BY DiskCacheAssumption
<1> QED BY <1>1, <1>6, <1>7 DEF BInv, OneBuffer

LEMMA SameKept == ASSUME JobsSame PROVE \A q \in Procs : JobKept(q)
BY DEF JobsSame, Same, JobKept

LEMMA JobIs ==
  ASSUME NEW p, IsJob(stack[p]), NEW f, JobOf(p) = f
  PROVE  \A i : /\ Takes(p, i) <=> f.at = "acquiresleep" /\ f.i = i
                /\ Drops(p, i) <=> f.at = "deref" /\ f.i = i
                /\ Starts(p, i) <=> f.at = "rw" /\ f.i = i
                /\ \A d : Waits(p, i, d) <=> f.at = "wait" /\ f.i = i /\ f.head = d
BY DEF Takes, Drops, Starts, Waits, Has

LEMMA JobSetIs ==
  ASSUME NEW p \in Procs, NEW f, JobSet(p, f)
  PROVE  /\ \A q \in Procs : q # p => JobKept(q)
         /\ IsJob(stack'[p]) /\ JobOf(p)' = f
         /\ \A i : /\ Takes(p, i)' <=> f.at = "acquiresleep" /\ f.i = i
                   /\ Drops(p, i)' <=> f.at = "deref" /\ f.i = i
                   /\ Starts(p, i)' <=> f.at = "rw" /\ f.i = i
                   /\ \A d : Waits(p, i, d)' <=> f.at = "wait" /\ f.i = i /\ f.head = d
<1>1. \A q \in Procs : q # p => JobKept(q) BY JobsKept
<1>2. IsJob(stack'[p]) /\ JobOf(p)' = f BY DEF JobSet, JobOf
<1> QED BY <1>1, <1>2 DEF Takes, Drops, Starts, Waits, Has

LEMMA JobGoneIs ==
  ASSUME NEW p \in Procs, JobGone(p)
  PROVE  /\ \A q \in Procs : q # p => JobKept(q)
         /\ ~IsJob(stack'[p])
         /\ \A i : ~Takes(p, i)' /\ ~Drops(p, i)' /\ ~Starts(p, i)' /\ \A d : ~Waits(p, i, d)'
<1>1. \A q \in Procs : q # p => JobKept(q) BY JobsKept
<1>2. ~IsJob(stack'[p]) BY DEF JobGone
<1> QED BY <1>1, <1>2 DEF Takes, Drops, Starts, Waits, Has

-----------------------------------------------------------------------------
LEMMA BufSame == ASSUME BufType, UNCHANGED buf PROVE BufType' /\ Untaken
BY DEF BufType, Untaken, BlkKept

LEMMA BufTouch ==
  ASSUME BufType, NEW i, NEW v,
         \/ buf' = [buf EXCEPT ![i].data = v]
         \/ v \in BOOLEAN /\ buf' = [buf EXCEPT ![i].disk = v]
         \/ v \in BOOLEAN /\ buf' = [buf EXCEPT ![i].valid = v]
  PROVE  BufType' /\ Untaken
<1>1. CASE i \notin Bufs
  <2>1. buf' = buf BY <1>1 DEF BufType
  <2> QED BY <2>1, BufSame
<1>2. CASE i \in Bufs
  <2>1. PICK b : b = buf[i] /\ BufRec(b) BY <1>2 DEF BufType
  <2>2. PICK r : BufIs(i, r) /\ \/ r = [b EXCEPT !.data = v]
                                \/ v \in BOOLEAN /\ r = [b EXCEPT !.disk = v]
                                \/ v \in BOOLEAN /\ r = [b EXCEPT !.valid = v]
    BY <2>1 DEF BufIs
  <2>3. BufRec(r) /\ r.blk = b.blk /\ r.owner = b.owner /\ r.refcnt = b.refcnt
    <3>1. CASE r = [b EXCEPT !.data = v] BY <2>1, <3>1, SetFields, RecIs
    <3>2. CASE v \in BOOLEAN /\ r = [b EXCEPT !.disk = v] BY <2>1, <3>2, SetFields, RecIs
    <3>3. CASE v \in BOOLEAN /\ r = [b EXCEPT !.valid = v] BY <2>1, <3>3, SetFields, RecIs
    <3> QED BY <2>2, <3>1, <3>2, <3>3
  <2>4. BufType' /\ buf'[i] = r /\ \A j \in Bufs : j # i => buf'[j] = buf[j]
    BY <1>2, <2>2, <2>3, BufAfter
  <2> QED BY <2>1, <2>3, <2>4 DEF Untaken, BlkKept
<1> QED BY <1>1, <1>2

LEMMA SameHoldsSelf == \A s : SameHolds(s, s)
BY DEF SameHolds

LEMMA BQuiet ==
  ASSUME BInv, JobsSame, UNCHANGED <<lru, todo>>, BufType', Untaken
  PROVE  BInv'
<1>1. lru' \in [1..NBUF -> Bufs] /\ todo' = [p \in Procs |-> todo'[p]] BY DEF BInv
<1>2. \A p \in Procs : ToDo(p)' /\ JobKept(p) /\ SameHolds(todo[p], todo'[p])
  BY SameKept, SameHoldsSelf DEF BInv, ToDo
<1> QED BY <1>1, <1>2, BStays DEF Untaken

LEMMA BSame ==
  ASSUME BInv, JobsSame, UNCHANGED <<buf, lru, todo>>
  PROVE  BInv'
<1>1. BufType' /\ Untaken BY BufSame DEF BInv
<1> QED BY <1>1, BQuiet

(* ... of a process that keeps its buffer.                                 *)
LEMMA BWorks ==
  ASSUME BInv, NEW p \in Procs, UNCHANGED lru, BufType', Untaken,
         todo' = [q \in Procs |-> todo'[q]], \A q \in Procs : q # p => JobKept(q) /\ todo'[q] = todo[q],
         ToDo(p)', SameHolds(todo[p], todo'[p]), JobIn(p)',
         \A i \in Bufs : (Takes(p, i)' <=> Takes(p, i)) /\ (Drops(p, i)' <=> Drops(p, i)),
         \A i \in Bufs : Starts(p, i)' \/ (\E d : Waits(p, i, d)') => buf[i].owner = p
  PROVE  BInv'
<1>1. lru' \in [1..NBUF -> Bufs] BY DEF BInv
<1>2. \A i \in Bufs : BlkKept(i) /\ \A q \in Procs : q # p => (buf'[i].owner = q <=> buf[i].owner = q)
  BY DEF Untaken
<1>3. \A b : Wanted(p, b)' => Wanted(p, b) \/ InCache(b) BY DEF Wanted, SameHolds
<1>4. ASSUME NEW i \in Bufs PROVE PairOK(p, i)' /\ buf'[i].refcnt = buf[i].refcnt + Moved(p, i)
  <2>1. PairOK(p, i) /\ buf[i].refcnt \in Int BY DEF BInv, BufType, BufRec
  <2>2. buf'[i].blk = buf[i].blk /\ buf'[i].owner = buf[i].owner /\ buf'[i].refcnt = buf[i].refcnt
    BY DEF Untaken, BlkKept
  <2>3. /\ Holds(todo[p], buf[i].blk)' <=> Holds(todo[p], buf[i].blk)
        /\ PinnedBy(p, i)' <=> PinnedBy(p, i)
    BY <2>2 DEF SameHolds, PinnedBy
  <2>4. (Owns(p, i)' <=> Owns(p, i)) /\ (Uses(p, i)' <=> Uses(p, i)) BY <2>2 DEF Owns, Uses
  <2>5. PairOK(p, i)' BY <2>1, <2>2, <2>3, <2>4 DEF PairOK
  <2>6. Moved(p, i) = 0 BY <2>3, <2>4, SMTT(30) DEF Moved, Bit
  <2> QED BY <2>1, <2>2, <2>5, <2>6
<1> QED BY <1>1, <1>2, <1>3, <1>4, BMoves

-----------------------------------------------------------------------------
LEMMA PopTodo ==
  ASSUME HInv, BInv, NEW h \in Harts, NEW f, Ready(h, f)
  PROVE  \E p \in Procs : NextCall(h, p, f)
<1>1. PICK p \in Procs : p = hart[h].proc /\ Cur(h) = p BY CurFacts, Zenon DEF Ready
<1>2. stack[p] = <<>> /\ todo[p] # <<>> /\ Head(todo[p]).f = f /\ todo' = [todo EXCEPT ![p] = Tail(@)]
  BY <1>1, Zenon DEF Ready
<1>3. ~IsJob(stack[p]) BY <1>2, EmptyStack
<1>4. IsList(todo[p]) /\ Orderly(todo[p]) /\ todo = [q \in Procs |-> todo[q]] BY DEF BInv, ToDo
<1>5. todo' = [q \in Procs |-> todo'[q]] /\ todo'[p] = Tail(todo[p]) /\ \A q \in Procs : q # p => todo'[q] = todo[q]
  BY <1>2, <1>4
<1>6. ToDo(p)' BY <1>2, <1>4, <1>5, PopOrderly DEF ToDo
<1>7. Call(h) = Head(todo[p]) /\ Call(h).f = f BY <1>1, <1>2 DEF Call
<1> QED BY <1>1, <1>2, <1>3, <1>4, <1>5, <1>6, <1>7 DEF NextCall

(* Calls that change nothing of what is held.                              *)
LEMMA BPlainCall ==
  ASSUME BInv, HInv, NEW h \in Harts, NEW f, Ready(h, f), f \notin {"bread", "pin", "brelse"},
         JobsSame, UNCHANGED lru, BufType', Untaken
  PROVE  BInv'
<1>1. PICK p \in Procs : NextCall(h, p, f) BY PopTodo
<1>2. SameHolds(todo[p], todo'[p]) BY <1>1, CallEffect DEF NextCall
<1>3. lru' \in [1..NBUF -> Bufs] BY DEF BInv
<1>4. \A q \in Procs : JobKept(q) BY SameKept
<1>5. \A q \in Procs : ToDo(q)' /\ SameHolds(todo[q], todo'[q])
  BY <1>1, <1>2, SameHoldsSelf DEF NextCall, BInv, ToDo
<1> QED BY <1>1, <1>3, <1>4, <1>5, BStays DEF Untaken, NextCall

LEMMA BCallPlain ==
  ASSUME BInv, HInv, NEW h \in Harts, CallRead(h) \/ CallWrite(h) \/ CallSleep(h) \/ CallKill(h) \/ CallReturn(h)
  PROVE  BInv'
<1>1. PICK f \in {"read", "write", "sleep", "kill", "ret"} : Ready(h, f)
  BY DEF CallRead, CallWrite, CallSleep, CallKill, CallReturn
<1>2. hart[h].proc # None /\ stack[hart[h].proc] = <<>> BY <1>1, Zenon DEF Ready
<1>3. JobsSame
  <2>1. CASE CallRead(h)
    <3>1. PICK g : g = [at |-> "consoleread", n |-> Call(h).n, target |-> Call(h).n] OBVIOUS
    <3>2. Begin(h, "cons", g) /\ g.at \notin JobAts BY <2>1, <3>1 DEF CallRead, JobAts
    <3> QED BY <1>2, <3>2, BeginJob
  <2>2. CASE CallWrite(h)
    <3>1. PICK g : g = [at |-> "putc", c |-> Call(h).c] OBVIOUS
    <3>2. Begin(h, "uart", g) /\ g.at \notin JobAts BY <2>2, <3>1 DEF CallWrite, JobAts
    <3> QED BY <1>2, <3>2, BeginJob
  <2>3. CASE CallSleep(h)
    <3>1. PICK g : g = [at |-> "sleep", n |-> Call(h).n, since |-> None] OBVIOUS
    <3>2. Begin(h, "ticks", g) /\ g.at \notin JobAts BY <2>3, <3>1 DEF CallSleep, JobAts
    <3> QED BY <1>2, <3>2, BeginJob
  <2>4. CASE CallKill(h) \/ CallReturn(h)
    <3>1. UNCHANGED stack BY <2>4 DEF CallKill, CallReturn
    <3> QED BY <3>1, StackStays
  <2> QED BY <2>1, <2>2, <2>3, <2>4
<1>4. UNCHANGED <<buf, lru>> BY DEF CallRead, CallWrite, CallSleep, CallKill, CallReturn, driver
<1>5. BufType' /\ Untaken BY <1>4, BufSame DEF BInv
<1> QED BY <1>1, <1>3, <1>4, <1>5, BPlainCall

LEMMA BCallModify ==
  ASSUME BInv, HInv, NEW h \in Harts, CallModify(h)
  PROVE  BInv'
<1>1. JobsSame
  <2>1. UNCHANGED stack BY DEF CallModify
  <2> QED BY <2>1, StackStays
<1>2. BufType' /\ Untaken
  <2>1. PICK i, v : buf' = [buf EXCEPT ![i].data = v] BY DEF CallModify
  <2> QED BY <2>1, BufTouch DEF BInv
<1>3. Ready(h, "modify") /\ UNCHANGED lru BY DEF CallModify
<1> QED BY <1>1, <1>2, <1>3, BPlainCall

LEMMA BCallBwrite ==
  ASSUME BInv, HInv, NEW h \in Harts, CallBwrite(h)
  PROVE  BInv' /\ \E p \in Procs : \E i \in Bufs : \E f :
                    JobSet(p, f) /\ f.at = "rw" /\ f.i = i /\ f.write \in BOOLEAN /\ buf[i].owner = p /\ stack[p] = <<>>
<1>1. PICK p \in Procs : NextCall(h, p, "bwrite") BY PopTodo DEF CallBwrite
<1>2. Holds(todo[p], Call(h).b) /\ Call(h).b \in Blocks /\ SameHolds(todo[p], todo'[p])
  BY <1>1, CallEffect DEF NextCall
<1>3. hart[h].proc # None /\ stack[hart[h].proc] = <<>> BY Zenon DEF CallBwrite, Ready
<1>4. PICK i \in Bufs : i = Buffer(h) /\ buf[i].owner = p
  BY <1>1, <1>2, <1>3, BufferOf DEF NextCall
<1>5. PICK f : f = [at |-> "rw", i |-> i, write |-> TRUE] OBVIOUS
<1>6. f.at = "rw" /\ f.i = i /\ f.write \in BOOLEAN /\ Begin(h, "vdisk", f)
  BY <1>4, <1>5 DEF CallBwrite
<1>7. JobSet(p, f) BY <1>1, <1>3, <1>6, BeginJob DEF NextCall, JobAts
<1>8. /\ \A q \in Procs : q # p => JobKept(q)
      /\ IsJob(stack'[p]) /\ JobOf(p)' = f
      /\ \A j : /\ ~Takes(p, j)' /\ ~Drops(p, j)'
                /\ Starts(p, j)' <=> j = i
                /\ \A d : ~Waits(p, j, d)'
  BY <1>6, <1>7, JobSetIs
<1>9. \A j : ~Takes(p, j) /\ ~Drops(p, j) BY <1>1, NoJobs DEF NextCall
<1>10. UNCHANGED <<buf, lru>> /\ BufType' /\ Untaken
  <2>1. UNCHANGED <<buf, lru>> BY DEF CallBwrite, driver
  <2> QED BY <2>1, BufSame DEF BInv
<1>11. JobIn(p)' BY <1>6, <1>8, SMTT(30) DEF JobIn
<1>12. BInv' BY <1>1, <1>2, <1>4, <1>8, <1>9, <1>10, <1>11, BWorks DEF NextCall
<1> QED BY <1>1, <1>4, <1>6, <1>7, <1>12 DEF NextCall

LEMMA BExit ==
  ASSUME BInv, HInv, NEW h \in Harts, Exit(h)
  PROVE  BInv'
<1>1. PICK p \in Procs : p = hart[h].proc /\ stack[p] = <<>> BY CurFacts, Zenon DEF Exit
<1>2. UNCHANGED <<stack, buf, lru>> /\ todo' = [todo EXCEPT ![p] = <<>>] BY <1>1, Zenon DEF Exit, driver
<1>3. JobsSame BY <1>2, StackStays
<1>4. BufType' /\ Untaken /\ lru' \in [1..NBUF -> Bufs] BY <1>2, BufSame DEF BInv
<1>5. /\ todo' = [q \in Procs |-> todo'[q]]
      /\ todo'[p] = <<>> /\ \A q \in Procs : q # p => todo'[q] = todo[q]
  BY <1>2 DEF BInv
<1>6. SameHolds(todo[p], <<>>)
  <2>1. CASE todo[p] = <<>> BY <2>1, SameHoldsSelf
  <2>2. CASE todo[p] # <<>> /\ Head(todo[p]).f = "ret"
    <3>1. IsList(todo[p]) /\ Orderly(todo[p]) BY DEF BInv, ToDo
    <3> QED BY <2>2, <3>1, CallEffect
  <2> QED BY <1>1, <2>1, <2>2, Zenon DEF Exit, Call
<1>7. ToDo(p)'
  <2>1. IsList(<<>>) /\ Orderly(<<>>) BY Empty DEF Orderly
  <2> QED BY <1>5, <2>1 DEF ToDo
<1>8. \A q \in Procs : ToDo(q)' /\ SameHolds(todo[q], todo'[q])
  BY <1>5, <1>6, <1>7, SameHoldsSelf DEF BInv, ToDo
<1> QED BY <1>3, <1>4, <1>5, <1>8, SameKept, BStays DEF Untaken

-----------------------------------------------------------------------------
(* bread() of a block that is cached.                                      *)
LEMMA BreadCached ==
  ASSUME BInv, HInv, NEW h \in Harts, NEW p \in Procs, NextCall(h, p, "bread"),
         NEW i \in Bufs, buf[i].blk = Call(h).b, buf' = [buf EXCEPT ![i].refcnt = @ + 1],
         JobSet(p, [at |-> "acquiresleep", i |-> i]), UNCHANGED lru
  PROVE  BInv'
<1>1. PICK b \in Blocks : /\ b = Call(h).b /\ b = buf[i].blk /\ SameBut(todo[p], todo'[p], b)
                          /\ ~Holds(todo[p], b) /\ Holds(todo'[p], b) /\ (Pins(todo'[p], b) <=> Pins(todo[p], b))
  BY CallEffect DEF NextCall
<1>2. PICK r : r = buf[i] /\ BufRec(r) BY DEF BInv, BufType
<1>3. PICK s : s = [r EXCEPT !.refcnt = r.refcnt + 1] OBVIOUS
<1>4. BufRec(s) /\ s.blk = r.blk /\ s.refcnt = r.refcnt + 1 /\ s.owner = r.owner /\ r.refcnt \in Int
  <2>1. r.refcnt + 1 \in Int BY <1>2 DEF BufRec
  <2>2. BufRec(s) /\ Rec(s, r.blk, r.valid, r.disk, r.refcnt + 1, r.owner)
    BY <1>2, <1>3, <2>1, SetFields
  <2> QED BY <1>2, <2>2, RecIs DEF BufRec
<1>5. BufIs(i, s) BY <1>2, <1>3 DEF BufIs
<1>6. BufType' /\ buf'[i] = s /\ \A j \in Bufs : j # i => buf'[j] = buf[j]
  BY <1>4, <1>5, BufAfter DEF BInv
<1>7. \A j \in Bufs : buf'[j].blk = buf[j].blk /\ buf'[j].owner = buf[j].owner BY <1>2, <1>4, <1>6
<1>8. PICK f : f = [at |-> "acquiresleep", i |-> i] /\ JobSet(p, f) OBVIOUS
<1>9. f.at = "acquiresleep" /\ f.i = i BY <1>8
<1>10. /\ \A q \in Procs : q # p => JobKept(q)
       /\ IsJob(stack'[p]) /\ JobOf(p)' = f
       /\ \A j : /\ Takes(p, j)' <=> j = i
                 /\ ~Drops(p, j)' /\ ~Starts(p, j)' /\ \A d : ~Waits(p, j, d)'
  BY <1>8, <1>9, JobSetIs
<1>11. \A j : /\ ~Takes(p, j) /\ ~Drops(p, j) /\ ~Starts(p, j) /\ \A d : ~Waits(p, j, d)
              /\ (Owns(p, j) <=> buf[j].owner = p) /\ (Uses(p, j) <=> buf[j].owner = p)
  BY NoJobs DEF NextCall
<1>12. lru' \in [1..NBUF -> Bufs] /\ JobIn(p)' BY <1>9, <1>10 DEF BInv, JobIn
<1>13. \A a : Wanted(p, a)' => Wanted(p, a) \/ InCache(a) BY <1>1 DEF Wanted, SameBut, InCache
<1>14. b # None BY <1>1, DiskCacheAssumption
<1>15. ASSUME NEW j \in Bufs PROVE PairOK(p, j)' /\ buf'[j].refcnt = buf[j].refcnt + Moved(p, j)
  <2>1. PairOK(p, j) /\ buf[j].refcnt \in Int BY DEF BInv, BufType, BufRec
  <2>2. PinnedBy(p, j)' <=> PinnedBy(p, j) BY <1>1, <1>7 DEF PinnedBy, SameBut
  <2>3. CASE j = i
    <3>1. buf[i].owner # p BY <1>1, <1>11, <2>1, <2>3 DEF PairOK
    <3>2. Owns(p, i)' /\ Uses(p, i)' /\ ~Uses(p, i) BY <1>10, <1>11, <3>1 DEF Owns, Uses
    <3>3. Holds(todo[p], buf[i].blk)' BY <1>1, <1>7
    <3>4. PairOK(p, i)' BY <1>7, <1>10, <3>1, <3>2, <3>3 DEF PairOK
    <3>5. Moved(p, i) = 1 BY <2>2, <2>3, <3>2 DEF Moved, Bit
    <3> QED BY <1>2, <1>4, <1>6, <2>3, <3>4, <3>5
  <2>4. CASE j # i
    <3>1. buf[j].blk # b BY <1>1, <1>14, <2>4 DEF BInv, OneBuffer
    <3>2. Holds(todo'[p], buf[j].blk) <=> Holds(todo[p], buf[j].blk) BY <1>1, <3>1 DEF SameBut
    <3>3. (Owns(p, j)' <=> Owns(p, j)) /\ (Uses(p, j)' <=> Uses(p, j))
      BY <1>7, <1>10, <1>11, <2>4 DEF Owns, Uses
    <3>4. PairOK(p, j)' BY <1>7, <1>10, <2>1, <2>4, <3>2, <3>3 DEF PairOK
    <3>5. Moved(p, j) = 0 BY <2>2, <3>3 DEF Moved, Bit
    <3> QED BY <1>6, <2>1, <2>4, <3>4, <3>5
  <2> QED BY <2>3, <2>4
<1>16. \A j \in Bufs : BlkKept(j) /\ \A q \in Procs : q # p => (buf'[j].owner = q <=> buf[j].owner = q)
  BY <1>7 DEF BlkKept
<1>17. /\ todo' = [q \in Procs |-> todo'[q]] /\ ToDo(p)'
       /\ \A q \in Procs : q # p => todo'[q] = todo[q]
  BY DEF NextCall
<1> QED BY <1>6, <1>10, <1>12, <1>13, <1>15, <1>16, <1>17, BMoves, SMTT(30)

(* brelse(), its first part.                                               *)
LEMMA BCallBrelse ==
  ASSUME BInv, HInv, NEW h \in Harts, CallBrelse(h)
  PROVE  BInv' /\ \E p \in Procs : \E i \in Bufs : \E f :
                    /\ JobSet(p, f) /\ f.at = "deref" /\ buf[i].owner = p /\ stack[p] = <<>>
                    /\ \A j \in Bufs : buf'[j].disk = buf[j].disk /\ (j # i => buf'[j].owner = buf[j].owner)
                    /\ proc' = Woken(proc, <<"lock", i>>)
<1>1. PICK p \in Procs : NextCall(h, p, "brelse") BY PopTodo DEF CallBrelse
<1>2. PICK b \in Blocks : /\ b = Call(h).b /\ SameBut(todo[p], todo'[p], b)
                          /\ Holds(todo[p], b) /\ ~Holds(todo'[p], b) /\ (Pins(todo'[p], b) <=> Pins(todo[p], b))
  BY <1>1, CallEffect DEF NextCall
<1>3. PICK i \in Bufs : /\ i = Buffer(h) /\ buf[i].owner = p /\ buf[i].blk = b
                        /\ \A j \in Bufs : j # i => buf[j].blk # b
  <2>1. hart[h].proc # None /\ stack[hart[h].proc] = <<>> BY Zenon DEF CallBrelse, Ready
  <2> QED BY <1>1, <1>2, <2>1, BufferOf DEF NextCall
<1>4. PICK r : r = buf[i] /\ BufRec(r) BY DEF BInv, BufType
<1>5. PICK s : s = [r EXCEPT !.owner = None] OBVIOUS
<1>6. BufRec(s) /\ s.blk = r.blk /\ s.refcnt = r.refcnt /\ s.owner = None /\ r.refcnt \in Int /\ s.disk = r.disk
  <2>1. BufRec(s) /\ Rec(s, r.blk, r.valid, r.disk, r.refcnt, None) BY <1>4, <1>5, SetFields
  <2> QED BY <1>4, <2>1, RecIs DEF BufRec
<1>7. BufIs(i, s) BY <1>3, <1>4, <1>5 DEF BufIs, CallBrelse
<1>8. BufType' /\ buf'[i] = s /\ \A j \in Bufs : j # i => buf'[j] = buf[j]
  BY <1>6, <1>7, BufAfter DEF BInv
<1>9. \A j \in Bufs : buf'[j].blk = buf[j].blk /\ buf'[j].refcnt = buf[j].refcnt
  BY <1>4, <1>6, <1>8
<1>10. PICK f : f = [at |-> "deref", i |-> i] /\ Push(h, <<f>>) BY <1>3 DEF CallBrelse
<1>11. f.at = "deref" /\ f.i = i BY <1>10
<1>12. JobSet(p, f) BY <1>1, <1>10, <1>11, PushJob DEF NextCall, JobAts
<1>13. /\ \A q \in Procs : q # p => JobKept(q)
       /\ IsJob(stack'[p]) /\ JobOf(p)' = f
       /\ \A j : /\ Drops(p, j)' <=> j = i
                 /\ ~Takes(p, j)' /\ ~Starts(p, j)' /\ \A d : ~Waits(p, j, d)'
  BY <1>11, <1>12, JobSetIs
<1>14. \A j : /\ ~Takes(p, j) /\ ~Drops(p, j) /\ ~Starts(p, j) /\ \A d : ~Waits(p, j, d)
              /\ (Owns(p, j) <=> buf[j].owner = p) /\ (Uses(p, j) <=> buf[j].owner = p)
  BY <1>1, NoJobs DEF NextCall
<1>15. lru' \in [1..NBUF -> Bufs] /\ JobIn(p)' BY <1>11, <1>13 DEF BInv, JobIn, CallBrelse
<1>16. \A a : Wanted(p, a)' => Wanted(p, a) \/ InCache(a) BY <1>2 DEF Wanted, SameBut, InCache
<1>17. p # None BY HartsAssumption
<1>18. ASSUME NEW j \in Bufs PROVE PairOK(p, j)' /\ buf'[j].refcnt = buf[j].refcnt + Moved(p, j)
  <2>1. PairOK(p, j) /\ buf[j].refcnt \in Int BY DEF BInv, BufType, BufRec
  <2>2. PinnedBy(p, j)' <=> PinnedBy(p, j) BY <1>2, <1>9 DEF PinnedBy, SameBut
  <2>3. CASE j = i
    <3>1. ~Owns(p, i)' /\ Uses(p, i)' /\ Uses(p, i)
      BY <1>3, <1>6, <1>8, <1>13, <1>14, <1>17 DEF Owns, Uses
    <3>2. ~Holds(todo[p], buf[i].blk)' BY <1>2, <1>3, <1>9
    <3>3. PairOK(p, i)' BY <1>6, <1>8, <1>13, <1>17, <3>1, <3>2 DEF PairOK
    <3>4. Moved(p, i) = 0 BY <2>2, <2>3, <3>1 DEF Moved, Bit
    <3> QED BY <1>9, <2>1, <2>3, <3>3, <3>4
  <2>4. CASE j # i
    <3>1. buf[j].blk # b BY <1>3, <2>4
    <3>2. Holds(todo'[p], buf[j].blk) <=> Holds(todo[p], buf[j].blk) BY <1>2, <3>1 DEF SameBut
    <3>3. (Owns(p, j)' <=> Owns(p, j)) /\ (Uses(p, j)' <=> Uses(p, j))
      BY <1>8, <1>13, <1>14, <2>4 DEF Owns, Uses
    <3>4. PairOK(p, j)' BY <1>8, <1>9, <1>13, <2>1, <2>4, <3>2, <3>3 DEF PairOK
    <3>5. Moved(p, j) = 0 BY <2>2, <3>3 DEF Moved, Bit
    <3> QED BY <1>8, <2>1, <2>4, <3>4, <3>5
  <2> QED BY <2>3, <2>4
<1>19. \A j \in Bufs : BlkKept(j) /\ \A q \in Procs : q # p => (buf'[j].owner = q <=> buf[j].owner = q)
  BY <1>3, <1>4, <1>6, <1>8, <1>9, HartsAssumption DEF BlkKept
<1>20. /\ todo' = [q \in Procs |-> todo'[q]] /\ ToDo(p)'
       /\ \A q \in Procs : q # p => todo'[q] = todo[q]
  BY <1>1 DEF NextCall
<1>21. BInv' BY <1>8, <1>13, <1>15, <1>16, <1>18, <1>19, <1>20, BMoves
<1>22. \A j \in Bufs : buf'[j].disk = buf[j].disk /\ (j # i => buf'[j].owner = buf[j].owner)
  BY <1>4, <1>6, <1>8
<1>23. proc' = Woken(proc, <<"lock", i>>) BY <1>3 DEF CallBrelse
<1>24. stack[p] = <<>> BY <1>1 DEF NextCall
<1> QED BY <1>3, <1>11, <1>12, <1>21, <1>22, <1>23, <1>24

LEMMA SetRefcnt ==
  ASSUME BufType, NEW i \in Bufs, NEW n \in Int, buf' = [buf EXCEPT ![i].refcnt = n]
  PROVE  /\ BufType' /\ buf'[i].refcnt = n
         /\ \A j \in Bufs : j # i => buf'[j] = buf[j]
         /\ \A j \in Bufs : buf'[j].blk = buf[j].blk /\ buf'[j].owner = buf[j].owner /\ buf'[j].disk = buf[j].disk
<1>1. PICK r : r = buf[i] /\ BufRec(r) BY DEF BufType
<1>2. PICK s : s = [r EXCEPT !.refcnt = n] OBVIOUS
<1>3. BufRec(s) /\ Rec(s, r.blk, r.valid, r.disk, n, r.owner) BY <1>1, <1>2, SetFields
<1>4. s.blk = r.blk /\ s.refcnt = n /\ s.owner = r.owner /\ s.disk = r.disk BY <1>3, RecIs
<1>5. BufIs(i, s) BY <1>1, <1>2 DEF BufIs
<1>6. BufType' /\ buf'[i] = s /\ \A j \in Bufs : j # i => buf'[j] = buf[j] BY <1>3, <1>5, BufAfter
<1> QED BY <1>1, <1>4, <1>6

LEMMA SetOwner ==
  ASSUME BufType, NEW i \in Bufs, NEW n \in Procs \cup {None}, buf' = [buf EXCEPT ![i].owner = n]
  PROVE  /\ BufType' /\ buf'[i].owner = n
         /\ \A j \in Bufs : j # i => buf'[j] = buf[j]
         /\ \A j \in Bufs : buf'[j].blk = buf[j].blk /\ buf'[j].refcnt = buf[j].refcnt /\ buf'[j].disk = buf[j].disk
<1>1. PICK r : r = buf[i] /\ BufRec(r) BY DEF BufType
<1>2. PICK s : s = [r EXCEPT !.owner = n] OBVIOUS
<1>3. BufRec(s) /\ Rec(s, r.blk, r.valid, r.disk, r.refcnt, n) BY <1>1, <1>2, SetFields
<1>4. s.blk = r.blk /\ s.refcnt = r.refcnt /\ s.owner = n /\ s.disk = r.disk BY <1>3, RecIs
<1>5. BufIs(i, s) BY <1>1, <1>2 DEF BufIs
<1>6. BufType' /\ buf'[i] = s /\ \A j \in Bufs : j # i => buf'[j] = buf[j] BY <1>3, <1>5, BufAfter
<1> QED BY <1>1, <1>4, <1>6

(* bpin() and bunpin().                                                    *)
LEMMA BCallPin ==
  ASSUME BInv, HInv, NEW h \in Harts, CallPin(h)
  PROVE  BInv' /\ UNCHANGED stack /\ BufType' /\ \A j \in Bufs : buf'[j].owner = buf[j].owner /\ buf'[j].disk = buf[j].disk
<1>1. PICK p \in Procs : NextCall(h, p, "pin") BY PopTodo DEF CallPin
<1>2. PICK b \in Blocks : /\ b = Call(h).b /\ SameBut(todo[p], todo'[p], b)
                          /\ Holds(todo[p], b) /\ Holds(todo'[p], b)
                          /\ \/ Call(h).up /\ ~Pins(todo[p], b) /\ Pins(todo'[p], b)
                             \/ ~Call(h).up /\ Pins(todo[p], b) /\ ~Pins(todo'[p], b)
  BY <1>1, CallEffect, ZenonT(60) DEF NextCall
<1>3. PICK i \in Bufs : /\ i = Buffer(h) /\ buf[i].owner = p /\ buf[i].blk = b
                        /\ \A j \in Bufs : j # i => buf[j].blk # b
  <2>1. hart[h].proc # None /\ stack[hart[h].proc] = <<>> BY Zenon DEF CallPin, Ready
  <2> QED BY <1>1, <1>2, <2>1, BufferOf, Zenon DEF NextCall
<1>4. buf[i].refcnt \in Int BY DEF BInv, BufType, BufRec
<1>5. PICK n \in Int : /\ n = buf[i].refcnt + Bit(Pins(todo'[p], b)) - Bit(Pins(todo[p], b))
                       /\ buf' = [buf EXCEPT ![i].refcnt = n]
  <2>1. buf' = [buf EXCEPT ![i].refcnt = IF Call(h).up THEN buf[i].refcnt + 1 ELSE buf[i].refcnt - 1]
    BY <1>3 DEF CallPin
  <2>2. PICK n \in Int : n = buf[i].refcnt + Bit(Pins(todo'[p], b)) - Bit(Pins(todo[p], b))
    BY <1>4 DEF Bit
  <2>3. n = IF Call(h).up THEN buf[i].refcnt + 1 ELSE buf[i].refcnt - 1 BY <1>2, <1>4, <2>2 DEF Bit
  <2> QED BY <2>1, <2>2, <2>3
<1>6. /\ BufType' /\ buf'[i].refcnt = n
      /\ \A j \in Bufs : j # i => buf'[j] = buf[j]
      /\ \A j \in Bufs : buf'[j].blk = buf[j].blk /\ buf'[j].owner = buf[j].owner /\ buf'[j].disk = buf[j].disk
  BY <1>5, SetRefcnt DEF BInv
<1>7. UNCHANGED <<stack, lru>> BY DEF CallPin
<1>8. \A q \in Procs : JobKept(q) BY <1>7, StackStays, SameKept
<1>9. \A j : /\ (Takes(p, j)' <=> Takes(p, j)) /\ (Drops(p, j)' <=> Drops(p, j)) /\ (Starts(p, j)' <=> Starts(p, j))
             /\ \A d : Waits(p, j, d)' <=> Waits(p, j, d)
  BY <1>8, JobKeptIs
<1>10. lru' \in [1..NBUF -> Bufs] /\ JobIn(p)' BY <1>7 DEF BInv, JobIn, JobOf
<1>11. \A a : Wanted(p, a)' => Wanted(p, a) \/ InCache(a)
  BY <1>2, <1>3 DEF Wanted, SameBut, InCache
<1>12. ASSUME NEW j \in Bufs PROVE PairOK(p, j)' /\ buf'[j].refcnt = buf[j].refcnt + Moved(p, j)
  <2>1. PairOK(p, j) /\ buf[j].refcnt \in Int BY DEF BInv, BufType, BufRec
  <2>2. Holds(todo'[p], buf[j].blk) <=> Holds(todo[p], buf[j].blk) BY <1>2, <1>3 DEF SameBut
  <2>3. (Owns(p, j)' <=> Owns(p, j)) /\ (Uses(p, j)' <=> Uses(p, j)) BY <1>6, <1>9 DEF Owns, Uses
  <2>4. PairOK(p, j)' BY <1>6, <1>9, <2>1, <2>2, <2>3 DEF PairOK
  <2>5. CASE j = i
    <3>1. (PinnedBy(p, i)' <=> Pins(todo'[p], b)) /\ (PinnedBy(p, i) <=> Pins(todo[p], b))
      BY <1>3, <1>6 DEF PinnedBy
    <3>2. Moved(p, i) = Bit(Pins(todo'[p], b)) - Bit(Pins(todo[p], b))
      BY <2>3, <2>5, <3>1 DEF Moved, Bit
    <3> QED BY <1>5, <1>6, <2>4, <2>5, <3>2, <1>4 DEF Bit
  <2>6. CASE j # i
    <3>1. PinnedBy(p, j)' <=> PinnedBy(p, j) BY <1>2, <1>3, <1>6, <2>6 DEF PinnedBy, SameBut
    <3>2. Moved(p, j) = 0 BY <2>3, <3>1 DEF Moved, Bit
    <3> QED BY <1>6, <2>1, <2>4, <2>6, <3>2
  <2> QED BY <2>5, <2>6
<1>13. \A j \in Bufs : BlkKept(j) /\ \A q \in Procs : q # p => (buf'[j].owner = q <=> buf[j].owner = q)
  BY <1>6 DEF BlkKept
<1>14. /\ todo' = [q \in Procs |-> todo'[q]] /\ ToDo(p)'
       /\ \A q \in Procs : q # p => todo'[q] = todo[q]
  BY <1>1 DEF NextCall
<1>15. BInv' BY <1>6, <1>8, <1>10, <1>11, <1>12, <1>13, <1>14, BMoves
<1> QED BY <1>6, <1>7, <1>15

-----------------------------------------------------------------------------
(* The steps of a job.                                                     *)
LEMMA SameSelf == \A s : Same(s, s)
BY DEF Same

LEMMA JobEnds ==
  ASSUME HInv, NEW h \in Harts, stack[Cur(h)] # <<>>, Head(stack[Cur(h)]).at \in JobAts, Goto(h, <<>>)
  PROVE  JobGone(Cur(h))
<1>1. Tail(stack[Cur(h)]) = <<>> /\ Cur(h) \in Procs BY TopJob
<1>2. Becomes(Cur(h), Chained(<<>>, Tail(stack[Cur(h)]))) BY GotoIs
<1>3. Chained(<<>>, <<>>) = <<>> BY Pop, Empty DEF Chained
<1> QED BY <1>1, <1>2, <1>3, BottomOne, SameSelf DEF Becomes, JobGone

LEMMA JobBecomes ==
  ASSUME NEW p \in Procs, NEW t, Becomes(p, t), t # <<>>, NEW f, Bottom(t) = f, f.at \in JobAts
  PROVE  JobSet(p, f)
BY SameSelf DEF Becomes, JobSet, IsJob

LEMMA JobAcquires ==
  ASSUME HInv, NEW h \in Harts, stack[Cur(h)] # <<>>, Head(stack[Cur(h)]).at \in JobAts,
         NEW lk, NEW f, f.at \in JobAts, Acquire(h, lk, <<f>>)
  PROVE  panic' = "acquire" \/ JobSet(Cur(h), f)
<1>1. Tail(stack[Cur(h)]) = <<>> /\ Cur(h) \in Procs BY TopJob
<1>2. PICK g : g = [at |-> "spin", lk |-> lk] OBVIOUS
<1>3. PICK s, t : s = <<f>> /\ t = <<g>> \o <<f>> OBVIOUS
<1>4. IsList(s) /\ s # <<>> /\ IsList(<<>>) BY <1>3, Single, Empty
<1>5. s \o <<>> = s /\ t \o <<>> = t /\ s # <<>> /\ t # <<>> /\ Bottom(s) = f /\ Bottom(t) = f
  <2>1. s = <<f>> /\ t = <<g, f>> BY <1>3, Joined
  <2>2. DEFINE T == {f, g}
  <2>3. s \in Seq(T) /\ t \in Seq(T) /\ Len(s) = 1 /\ Len(t) = 2 BY <2>1
  <2>4. s \o <<>> = s /\ t \o <<>> = t BY <2>3
  <2> QED BY <2>1, <2>3, <2>4 DEF Bottom
<1>6. CASE Goto(h, <<f>>)
  <2>1. Becomes(Cur(h), Chained(s, Tail(stack[Cur(h)]))) BY <1>3, <1>6, GotoIs
  <2>2. Becomes(Cur(h), s) BY <1>1, <1>5, <2>1 DEF Chained
  <2> QED BY <1>1, <1>5, <2>2, JobBecomes
<1>7. CASE Goto(h, <<g>> \o <<f>>)
  <2>1. Becomes(Cur(h), Chained(t, Tail(stack[Cur(h)]))) BY <1>3, <1>7, GotoIs
  <2>2. Becomes(Cur(h), t) BY <1>1, <1>5, <2>1 DEF Chained
  <2> QED BY <1>1, <1>5, <2>2, JobBecomes
<1>8. panic' = "acquire" \/ Goto(h, <<f>>) \/ Goto(h, <<g>> \o <<f>>) BY <1>2 DEF Acquire, Panic
<1> QED BY <1>6, <1>7, <1>8

LEMMA JobSleeps ==
  ASSUME HInv, NEW h \in Harts, stack[Cur(h)] # <<>>, Head(stack[Cur(h)]).at \in JobAts,
         NEW f, f.at \in JobAts, NEW chan, NEW lk, NEW ps,
         Sleep(h, chan, lk, ps, <<f>>) \/ SleepInside(h, chan, <<f>>)
  PROVE  (UNCHANGED stack /\ panic' = "sched locks") \/ JobSet(Cur(h), f)
<1>1. Tail(stack[Cur(h)]) = <<>> /\ Cur(h) \in Procs BY TopJob
<1>2. \/ UNCHANGED stack /\ panic' = "sched locks"
      \/ \E t : Becomes(Cur(h), t) /\ t # <<>> /\ Bottom(t) = f
  BY <1>1, SleepJob, Zenon
<1> QED BY <1>1, <1>2, JobBecomes, Zenon

LEMMA WorksAt ==
  ASSUME HInv, BInv, NEW h \in Harts, NEW at \in JobAts, At(h, at)
  PROVE  \E p \in Procs : \E f : Works(h, p, f, at)
<1>1. stack[Cur(h)] # <<>> /\ Head(stack[Cur(h)]).at = at /\ panic = "" BY Zenon DEF At, Runs
<1>2. PICK p \in Procs : p = hart[h].proc /\ p = Cur(h) /\ IsJob(stack[p]) /\ JobOf(p) = Head(stack[p])
  BY <1>1, TopJob, Zenon
<1>3. JobOf(p).i \in Bufs BY <1>2 DEF BInv, JobIn
<1> QED BY <1>1, <1>2, <1>3, Zenon DEF Works, Frame

(* brelse(), its second part.                                              *)
LEMMA FrontIsList ==
  ASSUME lru \in [1..NBUF -> Bufs], NEW i \in Bufs
  PROVE  MovedToFront(i) \in [1..NBUF -> Bufs]
<1>1. NBUF \in Nat \ {0} BY DiskCacheAssumption
<1>2. \A k \in 1..NBUF : k # 1 => k - 1 \in 1..NBUF BY <1>1
<1> QED BY <1>1, <1>2 DEF MovedToFront

LEMMA BDeref ==
  ASSUME BInv, HInv, NEW h \in Harts, Deref(h), UNCHANGED todo
  PROVE  BInv' /\ \E p \in Procs : \E f : /\ Works(h, p, f, "deref") /\ JobGone(p)
                                          /\ \A j \in Bufs : buf'[j].owner = buf[j].owner /\ buf'[j].disk = buf[j].disk
<1>0. PICK p \in Procs : \E f : Works(h, p, f, "deref") BY WorksAt DEF Deref, JobAts
<1>1. PICK f : Works(h, p, f, "deref") BY <1>0
<1>2. PICK i \in Bufs : i = f.i BY <1>1, Zenon DEF Works
<1>3. JobGone(p)
  <2>1. Goto(h, <<>>) BY DEF Deref
  <2> QED BY <1>1, <2>1, JobEnds, Zenon DEF Works
<1>4. /\ \A q \in Procs : q # p => JobKept(q)
      /\ ~IsJob(stack'[p])
      /\ \A j : ~Takes(p, j)' /\ ~Drops(p, j)' /\ ~Starts(p, j)' /\ \A d : ~Waits(p, j, d)'
  BY <1>3, JobGoneIs
<1>5. \A j : ~Takes(p, j) /\ (Drops(p, j) <=> j = i) BY <1>1, <1>2, JobIs, Zenon DEF Works
<1>6. buf[i].refcnt \in Int BY DEF BInv, BufType, BufRec
<1>7. PICK n \in Int : n = buf[i].refcnt - 1 BY <1>6
<1>8. buf' = [buf EXCEPT ![i].refcnt = n] BY <1>1, <1>2, <1>7, Zenon DEF Deref, Works
<1>9. /\ BufType' /\ buf'[i].refcnt = n
      /\ \A j \in Bufs : j # i => buf'[j] = buf[j]
      /\ \A j \in Bufs : buf'[j].blk = buf[j].blk /\ buf'[j].owner = buf[j].owner /\ buf'[j].disk = buf[j].disk
  BY <1>8, SetRefcnt DEF BInv
<1>10. lru' \in [1..NBUF -> Bufs]
  <2>1. lru' = MovedToFront(i) \/ lru' = lru BY <1>1, <1>2, Zenon DEF Deref, Works
  <2> QED BY <2>1, FrontIsList DEF BInv
<1>11. JobIn(p)' /\ ToDo(p)' /\ todo' = [q \in Procs |-> todo'[q]] /\ \A q \in Procs : todo'[q] = todo[q]
  BY <1>4 DEF JobIn, BInv, ToDo
<1>12. \A a : Wanted(p, a)' => Wanted(p, a) \/ InCache(a) BY DEF Wanted
<1>13. ASSUME NEW j \in Bufs PROVE PairOK(p, j)' /\ buf'[j].refcnt = buf[j].refcnt + Moved(p, j)
  <2>1. PairOK(p, j) /\ buf[j].refcnt \in Int BY DEF BInv, BufType, BufRec
  <2>2. /\ PinnedBy(p, j)' <=> PinnedBy(p, j)
        /\ Holds(todo'[p], buf'[j].blk) <=> Holds(todo[p], buf[j].blk)
    BY <1>9, <1>11 DEF PinnedBy
  <2>3. Owns(p, j)' <=> Owns(p, j) BY <1>4, <1>5, <1>9 DEF Owns
  <2>4. PairOK(p, j)' BY <1>4, <2>1, <2>2, <2>3 DEF PairOK
  <2>5. CASE j = i
    <3>1. ~Owns(p, i) BY <1>5, <2>1, <2>5 DEF PairOK, Owns
    <3>2. ~Uses(p, i)' /\ Uses(p, i) BY <1>4, <1>5, <2>3, <2>5, <3>1 DEF Uses
    <3>3. Moved(p, i) = -1 BY <2>2, <2>5, <3>2 DEF Moved, Bit
    <3> QED BY <1>6, <1>7, <1>9, <2>4, <2>5, <3>3
  <2>6. CASE j # i
    <3>1. Uses(p, j)' <=> Uses(p, j) BY <1>4, <1>5, <2>3, <2>6 DEF Uses
    <3>2. Moved(p, j) = 0 BY <2>2, <3>1 DEF Moved, Bit
    <3> QED BY <1>9, <2>1, <2>4, <2>6, <3>2
  <2> QED BY <2>5, <2>6
<1>14. \A j \in Bufs : BlkKept(j) /\ \A q \in Procs : q # p => (buf'[j].owner = q <=> buf[j].owner = q)
  BY <1>9 DEF BlkKept
<1>15. BInv' BY <1>4, <1>9, <1>10, <1>11, <1>12, <1>13, <1>14, BMoves
<1> QED BY <1>1, <1>3, <1>9, <1>15

-----------------------------------------------------------------------------
(* bread() of a block that is not cached: a buffer is recycled.            *)
LEMMA SetBlock ==
  ASSUME BufType, NEW i \in Bufs, NEW b \in Blocks,
         buf' = [buf EXCEPT ![i] = [@ EXCEPT !.blk = b, !.valid = FALSE, !.refcnt = 1]]
  PROVE  /\ BufType' /\ buf'[i].refcnt = 1 /\ buf'[i].blk = b
         /\ \A j \in Bufs : j # i => buf'[j] = buf[j]
         /\ \A j \in Bufs : buf'[j].owner = buf[j].owner /\ buf'[j].disk = buf[j].disk
<1>1. PICK r : r = buf[i] /\ BufRec(r) BY DEF BufType
<1>2. PICK s : s = [[[r EXCEPT !.blk = b] EXCEPT !.valid = FALSE] EXCEPT !.refcnt = 1] OBVIOUS
<1>3. BufRec(s) /\ s.blk = b /\ s.refcnt = 1 /\ s.owner = r.owner /\ s.disk = r.disk
  <2>1. PICK bb, va, d, n, x, o :
              /\ r = [blk |-> bb, valid |-> va, disk |-> d, refcnt |-> n, data |-> x, owner |-> o]
              /\ bb \in Blocks \cup {None} /\ va \in BOOLEAN /\ d \in BOOLEAN /\ n \in Int /\ o \in Procs \cup {None}
    <3>1. BufRec(r) BY <1>1
    <3> QED BY <3>1 DEF BufRec, Rec
  <2>2. s = [blk |-> b, valid |-> FALSE, disk |-> d, refcnt |-> 1, data |-> x, owner |-> o]
    BY <1>2, <2>1
  <2> QED BY <2>1, <2>2 DEF BufRec, Rec
<1>4. BufIs(i, s) BY <1>1, <1>2 DEF BufIs
<1>5. BufType' /\ buf'[i] = s /\ \A j \in Bufs : j # i => buf'[j] = buf[j] BY <1>3, <1>4, BufAfter
<1> QED BY <1>1, <1>3, <1>5

LEMMA BreadMiss ==
  ASSUME BInv, HInv, NEW h \in Harts, NEW p \in Procs, NextCall(h, p, "bread"), UNCHANGED lru,
         Cached(Call(h).b) = {}, Unused # {},
         NEW i \in Bufs, i = lru[Max(Unused)],
         buf' = [buf EXCEPT ![i] = [@ EXCEPT !.blk = Call(h).b, !.valid = FALSE, !.refcnt = 1]],
         JobSet(p, [at |-> "acquiresleep", i |-> i])
  PROVE  BInv'
<1>1. PICK b \in Blocks : /\ b = Call(h).b /\ SameBut(todo[p], todo'[p], b)
                          /\ ~Holds(todo[p], b) /\ Holds(todo'[p], b) /\ (Pins(todo'[p], b) <=> Pins(todo[p], b))
  BY CallEffect, ZenonT(60) DEF NextCall
<1>2. buf[i].refcnt = 0 BY LastUnused DEF BInv
<1>3. \A q \in Procs : ~Uses(q, i) /\ ~PinnedBy(q, i) /\ ~Wanted(q, buf[i].blk) BY <1>2, NobodyHas
<1>4. /\ BufType' /\ buf'[i].refcnt = 1 /\ buf'[i].blk = b
      /\ \A j \in Bufs : j # i => buf'[j] = buf[j]
      /\ \A j \in Bufs : buf'[j].owner = buf[j].owner /\ buf'[j].disk = buf[j].disk
  <2>1. buf' = [buf EXCEPT ![i] = [@ EXCEPT !.blk = b, !.valid = FALSE, !.refcnt = 1]] BY <1>1
  <2> QED BY <2>1, SetBlock, Zenon DEF BInv
<1>5. (\A j \in Bufs : buf[j].blk # b) /\ b # None BY <1>1, DiskCacheAssumption DEF Cached
<1>6. \A q \in Procs : ~Holds(todo[q], b) /\ ~Pins(todo[q], b) BY <1>5 DEF BInv, Wanted, InCache
<1>7. PICK f : f = [at |-> "acquiresleep", i |-> i] /\ JobSet(p, f) OBVIOUS
<1>8. f.at = "acquiresleep" /\ f.i = i BY <1>7
<1>9. /\ \A q \in Procs : q # p => JobKept(q)
      /\ IsJob(stack'[p]) /\ JobOf(p)' = f
      /\ \A j : /\ Takes(p, j)' <=> j = i
                /\ ~Drops(p, j)' /\ ~Starts(p, j)' /\ \A d : ~Waits(p, j, d)'
  BY <1>7, <1>8, JobSetIs
<1>10. \A j : /\ ~Takes(p, j) /\ ~Drops(p, j) /\ ~Starts(p, j) /\ \A d : ~Waits(p, j, d)
              /\ (Owns(p, j) <=> buf[j].owner = p) /\ (Uses(p, j) <=> buf[j].owner = p)
  BY NoJobs DEF NextCall
<1>11. /\ todo' = [q \in Procs |-> todo'[q]] /\ ToDo(p)'
       /\ \A q \in Procs : q # p => todo'[q] = todo[q]
  BY DEF NextCall
<1>12. \A j \in Bufs : j # i => BlkKept(j) BY <1>4 DEF BlkKept
<1>13. lru' \in [1..NBUF -> Bufs] /\ \A q \in Procs : ToDo(q)' /\ JobIn(q)'
  BY <1>8, <1>9, <1>11 DEF BInv, JobIn, JobOf, JobKept, ToDo
<1>14. \A q \in Procs, j \in Bufs : q # p /\ j # i => PairKept(q, j)
  BY <1>4, <1>9, <1>11, <1>12, SameHoldsSelf DEF PairKept
<1>15. ASSUME NEW q \in Procs, NEW j \in Bufs PROVE PairOK(q, j)'
  <2>1. PairOK(q, j) BY DEF BInv
  <2>2. CASE q # p /\ j # i BY <1>14, <2>1, <2>2, PairKeeps
  <2>3. CASE q # p /\ j = i
    <3>1. /\ (Takes(q, i)' <=> Takes(q, i)) /\ (Drops(q, i)' <=> Drops(q, i)) /\ (Starts(q, i)' <=> Starts(q, i))
          /\ \A d : Waits(q, i, d)' <=> Waits(q, i, d)
      BY <1>9, <2>3, JobKeptIs
    <3>2. Owns(q, i)' <=> Owns(q, i) BY <1>4, <3>1 DEF Owns
    <3>3. ~Owns(q, i) BY <1>3 DEF Uses
    <3>4. ~Holds(todo'[q], buf'[i].blk) BY <1>4, <1>6, <1>11, <2>3
    <3> QED BY <1>4, <2>1, <2>3, <3>1, <3>2, <3>3, <3>4 DEF PairOK
  <2>4. CASE q = p /\ j = i
    <3>1. buf[i].owner # p /\ buf'[i].owner # p BY <1>3, <1>4, <1>10
    <3>2. Owns(p, i)' /\ Holds(todo'[p], buf'[i].blk) BY <1>1, <1>4, <1>9 DEF Owns
    <3> QED BY <1>9, <2>4, <3>1, <3>2 DEF PairOK
  <2>5. CASE q = p /\ j # i
    <3>1. Holds(todo'[p], buf'[j].blk) <=> Holds(todo[p], buf[j].blk)
      BY <1>1, <1>4, <1>5, <2>5 DEF SameBut
    <3>2. Owns(p, j)' <=> Owns(p, j) BY <1>4, <1>9, <1>10, <2>5 DEF Owns
    <3> QED BY <1>4, <1>9, <2>1, <2>5, <3>1, <3>2 DEF PairOK
  <2> QED BY <2>2, <2>3, <2>4, <2>5
<1>16. ASSUME NEW q \in Procs, NEW a, Wanted(q, a)' PROVE InCache(a)'
  <2>1. CASE a = b BY <1>4, <2>1 DEF InCache
  <2>2. CASE a # b
    <3>1. Wanted(q, a) BY <1>1, <1>11, <1>16, <2>2 DEF Wanted, SameBut
    <3>2. PICK j \in Bufs : buf[j].blk = a BY <3>1 DEF BInv, InCache
    <3>3. j # i BY <1>3, <3>1, <3>2
    <3> QED BY <1>4, <3>2, <3>3 DEF InCache
  <2> QED BY <2>1, <2>2
<1>17. OneBuffer' BY <1>4, <1>5 DEF BInv, OneBuffer
<1>18. ASSUME NEW j \in Bufs PROVE Counts(j)'
  <2>1. CASE j # i
    <3>1. PairOK(p, j) /\ Counts(j) /\ buf[j].refcnt \in Int BY DEF BInv, BufType, BufRec
    <3>2. Uses(p, j)' <=> Uses(p, j) BY <1>4, <1>9, <1>10, <2>1 DEF Uses, Owns
    <3>3. PinnedBy(p, j)' <=> PinnedBy(p, j) BY <1>1, <1>4, <1>5, <2>1 DEF PinnedBy, SameBut
    <3>4. buf'[j].refcnt = buf[j].refcnt + Moved(p, j)
      BY <1>4, <2>1, <3>1, <3>2, <3>3 DEF Moved, Bit
    <3> QED BY <1>14, <2>1, <3>1, <3>4, CountsMove
  <2>2. CASE j = i
    <3>1. \A q \in Procs : Uses(q, i)' <=> q = p
      <4>1. ASSUME NEW q \in Procs, q # p PROVE ~Uses(q, i)'
        <5>1. (Takes(q, i)' <=> Takes(q, i)) /\ (Drops(q, i)' <=> Drops(q, i))
          BY <1>9, <4>1, JobKeptIs
        <5> QED BY <1>3, <1>4, <5>1 DEF Uses, Owns
      <4>2. Uses(p, i)' BY <1>9 DEF Uses, Owns
      <4> QED BY <4>1, <4>2
    <3>2. \A q \in Procs : ~PinnedBy(q, i)' BY <1>1, <1>4, <1>6, <1>11 DEF PinnedBy
    <3>3. Refs(i)' = {p} /\ Pinners(i)' = {} BY <3>1, <3>2 DEF Refs, Pinners
    <3>4. Cardinality({p}) = 1 /\ Cardinality({}) = 0 BY FS_Singleton, FS_EmptySet
    <3> QED BY <1>4, <2>2, <3>3, <3>4 DEF Counts
  <2> QED BY <2>1, <2>2
<1> QED BY <1>4, <1>11, <1>13, <1>15, <1>16, <1>17, <1>18 DEF BInv

LEMMA BCallBread ==
  ASSUME BInv, HInv, NEW h \in Harts, CallBread(h)
  PROVE  \/ panic' = "bget" /\ UNCHANGED <<hart, lock, proc, stack, ticks, buf>>
         \/ /\ BInv' /\ panic' = panic
            /\ \E p \in Procs : \E f : JobSet(p, f) /\ f.at = "acquiresleep" /\ stack[p] = <<>>
            /\ BufType' /\ \A j \in Bufs : buf'[j].owner = buf[j].owner /\ buf'[j].disk = buf[j].disk
<1>1. PICK p \in Procs : NextCall(h, p, "bread") BY PopTodo DEF CallBread
<1>2. PICK b \in Blocks : b = Call(h).b BY <1>1, CallEffect DEF NextCall
<1>3. CASE Panic("bget") /\ UNCHANGED buf BY <1>3 DEF Panic
<1>4. CASE Bget(b) /\ NoChange /\ Push(h, <<[at |-> "acquiresleep", i |-> CHOOSE i \in Bufs : buf'[i].blk = b]>>)
  <2>1. UNCHANGED lru BY DEF CallBread
  <2>2. b # None BY DiskCacheAssumption
  <2>3. ASSUME NEW i \in Bufs, buf'[i].blk = b, \A j \in Bufs : j # i => buf'[j].blk # b
        PROVE  \A f : f = [at |-> "acquiresleep", i |-> i] => JobSet(p, f) /\ f.at = "acquiresleep"
    <3>1. (CHOOSE j \in Bufs : buf'[j].blk = b) = i BY <2>3
    <3>2. PICK f : f = [at |-> "acquiresleep", i |-> i] OBVIOUS
    <3>3. f.at = "acquiresleep" /\ Push(h, <<f>>) BY <1>4, <3>1, <3>2
    <3>4. JobSet(p, f) BY <1>1, <3>3, PushJob DEF NextCall, JobAts
    <3> QED BY <3>2, <3>3, <3>4
  <2>4. CASE \E i \in Cached(b) : buf' = [buf EXCEPT ![i].refcnt = @ + 1]
    <3>1. PICK i \in Bufs : buf[i].blk = b /\ buf' = [buf EXCEPT ![i].refcnt = @ + 1]
      BY <2>4 DEF Cached
    <3>2. buf[i].refcnt \in Int BY DEF BInv, BufType, BufRec
    <3>3. PICK n \in Int : n = buf[i].refcnt + 1 BY <3>2
    <3>4. buf' = [buf EXCEPT ![i].refcnt = n] BY <3>1, <3>3
    <3>5. /\ BufType'
          /\ \A j \in Bufs : buf'[j].blk = buf[j].blk /\ buf'[j].owner = buf[j].owner /\ buf'[j].disk = buf[j].disk
      BY <3>4, SetRefcnt DEF BInv
    <3>6. buf'[i].blk = b /\ \A j \in Bufs : j # i => buf'[j].blk # b
      BY <2>2, <3>1, <3>5 DEF BInv, OneBuffer
    <3>7. PICK f : f = [at |-> "acquiresleep", i |-> i] OBVIOUS
    <3>8. JobSet(p, f) /\ f.at = "acquiresleep" BY <2>3, <3>6, <3>7
    <3>9. BInv' BY <1>1, <1>2, <2>1, <3>1, <3>7, <3>8, BreadCached
    <3> QED BY <1>1, <1>4, <3>5, <3>8, <3>9 DEF NextCall, NoChange
  <2>5. CASE /\ Cached(b) = {} /\ Unused # {}
             /\ buf' = [buf EXCEPT ![lru[Max(Unused)]] = [@ EXCEPT !.blk = b, !.valid = FALSE, !.refcnt = 1]]
    <3>1. PICK i \in Bufs : i = lru[Max(Unused)] BY <2>5, LastUnused DEF BInv
    <3>2. buf' = [buf EXCEPT ![i] = [@ EXCEPT !.blk = b, !.valid = FALSE, !.refcnt = 1]]
      BY <2>5, <3>1
    <3>3. /\ BufType' /\ buf'[i].blk = b
          /\ \A j \in Bufs : j # i => buf'[j] = buf[j]
          /\ \A j \in Bufs : buf'[j].owner = buf[j].owner /\ buf'[j].disk = buf[j].disk
      BY <3>2, SetBlock, Zenon DEF BInv
    <3>4. \A j \in Bufs : j # i => buf'[j].blk # b BY <2>5, <3>3 DEF Cached
    <3>5. PICK f : f = [at |-> "acquiresleep", i |-> i] OBVIOUS
    <3>6. JobSet(p, f) /\ f.at = "acquiresleep" BY <2>3, <3>3, <3>4, <3>5
    <3>7. BInv' BY <1>1, <1>2, <2>1, <2>5, <3>1, <3>2, <3>5, <3>6, BreadMiss, Zenon
    <3> QED BY <1>1, <1>4, <3>3, <3>6, <3>7 DEF NextCall, NoChange
  <2> QED BY <1>4, <2>4, <2>5 DEF Bget
<1> QED BY <1>2, <1>3, <1>4 DEF CallBread

-----------------------------------------------------------------------------
(* The other steps of the cache and of the disk.                           *)
LEMMA NotStuck ==
  ASSUME PanicOK, panic = ""
  PROVE  panic' # "acquire" /\ panic' # "sched locks"
<1>1. panic' \in {"", "bget", "free_desc", "virtio_disk_intr"} BY Zenon DEF PanicOK, OtherPanics
<1> QED BY <1>1, Zenon

LEMMA BAcquireSleep ==
  ASSUME BInv, HInv, NEW h \in Harts, AcquireSleep(h), UNCHANGED todo
  PROVE  BInv' /\ \E p \in Procs : \E f :
            /\ Works(h, p, f, "acquiresleep")
            /\ \/ buf[f.i].owner # None /\ UNCHANGED buf /\ JobSet(p, f) /\ SleepInside(h, <<"lock", f.i>>, <<f>>)
               \/ /\ UNCHANGED proc /\ \A j \in Bufs : buf'[j].disk = buf[j].disk
                  /\ \A j \in Bufs : buf[j].owner # None => buf'[j].owner # None
                  /\ JobGone(p) \/ \E g : JobSet(p, g) /\ g.at = "rw" /\ g.write \in BOOLEAN
<1>0. PICK p \in Procs : \E f : Works(h, p, f, "acquiresleep") BY WorksAt DEF AcquireSleep, JobAts
<1>1. PICK f : Works(h, p, f, "acquiresleep") BY <1>0
<1>2. PICK i \in Bufs : i = f.i BY <1>1, Zenon DEF Works
<1>3. panic' # "acquire" /\ panic' # "sched locks"
  <2>1. PanicOK /\ panic = "" BY <1>1, AcquireSleepKeeps, Zenon DEF Works
  <2> QED BY <2>1, NotStuck, Zenon
<1>4. UNCHANGED <<lru, disk, dev, plic>> /\ lru' \in [1..NBUF -> Bufs] BY DEF AcquireSleep, BInv
<1>5. \A j : /\ (Takes(p, j) <=> j = i) /\ ~Drops(p, j) /\ ~Starts(p, j) /\ \A d : ~Waits(p, j, d)
  BY <1>1, <1>2, JobIs, Zenon DEF Works
<1>6. CASE buf[i].owner # None /\ SleepInside(h, <<"lock", i>>, <<f>>) /\ UNCHANGED buf
  <2>1. JobSet(p, f)
    <3>1. stack[Cur(h)] # <<>> /\ Head(stack[Cur(h)]).at \in JobAts /\ f.at \in JobAts /\ Cur(h) = p
      BY <1>1, Zenon DEF Works, JobAts
    <3>2. (UNCHANGED stack /\ panic' = "sched locks") \/ JobSet(Cur(h), f) BY <1>6, <3>1, JobSleeps, Zenon
    <3> QED BY <1>3, <3>1, <3>2, Zenon
  <2>2. /\ \A q \in Procs : q # p => JobKept(q)
        /\ IsJob(stack'[p]) /\ JobOf(p)' = f
    BY <2>1, JobSetIs
  <2>3. \A q \in Procs : JobKept(q) BY <1>1, <2>2, Zenon DEF Works, JobKept, JobOf
  <2>4. BufType' /\ Untaken BY <1>6, BufSame DEF BInv
  <2>5. /\ todo' = [q \in Procs |-> todo'[q]]
        /\ \A q \in Procs : ToDo(q)' /\ SameHolds(todo[q], todo'[q])
    BY SameHoldsSelf DEF BInv, ToDo
  <2>6. BInv' BY <1>4, <2>3, <2>4, <2>5, BStays DEF Untaken
  <2> QED BY <1>1, <1>2, <1>6, <2>1, <2>6
<1>7. CASE /\ buf[i].owner = None
           /\ buf' = [buf EXCEPT ![i].owner = p]
           /\ \/ buf[i].valid /\ Goto(h, <<>>) /\ UNCHANGED <<hart, lock, proc, ticks, panic>>
              \/ ~buf[i].valid /\ Acquire(h, "vdisk", <<[at |-> "rw", i |-> i, write |-> FALSE]>>)
  <2>1. UNCHANGED proc BY <1>7 DEF Acquire, Panic
  <2>2. PICK g : g = [at |-> "rw", i |-> i, write |-> FALSE] OBVIOUS
  <2>3. g.at = "rw" /\ g.i = i /\ g.write \in BOOLEAN BY <2>2
  <2>4. JobGone(p) \/ JobSet(p, g)
    <3>1. CASE Goto(h, <<>>) BY <1>1, <3>1, JobEnds, Zenon DEF Works
    <3>2. CASE Acquire(h, "vdisk", <<g>>)
      <4>1. g.at \in JobAts BY <2>3 DEF JobAts
      <4> QED BY <1>1, <1>3, <3>2, <4>1, JobAcquires, Zenon DEF Works
    <3> QED BY <1>7, <2>2, <3>1, <3>2
  <2>5. /\ \A q \in Procs : q # p => JobKept(q)
        /\ IsJob(stack'[p]) => JobOf(p)' = g
        /\ \A j : ~Takes(p, j)' /\ ~Drops(p, j)' /\ (Starts(p, j)' => j = i) /\ \A d : ~Waits(p, j, d)'
    <3>1. CASE JobGone(p) BY <3>1, JobGoneIs
    <3>2. CASE JobSet(p, g) BY <2>3, <3>2, JobSetIs
    <3> QED BY <2>4, <3>1, <3>2
  <2>6. /\ BufType' /\ buf'[i].owner = p
        /\ \A j \in Bufs : j # i => buf'[j] = buf[j]
        /\ \A j \in Bufs : buf'[j].blk = buf[j].blk /\ buf'[j].refcnt = buf[j].refcnt /\ buf'[j].disk = buf[j].disk
    BY <1>7, SetOwner DEF BInv
  <2>7. p # None BY HartsAssumption
  <2>8. JobIn(p)' /\ ToDo(p)' /\ todo' = [q \in Procs |-> todo'[q]] /\ \A q \in Procs : todo'[q] = todo[q]
    BY <2>3, <2>5 DEF JobIn, BInv, ToDo
  <2>9. \A a : Wanted(p, a)' => Wanted(p, a) \/ InCache(a) BY DEF Wanted
  <2>10. ASSUME NEW j \in Bufs PROVE PairOK(p, j)' /\ buf'[j].refcnt = buf[j].refcnt + Moved(p, j)
    <3>1. PairOK(p, j) /\ buf[j].refcnt \in Int BY DEF BInv, BufType, BufRec
    <3>2. /\ PinnedBy(p, j)' <=> PinnedBy(p, j)
          /\ Holds(todo'[p], buf'[j].blk) <=> Holds(todo[p], buf[j].blk)
      BY <2>6, <2>8 DEF PinnedBy
    <3>3. (Owns(p, j)' <=> Owns(p, j)) /\ (Uses(p, j)' <=> Uses(p, j))
      <4>1. CASE j = i BY <1>5, <2>6, <4>1 DEF Owns, Uses
      <4>2. CASE j # i BY <1>5, <2>5, <2>6, <4>2 DEF Owns, Uses
      <4> QED BY <4>1, <4>2
    <3>4. PairOK(p, j)' BY <2>5, <2>6, <3>1, <3>2, <3>3 DEF PairOK
    <3>5. Moved(p, j) = 0 BY <3>2, <3>3 DEF Moved, Bit
    <3> QED BY <2>6, <3>1, <3>4, <3>5
  <2>11. \A j \in Bufs : BlkKept(j) /\ \A q \in Procs : q # p => (buf'[j].owner = q <=> buf[j].owner = q)
    BY <1>7, <2>6, HartsAssumption DEF BlkKept
  <2>12. BInv' BY <1>4, <2>5, <2>6, <2>8, <2>9, <2>10, <2>11, BMoves
  <2>13. \A j \in Bufs : buf[j].owner # None => buf'[j].owner # None BY <2>6, <2>7
  <2> QED BY <1>1, <2>1, <2>3, <2>4, <2>6, <2>12, <2>13
<1>8. hart[h].proc = p /\ Frame(h) = f BY <1>1, Zenon DEF Works
<1> QED BY <1>2, <1>6, <1>7, <1>8 DEF AcquireSleep

(* The job of a process that works on a buffer it owns.                    *)
LEMMA BJob ==
  ASSUME BInv, HInv, NEW h \in Harts, UNCHANGED <<lru, todo>>, BufType', Untaken,
         NEW p \in Procs, NEW f, NEW at \in {"rw", "wait"}, Works(h, p, f, at),
         NEW g, g.at \in {"rw", "wait"}, g.i = f.i, JobGone(p) \/ JobSet(p, g)
  PROVE  BInv'
<1>1. PICK i \in Bufs : i = f.i BY Zenon DEF Works
<1>2. \A j : /\ ~Takes(p, j) /\ ~Drops(p, j)
             /\ Starts(p, j) \/ (\E d : Waits(p, j, d)) <=> j = i
  BY <1>1, JobIs, ZenonT(60) DEF Works
<1>3. /\ \A q \in Procs : q # p => JobKept(q)
      /\ IsJob(stack'[p]) => JobOf(p)' = g
      /\ \A j : ~Takes(p, j)' /\ ~Drops(p, j)' /\ (Starts(p, j)' \/ (\E d : Waits(p, j, d)') => j = i)
  <2>1. CASE JobGone(p) BY <2>1, JobGoneIs
  <2>2. CASE JobSet(p, g) BY <1>1, <2>2, JobSetIs
  <2> QED BY <2>1, <2>2
<1>4. PairOK(p, i) BY DEF BInv
<1>5. buf[i].owner = p BY <1>2, <1>4 DEF PairOK
<1>6. JobIn(p)' /\ ToDo(p)' /\ todo' = [q \in Procs |-> todo'[q]] /\ \A q \in Procs : todo'[q] = todo[q]
  BY <1>1, <1>3 DEF JobIn, BInv, ToDo
<1>7. SameHolds(todo[p], todo'[p]) BY <1>6, SameHoldsSelf
<1> QED BY <1>2, <1>3, <1>5, <1>6, <1>7, BWorks

LEMMA BJobSelf ==
  ASSUME BInv, HInv, NEW h \in Harts, UNCHANGED <<lru, todo>>, BufType', Untaken,
         NEW p \in Procs, NEW f, Works(h, p, f, "rw") \/ Works(h, p, f, "wait"), JobGone(p) \/ JobSet(p, f)
  PROVE  BInv'
<1>1. PICK at \in {"rw", "wait"} : Works(h, p, f, at) OBVIOUS
<1>2. PICK g : g = f OBVIOUS
<1>3. g.at \in {"rw", "wait"} /\ g.i = f.i /\ (JobGone(p) \/ JobSet(p, g)) BY <1>1, <1>2, Zenon DEF Works
<1> QED BY <1>1, <1>3, BJob

LEMMA BDiskRw ==
  ASSUME BInv, HInv, NEW h \in Harts, DiskRw(h), UNCHANGED todo
  PROVE  BInv' /\ \E p \in Procs : \E f : Works(h, p, f, "rw") /\ (Publishes(p, f) \/ Retries(p, f))
<1>0. PICK p \in Procs : \E f : Works(h, p, f, "rw") BY WorksAt DEF DiskRw, JobAts
<1>1. PICK f : Works(h, p, f, "rw") BY <1>0
<1>2. /\ stack[Cur(h)] # <<>> /\ Head(stack[Cur(h)]).at \in JobAts /\ Cur(h) = p /\ Frame(h) = f
      /\ f.at = "rw" /\ f.at \in JobAts /\ f.i \in Bufs /\ panic = ""
  BY <1>1, Zenon DEF Works, JobAts
<1>3. panic' # "sched locks" BY <1>2, DiskRwKeeps, NotStuck, Zenon
<1>4. UNCHANGED lru BY DEF DiskRw
<1>5. ASSUME NEW idx, idx = Lowest3, Cardinality(disk.free) >= 3, Publish(h, f.i, f.write, idx)
      PROVE  BInv' /\ Publishes(p, f)
  <2>1. PICK g : g = NewJob(f, idx[1]) OBVIOUS
  <2>2. g.at = "wait" /\ g.i = f.i BY <2>1 DEF NewJob
  <2>3. Sleep(h, <<"buf", f.i>>, "vdisk", proc, <<g>>) BY <1>5, <2>1 DEF Publish, NewJob
  <2>4. (UNCHANGED stack /\ panic' = "sched locks") \/ JobSet(Cur(h), g)
    <3>1. g.at \in JobAts BY <2>2 DEF JobAts
    <3> QED BY <1>2, <2>3, <3>1, JobSleeps, Zenon
  <2>5. JobSet(p, g) BY <1>2, <1>3, <2>4, Zenon
  <2>6. buf' = [buf EXCEPT ![f.i].disk = TRUE] BY <1>5 DEF Publish
  <2>7. BufType' /\ Untaken BY <2>6, BufTouch DEF BInv
  <2>8. BInv' BY <1>1, <1>4, <2>2, <2>5, <2>7, BJob
  <2>9. Publishes(p, f) BY <1>5, <2>1, <2>5, Zenon DEF Publish, Publishes
  <2> QED BY <2>8, <2>9
<1>6. ASSUME NEW ps, Cardinality(disk.free) < 3, Sleep(h, <<"free">>, "vdisk", ps, <<f>>), UNCHANGED <<buf, disk, dev>>
      PROVE  BInv' /\ Retries(p, f)
  <2>1. (UNCHANGED stack /\ panic' = "sched locks") \/ JobSet(Cur(h), f) BY <1>2, <1>6, JobSleeps, Zenon
  <2>2. JobSet(p, f) BY <1>2, <1>3, <2>1, Zenon
  <2>3. BufType' /\ Untaken BY <1>6, BufSame DEF BInv
  <2>4. BInv' BY <1>1, <1>4, <2>2, <2>3, BJobSelf
  <2> QED BY <1>6, <2>2, <2>4 DEF Retries
<1> QED BY <1>1, <1>2, <1>5, <1>6, Zenon DEF DiskRw

LEMMA BRwDone ==
  ASSUME BInv, HInv, NEW h \in Harts, RwDone(h), UNCHANGED todo
  PROVE  BInv' /\ \E p \in Procs : \E f : Works(h, p, f, "wait") /\ (Keeps(p, f) \/ Frees(h, p, f) \/ FreesTwice(f))
<1>0. PICK p \in Procs : \E f : Works(h, p, f, "wait") BY WorksAt DEF RwDone, JobAts
<1>1. PICK f : Works(h, p, f, "wait") BY <1>0
<1>2. /\ stack[Cur(h)] # <<>> /\ Head(stack[Cur(h)]).at \in JobAts /\ Cur(h) = p /\ Frame(h) = f
      /\ f.at = "wait" /\ f.at \in JobAts /\ f.i \in Bufs /\ panic = ""
  BY <1>1, Zenon DEF Works, JobAts
<1>3. panic' # "sched locks" BY <1>2, RwDoneKeeps, NotStuck, Zenon
<1>4. UNCHANGED lru BY DEF RwDone
<1>5. CASE buf[f.i].disk /\ Sleep(h, <<"buf", f.i>>, "vdisk", proc, <<f>>) /\ UNCHANGED <<buf, disk>>
  <2>1. (UNCHANGED stack /\ panic' = "sched locks") \/ JobSet(Cur(h), f) BY <1>2, <1>5, JobSleeps, Zenon
  <2>2. JobSet(p, f) BY <1>2, <1>3, <2>1, Zenon
  <2>3. BufType' /\ Untaken BY <1>5, BufSame DEF BInv
  <2>4. BInv' BY <1>1, <1>4, <2>2, <2>3, BJobSelf
  <2> QED BY <1>1, <1>5, <2>2, <2>4 DEF Keeps
<1>6. CASE ~buf[f.i].disk /\ Range(disk.chain[f.head]) \cap disk.free # {} /\ Panic("free_desc") /\ UNCHANGED <<buf, disk>>
  <2>1. JobsSame BY <1>6, StackStays DEF Panic
  <2>2. BInv' BY <1>4, <1>6, <2>1, BSame
  <2> QED BY <1>1, <1>6, <2>2 DEF FreesTwice, Panic
<1>7. CASE /\ ~buf[f.i].disk /\ Range(disk.chain[f.head]) \cap disk.free = {}
           /\ disk' = [disk EXCEPT !.info[f.head] = None, !.chain[f.head] = <<>>,
                                   !.free = @ \cup Range(disk.chain[f.head])]
           /\ buf' = [buf EXCEPT ![f.i].valid = TRUE]
           /\ proc' = Woken(proc, <<"free">>)
           /\ Release(h, "vdisk", <<>>) /\ UNCHANGED <<ticks, panic>>
  <2>1. JobGone(p) BY <1>2, <1>7, JobEnds, Zenon DEF Release
  <2>2. BufType' /\ Untaken BY <1>7, BufTouch DEF BInv
  <2>3. BInv' BY <1>1, <1>4, <2>1, <2>2, BJobSelf
  <2> QED BY <1>1, <1>7, <2>1, <2>3, Zenon DEF Frees
<1> QED BY <1>2, <1>5, <1>6, <1>7, Zenon DEF RwDone

(* virtio_disk_intr() and the device.                                      *)
LEMMA BAck ==
  ASSUME BInv, HInv, NEW h \in Harts, Ack(h), UNCHANGED todo
  PROVE  BInv' /\ JobsSame /\ UNCHANGED <<buf, disk, proc>>
<1>1. UNCHANGED <<buf, disk, proc, lru>> /\ At(h, "ack") /\ Goto(h, <<Plain("drain")>>) BY DEF Ack
<1>2. stack[Cur(h)] # <<>> /\ Head(stack[Cur(h)]).at \notin JobAts BY <1>1, Zenon DEF At, Runs, JobAts
<1>3. PICK f : f = Plain("drain") OBVIOUS
<1>4. f.at \notin JobAts /\ IsList(<<f>>) /\ NoJob(<<f>>)
  BY <1>3, Single, BottomOne DEF Plain, JobAts
<1>5. JobsSame BY <1>1, <1>2, <1>3, <1>4, GotoSame, SMTT(30)
<1> QED BY <1>1, <1>5, BSame

LEMMA BDrain ==
  ASSUME BInv, HInv, NEW h \in Harts, Drain(h), UNCHANGED todo
  PROVE  /\ BInv' /\ JobsSame /\ UNCHANGED dev
         /\ \/ Returned(h)
            \/ /\ disk.usedIdx # dev.usedIdx /\ UNCHANGED plic
               /\ \E r : r = disk.info[dev.used[disk.usedIdx % NUM]] /\ (Stopped(r) \/ Drained(r))
<1>1. At(h, "drain") /\ UNCHANGED <<lru, dev>> BY DEF Drain
<1>2. stack[Cur(h)] # <<>> /\ Head(stack[Cur(h)]).at \notin JobAts BY <1>1, Zenon DEF At, Runs, JobAts
<1>3. CASE Returned(h)
  <2>1. Goto(h, <<>>) /\ UNCHANGED buf BY <1>3 DEF Returned, TrapReturn
  <2>2. JobsSame BY <1>2, <2>1, GotoSame, Empty, BottomOne
  <2>3. BInv' BY <1>1, <2>1, <2>2, BSame
  <2> QED BY <1>1, <1>3, <2>2, <2>3
<1>4. ASSUME NEW r, r = disk.info[dev.used[disk.usedIdx % NUM]], disk.usedIdx # dev.usedIdx, UNCHANGED plic,
             Stopped(r) \/ Drained(r)
      PROVE  BInv' /\ JobsSame
  <2>1. JobsSame BY <1>4, StackStays DEF Stopped, Drained, Panic
  <2>2. BufType' /\ Untaken
    <3>1. CASE UNCHANGED buf BY <3>1, BufSame DEF BInv
    <3>2. CASE buf' = [buf EXCEPT ![r.i].disk = FALSE] BY <3>2, BufTouch, Zenon DEF BInv
    <3> QED BY <1>4, <3>1, <3>2, Zenon DEF Stopped, Drained, Finished
  <2> QED BY <1>1, <2>1, <2>2, BQuiet
<1>5. \/ Returned(h)
      \/ /\ disk.usedIdx # dev.usedIdx /\ UNCHANGED plic
         /\ \E r : r = disk.info[dev.used[disk.usedIdx % NUM]] /\ (Stopped(r) \/ Drained(r))
  BY Zenon DEF Drain, Returned, Stopped, Drained
<1> QED BY <1>1, <1>3, <1>4, <1>5

LEMMA BDeviceDone ==
  ASSUME BInv, HInv, NEW d, DiskDone(d)
  PROVE  BInv' /\ JobsSame
<1>1. UNCHANGED <<stack, lru, todo>> /\ (UNCHANGED buf \/ \E i, v : buf' = [buf EXCEPT ![i].data = v])
  <2>1. PICK r : buf' = IF r.write THEN buf ELSE [buf EXCEPT ![r.i].data = dev.blocks[buf[r.i].blk]]
    BY Zenon DEF DiskDone, DeviceDone
  <2>2. CASE r.write BY <2>1, <2>2, Zenon DEF DiskDone, DeviceDone
  <2>3. CASE ~r.write BY <2>1, <2>3, Zenon DEF DiskDone, DeviceDone
  <2> QED BY <2>2, <2>3
<1>2. JobsSame BY <1>1, StackStays
<1>3. BufType' /\ Untaken
  <2>1. CASE UNCHANGED buf BY <2>1, BufSame DEF BInv
  <2>2. CASE \E i, v : buf' = [buf EXCEPT ![i].data = v] BY <2>2, BufTouch DEF BInv
  <2> QED BY <1>1, <2>1, <2>2
<1> QED BY <1>1, <1>2, <1>3, BQuiet

-----------------------------------------------------------------------------
(* A kernel that panicked does nothing more.                               *)
LEMMA Running == ASSUME Next, panic # "" PROVE UNCHANGED vars
<1>1. \A h \in Harts : ~HartStep(h)
  BY Zenon DEF HartStep, Spin, Reacquire, LoopTop, Tick, Preempt, ClockIntr, TrapDone, SysSleep, Pick, Trap, At, Runs
<1>2. \A h \in Harts : ~CacheStep(h)
  BY Zenon DEF CacheStep, AcquireSleep, Deref, DiskRw, RwDone, Ack, Drain, At, Runs
<1>3. \A h \in Harts : ~ConsoleStep(h) /\ ~UartDone(h)
  BY Zenon DEF ConsoleStep, ConsoleRead, UartPutc, UartIntr, KillLine, Backspace, Character, UartDone, UartIntrStart, At, Runs
<1>4. \A h \in Harts : ~Calls(h)
  BY Zenon DEF Calls, CallBread, CallModify, CallBwrite, CallBrelse, CallPin, CallRead, CallWrite, CallSleep,
         CallKill, CallReturn, Exit, Ready
<1>5. \A h \in Harts : ~External(h) BY Zenon DEF External, Trap
<1>6. ~KeyPress /\ ~Transmitted /\ \A d \in Descs : ~DiskDone(d)
  BY Zenon DEF KeyPress, Transmitted, DiskDone, DeviceDone
<1> QED BY <1>1, <1>2, <1>3, <1>4, <1>5, <1>6, Zenon DEF Next, Idling

LEMMA BNext ==
  ASSUME HInv, BInv, [Next]_vars
  PROVE  BInv' \/ panic' = "bget"
<1>1. CASE UNCHANGED vars
  <2>1. UNCHANGED <<stack, buf, lru, todo>> BY <1>1 DEF vars
  <2> QED BY <2>1, StackStays, BSame
<1>2. ASSUME NEW h \in Harts, HartStep(h), UNCHANGED <<driver, todo>> PROVE BInv'
  <2>1. UNCHANGED <<buf, lru, todo>> BY <1>2 DEF driver
  <2> QED BY <1>2, <2>1, HartStepSame, BSame
<1>3. ASSUME NEW h \in Harts, CacheStep(h), UNCHANGED todo PROVE BInv'
  <2>1. CASE AcquireSleep(h) BY <1>3, <2>1, BAcquireSleep
  <2>2. CASE Deref(h) BY <1>3, <2>2, BDeref
  <2>3. CASE DiskRw(h) BY <1>3, <2>3, BDiskRw
  <2>4. CASE RwDone(h) BY <1>3, <2>4, BRwDone
  <2>5. CASE Ack(h) BY <1>3, <2>5, BAck
  <2>6. CASE Drain(h) BY <1>3, <2>6, BDrain
  <2> QED BY <1>3, <2>1, <2>2, <2>3, <2>4, <2>5, <2>6 DEF CacheStep
<1>4. ASSUME NEW h \in Harts, ConsoleStep(h) \/ UartDone(h), UNCHANGED <<buf, lru, todo>> PROVE BInv'
  BY <1>4, ConsoleSame, BSame
<1>5. ASSUME NEW h \in Harts, Calls(h) PROVE BInv' \/ panic' = "bget"
  <2>1. CASE CallBread(h) BY <1>5, <2>1, BCallBread
  <2>2. CASE CallModify(h) BY <1>5, <2>2, BCallModify
  <2>3. CASE CallBwrite(h) BY <1>5, <2>3, BCallBwrite
  <2>4. CASE CallBrelse(h) BY <1>5, <2>4, BCallBrelse
  <2>5. CASE CallPin(h) BY <1>5, <2>5, BCallPin
  <2>6. CASE CallRead(h) \/ CallWrite(h) \/ CallSleep(h) \/ CallKill(h) \/ CallReturn(h)
    BY <1>5, <2>6, BCallPlain
  <2>7. CASE Exit(h) BY <1>5, <2>7, BExit
  <2> QED BY <1>5, <2>1, <2>2, <2>3, <2>4, <2>5, <2>6, <2>7 DEF Calls
<1>6. ASSUME NEW h \in Harts, External(h) PROVE BInv'
  <2>1. UNCHANGED <<buf, lru, todo>> BY <1>6 DEF External
  <2> QED BY <1>6, <2>1, ExternalSame, BSame
<1>7. ASSUME NEW h \in Harts, UartDone(h) PROVE BInv'
  <2>1. UNCHANGED <<buf, lru, todo>> BY <1>7 DEF UartDone
  <2> QED BY <1>4, <1>7, <2>1
<1>8. CASE KeyPress \/ Transmitted
  <2>1. UNCHANGED <<stack, buf, lru, todo>> BY <1>8, Zenon DEF KeyPress, Transmitted
  <2> QED BY <2>1, StackStays, BSame
<1>9. ASSUME NEW d, DiskDone(d) PROVE BInv' BY <1>9, BDeviceDone
<1> QED BY <1>1, <1>2, <1>3, <1>4, <1>5, <1>6, <1>7, <1>8, <1>9 DEF Next, Idling

-----------------------------------------------------------------------------
LEMMA FirstFrames ==
  ASSUME Init
  PROVE  \A p \in Procs : stack[p] = <<[at |-> "resume", intena |-> TRUE]>>
<1>1. PICK online, n : HartsInit(online, n) /\ online \subseteq Harts
  BY WorkloadsAssumption, Zenon DEF Init
<1>2. Procs \cap Harts = {} BY HartsAssumption
<1> DEFINE F(x) == CASE x \in Procs -> <<[at |-> "resume", intena |-> TRUE]>>
                     [] x \in online -> <<>>
                     [] OTHER -> <<Plain("off")>>
<1>3. stack = [x \in Procs \cup Harts |-> F(x)] BY <1>1, Zenon DEF HartsInit
<1>4. \A p \in Procs : F(p) = <<[at |-> "resume", intena |-> TRUE]>> BY <1>1, <1>2
<1> HIDE DEF F
<1> QED BY <1>3, <1>4, Zenon

LEMMA FirstList == ASSUME Init PROVE lru \in [1..NBUF -> Bufs] /\ LruOK
<1>1. lru = [k \in Bufs |-> NBUF - k + 1] BY DEF Init, Binit
<1>2. NBUF \in Nat BY DiskCacheAssumption
<1>3. \A i \in 1..NBUF : NBUF - i + 1 \in 1..NBUF /\ NBUF - (NBUF - i + 1) + 1 = i BY <1>2
<1>4. \A i \in Bufs : lru[NBUF - i + 1] = i BY <1>1, <1>3 DEF Bufs
<1> QED BY <1>1, <1>3, <1>4 DEF LruOK, Bufs

LEMMA InitBuffers == ASSUME Init PROVE BInv
<1>1. PICK wl \in Workloads : HartsInit(wl.harts, wl.preemptions) /\ todo = wl.calls BY DEF Init
<1>2. /\ todo = [p \in Procs |-> todo[p]]
      /\ \A p \in Procs : IsList(todo[p]) /\ Orderly(todo[p]) /\ \A b \in Blocks : ~Holds(todo[p], b) /\ ~Pins(todo[p], b)
  <2>1. wl.calls = [p \in Procs |-> wl.calls[p]] BY WorkloadsAssumption, Zenon
  <2>2. ASSUME NEW p \in Procs PROVE wl.calls[p] \in Seq(Range(wl.calls[p])) /\ Disciplined(wl.calls[p])
    BY WorkloadsAssumption, Zenon
  <2>3. \A p \in Procs : IsList(wl.calls[p]) /\ Orderly(wl.calls[p])
    BY <2>2, Zenon DEF IsList, Orderly, Disciplined
  <2>4. \A p \in Procs : \A b \in Blocks : ~Holds(wl.calls[p], b) /\ ~Pins(wl.calls[p], b)
    BY <2>2 DEF Disciplined
  <2> QED BY <1>1, <2>1, <2>3, <2>4
<1>3. \A p \in Procs : \A b : ~Wanted(p, b) BY <1>2, HeldBlocks DEF Wanted
<1>4. \A p \in Procs : ~IsJob(stack[p])
  <2>1. ASSUME NEW p \in Procs PROVE ~IsJob(stack[p])
    <3>1. PICK f : f = [at |-> "resume", intena |-> TRUE] /\ stack[p] = <<f>> BY FirstFrames
    <3>2. f.at \notin JobAts BY <3>1 DEF JobAts
    <3> QED BY <3>1, <3>2, BottomOne
  <2> QED BY <2>1, Zenon
<1>5. /\ buf = [i \in Bufs |-> buf[i]]
      /\ \A i \in Bufs : buf[i] = [blk |-> None, valid |-> FALSE, disk |-> FALSE, refcnt |-> 0, data |-> 0, owner |-> None]
  BY DEF Init, Binit
<1>6. \A i \in Bufs : buf[i].blk = None /\ buf[i].refcnt = 0 /\ buf[i].owner = None BY <1>5
<1>7. BufType
  <2>1. ASSUME NEW i \in Bufs PROVE BufRec(buf[i])
    <3>1. PICK r : r = buf[i] /\ r = [blk |-> None, valid |-> FALSE, disk |-> FALSE, refcnt |-> 0, data |-> 0, owner |-> None]
      BY <1>5
    <3>2. BufRec(r) BY <3>1 DEF BufRec, Rec
    <3> QED BY <3>1, <3>2
  <2> QED BY <1>5, <2>1 DEF BufType
<1>8. lru \in [1..NBUF -> Bufs] BY FirstList
<1>9. \A p \in Procs, i \in Bufs : PairOK(p, i) /\ ~Uses(p, i) /\ ~PinnedBy(p, i)
  <2>1. ASSUME NEW p \in Procs, NEW i \in Bufs PROVE PairOK(p, i) /\ ~Uses(p, i) /\ ~PinnedBy(p, i)
    <3>1. buf[i].owner # p BY <1>6, HartsAssumption
    <3>2. /\ ~Takes(p, i) /\ ~Drops(p, i) /\ ~Starts(p, i) /\ \A d : ~Waits(p, i, d)
          /\ ~Owns(p, i) /\ ~Uses(p, i)
      BY <1>4, <3>1, NoJobs
    <3> QED BY <1>3, <3>2 DEF PairOK, PinnedBy, Wanted
  <2> QED BY <2>1
<1>10. OneBuffer BY <1>6 DEF OneBuffer
<1>11. ASSUME NEW i \in Bufs PROVE Counts(i)
  <2>1. Refs(i) = {} /\ Pinners(i) = {} BY <1>9 DEF Refs, Pinners
  <2>2. Cardinality({}) = 0 BY FS_EmptySet
  <2> QED BY <1>6, <2>1, <2>2 DEF Counts
<1> QED BY <1>2, <1>3, <1>4, <1>7, <1>8, <1>9, <1>10, <1>11 DEF BInv, ToDo, JobIn

(* bread(), brelse(), bpin() and bunpin() of bio.c keep the cache right for  *)
(* any number of harts, processes and buffers: refcnt is the number of those *)
(* that have the buffer, want it or have it pinned, one process has it, and *)
(* no block has two buffers.  Processes give back and unpin what they took. *)
THEOREM BuffersAlwaysCounted == Spec => []BuffersCounted
<1>1. Init => BuffersCounted BY InitBuffers, Zenon DEF BuffersCounted
<1>2. HInv /\ BuffersCounted /\ [Next]_vars => BuffersCounted'
  <2> SUFFICES ASSUME HInv, BuffersCounted, [Next]_vars PROVE BuffersCounted'
    OBVIOUS
  <2>1. CASE panic = "" BY <2>1, BNext, Zenon DEF BuffersCounted
  <2>2. CASE panic # "" BY <2>2, Running, Zenon DEF BuffersCounted, vars
  <2> QED BY <2>1, <2>2, Zenon
<1> QED BY <1>1, <1>2, StacksMatch, PTL DEF Spec

-----------------------------------------------------------------------------
LEMMA ModIs ==
  ASSUME NEW n \in Nat \ {0}, NEW x \in Nat
  PROVE  /\ x < n => x % n = x
         /\ n <= x /\ x < 2 * n => x % n = x - n
         /\ 2 * n <= x /\ x < 3 * n => x % n = x - 2 * n
         /\ 3 * n <= x /\ x < 4 * n => x % n = x - 3 * n
         /\ x % n \in 0..(n - 1)
<1>1. x < n => x % n = x OBVIOUS
<1>2. n <= x /\ x < 2 * n => x % n = x - n OBVIOUS
<1>3. 2 * n <= x /\ x < 3 * n => x % n = x - 2 * n OBVIOUS
<1>4. 3 * n <= x /\ x < 4 * n => x % n = x - 3 * n OBVIOUS
<1>5. x % n \in 0..(n - 1) OBVIOUS
<1> QED BY <1>1, <1>2, <1>3, <1>4, <1>5

LEMMA AheadIs ==
  ASSUME NEW a \in Idxs, NEW b \in Idxs
  PROVE  /\ Ahead(a, b) \in Nat /\ Ahead(a, b) < IdxMod /\ IdxMod \in Nat /\ a \in Nat /\ b \in Nat /\ a < IdxMod /\ b < IdxMod
         /\ a <= b => Ahead(a, b) = b - a
         /\ a > b => Ahead(a, b) = b + IdxMod - a
<1>1. PICK n \in Nat \ {0} : n = IdxMod BY DiskCacheAssumption DEF IdxMod
<1>2. a \in Nat /\ b \in Nat /\ a < n /\ b < n BY <1>1 DEF Idxs
<1>3. PICK x \in Nat : x = b + n - a /\ x < 2 * n /\ (a <= b => n <= x) /\ (a > b => x < n) BY <1>2
<1>4. Ahead(a, b) = x % n BY <1>1, <1>3 DEF Ahead
<1>5. CASE a <= b
  <2>1. x % n = x - n BY <1>3, <1>5, ModIs
  <2> QED BY <1>1, <1>2, <1>3, <1>4, <1>5, <2>1
<1>6. CASE a > b
  <2>1. x % n = x BY <1>3, <1>6, ModIs
  <2> QED BY <1>1, <1>2, <1>3, <1>4, <1>6, <2>1
<1> QED BY <1>2, <1>5, <1>6

LEMMA AfterIs ==
  ASSUME NEW a \in Idxs
  PROVE  /\ After(a) \in Idxs /\ a \in Nat /\ IdxMod \in Nat /\ a < IdxMod
         /\ After(a) = a + 1 \/ (After(a) = 0 /\ a + 1 = IdxMod)
<1>1. PICK n \in Nat \ {0} : n = IdxMod BY DiskCacheAssumption DEF IdxMod
<1>2. a \in Nat /\ a < n /\ a + 1 \in Nat BY <1>1 DEF Idxs
<1>3. CASE a + 1 < n
  <2>1. (a + 1) % n = a + 1 BY <1>2, <1>3, ModIs
  <2> QED BY <1>1, <1>2, <1>3, <2>1 DEF After, Idxs
<1>4. CASE a + 1 = n
  <2>1. (a + 1) % n = 0
    <3>1. n % n = n - n
      <4>1. n \in Nat /\ n <= n /\ n < 2 * n OBVIOUS
      <4> QED BY <4>1, ModIs
    <3> QED BY <1>4, <3>1
  <2> QED BY <1>1, <1>2, <1>4, <2>1 DEF After, Idxs
<1> QED BY <1>2, <1>3, <1>4

LEMMA UsedSlotIs ==
  ASSUME NEW a \in Idxs, NEW k \in Nat, k <= NUM
  PROVE  \E q \in {0, 1, 2} : UsedSlot(a, k) = a + k - q * NUM /\ UsedSlot(a, k) \in Descs
<1>1. PICK n \in Nat \ {0} : n = NUM /\ IdxMod = n + n BY DiskCacheAssumption DEF IdxMod
<1>2. PICK x \in Nat : x = a + k /\ x < 3 * n BY <1>1 DEF Idxs
<1>3. UsedSlot(a, k) = x % n /\ x % n \in 0..(n - 1) BY <1>1, <1>2, ModIs DEF UsedSlot
<1>4. x % n = x \/ x % n = x - n \/ x % n = x - 2 * n
  <2>1. x < n \/ (n <= x /\ x < 2 * n) \/ (2 * n <= x /\ x < 3 * n) BY <1>2
  <2> QED BY <2>1, ModIs
<1>5. PICK q \in {0, 1, 2} : x % n = x - q * n
  <2>1. x - 0 * n = x /\ x - 1 * n = x - n BY <1>2
  <2> QED BY <1>4, <2>1
<1>6. UsedSlot(a, k) = a + k - q * NUM /\ UsedSlot(a, k) \in Descs
  <2>1. UsedSlot(a, k) = x - q * NUM BY <1>1, <1>3, <1>5
  <2>2. UsedSlot(a, k) \in Descs BY <1>1, <1>3 DEF Descs
  <2>3. x = a + k BY <1>2
  <2>4. PICK m \in Nat : m = q * NUM BY <1>1
  <2>5. UsedSlot(a, k) = a + k - m BY <2>1, <2>3, <2>4 DEF Idxs
  <2> QED BY <2>2, <2>4, <2>5
<1> QED BY <1>6

LEMMA PushUsed ==
  ASSUME NEW a \in Idxs, NEW w \in Idxs, Ahead(a, w) < NUM
  PROVE  /\ Ahead(a, After(w)) = Ahead(a, w) + 1 /\ Ahead(a, w) \in Nat
         /\ UsedSlot(a, Ahead(a, w)) = w % NUM /\ w % NUM \in Descs
         /\ \A k \in Nat : k < Ahead(a, w) => UsedSlot(a, k) # w % NUM /\ UsedSlot(a, k) \in Descs
<1>1. PICK n \in Nat \ {0} : n = NUM /\ IdxMod = n + n BY DiskCacheAssumption DEF IdxMod
<1>2. PICK d \in Nat : /\ d = Ahead(a, w) /\ a \in Nat /\ w \in Nat /\ a < n + n /\ w < n + n /\ d < n
                       /\ ((a <= w /\ d = w - a) \/ (a > w /\ d = w + (n + n) - a))
  <2>1. /\ Ahead(a, w) \in Nat /\ a \in Nat /\ w \in Nat /\ a < n + n /\ w < n + n
        /\ a <= w => Ahead(a, w) = w - a
        /\ a > w => Ahead(a, w) = w + (n + n) - a
    BY <1>1, AheadIs
  <2> QED BY <1>1, <2>1
<1>3. PICK u \in Idxs : u = After(w) /\ (u = w + 1 \/ (u = 0 /\ w + 1 = n + n)) BY <1>1, AfterIs
<1>4. Ahead(a, u) = d + 1
  <2>1. /\ Ahead(a, u) \in Nat /\ u \in Nat /\ u < n + n
        /\ a <= u => Ahead(a, u) = u - a
        /\ a > u => Ahead(a, u) = u + (n + n) - a
    BY <1>1, AheadIs
  <2>2. CASE u = w + 1 BY <1>1, <1>2, <2>1, <2>2
  <2>3. CASE u = 0 /\ w + 1 = n + n BY <1>1, <1>2, <2>1, <2>3
  <2> QED BY <1>3, <2>2, <2>3
<1>5. PICK z \in Nat : z = w % NUM /\ z \in 0..(n - 1) /\ (z = w \/ z = w - n)
  <2>1. w % n \in 0..(n - 1) /\ (w % n = w \/ w % n = w - n) BY <1>1, <1>2, ModIs
  <2> QED BY <1>1, <2>1
<1>6. UsedSlot(a, d) = z
  <2>1. PICK q \in {0, 1, 2} : UsedSlot(a, d) = a + d - q * n /\ UsedSlot(a, d) \in 0..(n - 1)
    BY <1>1, <1>2, UsedSlotIs DEF Descs
  <2>2. q = 0 \/ q = 1 \/ q = 2 OBVIOUS
  <2> QED BY <1>2, <1>5, <2>1, <2>2
<1>7. ASSUME NEW k \in Nat, k < d PROVE UsedSlot(a, k) # z /\ UsedSlot(a, k) \in Descs
  <2>1. PICK q \in {0, 1, 2} : UsedSlot(a, k) = a + k - q * n /\ UsedSlot(a, k) \in 0..(n - 1) /\ UsedSlot(a, k) \in Descs
    BY <1>1, <1>2, <1>7, UsedSlotIs DEF Descs
  <2>2. q = 0 \/ q = 1 \/ q = 2 OBVIOUS
  <2> QED BY <1>2, <1>5, <1>7, <2>1, <2>2
<1> QED BY <1>1, <1>2, <1>3, <1>4, <1>5, <1>6, <1>7 DEF Descs

LEMMA PopUsed ==
  ASSUME NEW a \in Idxs, NEW w \in Idxs, a # w
  PROVE  /\ Ahead(a, w) = Ahead(After(a), w) + 1 /\ Ahead(After(a), w) \in Nat
         /\ \A k \in Nat : k < NUM => UsedSlot(After(a), k) = UsedSlot(a, k + 1)
         /\ UsedSlot(a, 0) = a % NUM
<1>1. PICK n \in Nat \ {0} : n = NUM /\ IdxMod = n + n BY DiskCacheAssumption DEF IdxMod
<1>2. PICK u \in Idxs : u = After(a) /\ (u = a + 1 \/ (u = 0 /\ a + 1 = n + n)) BY <1>1, AfterIs
<1>3. /\ Ahead(a, w) \in Nat /\ a \in Nat /\ w \in Nat /\ a < n + n /\ w < n + n
      /\ a <= w => Ahead(a, w) = w - a
      /\ a > w => Ahead(a, w) = w + (n + n) - a
  BY <1>1, AheadIs
<1>4. /\ Ahead(u, w) \in Nat /\ u \in Nat /\ u < n + n
      /\ u <= w => Ahead(u, w) = w - u
      /\ u > w => Ahead(u, w) = w + (n + n) - u
  BY <1>1, AheadIs
<1>5. Ahead(a, w) = Ahead(u, w) + 1 BY <1>1, <1>2, <1>3, <1>4
<1>6. ASSUME NEW k \in Nat, k < NUM PROVE UsedSlot(u, k) = UsedSlot(a, k + 1)
  <2>1. PICK p \in {0, 1, 2} : UsedSlot(u, k) = u + k - p * n /\ UsedSlot(u, k) \in 0..(n - 1)
    BY <1>1, <1>6, UsedSlotIs DEF Descs
  <2>2. PICK q \in {0, 1, 2} : UsedSlot(a, k + 1) = a + (k + 1) - q * n /\ UsedSlot(a, k + 1) \in 0..(n - 1)
    BY <1>1, <1>6, UsedSlotIs DEF Descs
  <2>3. (q = 0 \/ q = 1 \/ q = 2) /\ (p = 0 \/ p = 1 \/ p = 2) OBVIOUS
  <2> QED BY <1>2, <1>3, <1>4, <2>1, <2>2, <2>3
<1>7. UsedSlot(a, 0) = a % NUM
  <2>1. a + 0 = a BY <1>3
  <2> QED BY <2>1 DEF UsedSlot
<1> QED BY <1>2, <1>4, <1>5, <1>6, <1>7

LEMMA NoneUsed ==
  ASSUME NEW a \in Idxs, NEW w \in Idxs
  PROVE  Ahead(a, w) = 0 <=> a = w
<1>1. /\ Ahead(a, w) \in Nat /\ a \in Nat /\ w \in Nat /\ a < IdxMod /\ w < IdxMod /\ IdxMod \in Nat
      /\ a <= w => Ahead(a, w) = w - a
      /\ a > w => Ahead(a, w) = w + IdxMod - a
  BY AheadIs
<1> QED BY <1>1

-----------------------------------------------------------------------------
LEMMA DInvType == ASSUME DInv PROVE disk.usedIdx \in Idxs /\ dev.usedIdx \in Idxs /\ UsedCount \in Nat
<1>1. disk.usedIdx \in Idxs /\ dev.usedIdx \in Idxs BY DEF DInv, DiskRec, DevRec
<1> QED BY <1>1, AheadIs DEF UsedCount

LEMMA DSame ==
  ASSUME DInv, WaitsSame, FlagsSame, UNCHANGED disk, DevRec',
         dev'.told = dev.told, dev'.used = dev.used, dev'.usedIdx = dev.usedIdx
  PROVE  DInv'
<1>1. UsedCount' = UsedCount /\ (\A k : UsedAt(k)' = UsedAt(k)) /\ (\A d : ChainOf(d)' = ChainOf(d))
  BY DEF UsedCount, UsedAt, ChainOf
<1>2. \A d : (IsUsed(d)' <=> IsUsed(d)) /\ (InFlight(d)' <=> InFlight(d))
  BY <1>1 DEF IsUsed, InFlight
<1>3. \A i, d : Asked(i, d)' <=> Asked(i, d) BY <1>1 DEF Asked
<1>4. WaitOK'
  <2>1. \A p \in Procs, i \in Bufs : \A d : Waits(p, i, d)' => Asked(i, d)' /\ (buf'[i].disk => InFlight(d)')
    BY <1>2, <1>3 DEF DInv, WaitOK, WaitsSame, FlagsSame
  <2>2. \A p, q \in Procs, i, j \in Bufs : \A d, e : Alone(p, q, i, j, d, e)'
    BY <1>1 DEF DInv, WaitOK, WaitsSame, Alone
  <2> QED BY <2>1, <2>2 DEF WaitOK
<1>5. FlyOK' BY <1>2 DEF DInv, FlyOK, WaitsSame, FlagsSame
<1>6. UsedOK' BY <1>1, <1>2 DEF DInv, UsedOK
<1> QED BY <1>4, <1>5, <1>6 DEF DInv, DiskRec

LEMMA DStays ==
  ASSUME DInv, WaitsSame, FlagsSame, UNCHANGED <<disk, dev>>
  PROVE  DInv'
<1>1. DevRec' BY DEF DInv, DevRec
<1> QED BY <1>1, DSame

LEMMA WaitsKept == ASSUME \A q \in Procs : JobKept(q) PROVE WaitsSame
BY JobKeptIs DEF WaitsSame

LEMMA WaitsJobs == ASSUME JobsSame PROVE WaitsSame
BY SameKept, WaitsKept

(* The work of a process that does not wait for a request.                 *)
LEMMA WaitsElsewhere ==
  ASSUME NEW p \in Procs, \A i \in Bufs : \A d : ~Waits(p, i, d),
         JobGone(p) \/ \E f : JobSet(p, f) /\ f.at # "wait"
  PROVE  WaitsSame
<1>1. \A q \in Procs : q # p => JobKept(q) BY JobSetIs, JobGoneIs
<1>2. \A i \in Bufs : \A d : ~Waits(p, i, d)' BY JobSetIs, JobGoneIs
<1> QED BY <1>1, <1>2, JobKeptIs DEF WaitsSame

(* One process waits for one request, and nobody else for that buffer or   *)
(* that request.                                                           *)
LEMMA WaiterIs ==
  ASSUME BInv, DInv, NEW p \in Procs, NEW i \in Bufs, NEW d, Waits(p, i, d)
  PROVE  \A q \in Procs, j \in Bufs : \A e : Waits(q, j, e) =>
            /\ buf[j].owner = q
            /\ p = q => i = j /\ d = e
            /\ p # q => i # j /\ d # e /\ ChainOf(d) \cap ChainOf(e) = {}
<1> SUFFICES ASSUME NEW q \in Procs, NEW j \in Bufs, NEW e, Waits(q, j, e)
             PROVE  /\ buf[j].owner = q
                    /\ p = q => i = j /\ d = e
                    /\ p # q => i # j /\ d # e /\ ChainOf(d) \cap ChainOf(e) = {}
  OBVIOUS
<1>1. buf[j].owner = q /\ buf[i].owner = p BY DEF BInv, PairOK
<1>2. p = q => i = j /\ d = e BY DEF Waits
<1>3. p # q => ChainOf(d) \cap ChainOf(e) = {} BY DEF DInv, WaitOK, Alone
<1>4. d \in ChainOf(d) /\ e \in ChainOf(e) BY DEF DInv, WaitOK, Asked
<1> QED BY <1>1, <1>2, <1>3, <1>4

-----------------------------------------------------------------------------
LEMMA LeastOf ==
  ASSUME NEW S, S \subseteq Nat, IsFiniteSet(S), NEW T, T \subseteq S, IsFiniteSet(T), Cardinality(T) < Cardinality(S),
         \A e \in T, d \in S \ T : e < d
  PROVE  \E d \in S \ T : Rank(S, d) = T
<1>1. S \ T # {}
  <2>1. S = T => Cardinality(T) = Cardinality(S) /\ Cardinality(S) \in Nat BY FS_CardinalityType
  <2>2. S # T BY <2>1
  <2> QED BY <2>2
<1>2. PICK d \in S \ T : \A e \in S \ T : d <= e
  <2>1. PICK R : R = S \ T OBVIOUS
  <2>2. R \subseteq Nat /\ R # {} BY <1>1, <2>1
  <2>3. \E d \in R : \A e \in R : d <= e BY <2>2, LeastNat
  <2> QED BY <2>1, <2>3
<1>3. \A e \in S : e < d <=> e \in T BY <1>2
<1>4. Rank(S, d) = T BY <1>3 DEF Rank
<1> QED BY <1>2, <1>4

LEMMA ThreeRanks ==
  ASSUME NEW S, S \subseteq Nat, IsFiniteSet(S), Cardinality(S) >= 3
  PROVE  \A k \in 1..3 : \E d \in S : Cardinality(Rank(S, d)) = k - 1
<1>0. Cardinality(S) \in Nat BY FS_CardinalityType
<1>1. IsFiniteSet({}) /\ Cardinality({}) = 0 BY FS_EmptySet
<1>2. PICK a \in S : Rank(S, a) = {}
  <2>1. PICK T : T = {} OBVIOUS
  <2>2. T \subseteq S /\ IsFiniteSet(T) /\ Cardinality(T) < Cardinality(S) /\ \A e \in T, d \in S \ T : e < d
    BY <1>0, <1>1, <2>1
  <2>3. \E d \in S \ T : Rank(S, d) = T BY <2>2, LeastOf
  <2> QED BY <2>1, <2>3
<1>3. IsFiniteSet({a}) /\ Cardinality({a}) = 1 BY FS_Singleton
<1>4. PICK b \in S : b # a /\ Rank(S, b) = {a}
  <2>1. \A d \in S \ {a} : a < d
    <3>1. \A d \in S : ~(d < a) BY <1>2 DEF Rank
    <3> QED BY <3>1
  <2>2. \E d \in S \ {a} : Rank(S, d) = {a}
    <3>1. PICK T : T = {a} OBVIOUS
    <3>2. /\ T \subseteq S /\ IsFiniteSet(T) /\ Cardinality(T) < Cardinality(S)
          /\ \A e \in T, d \in S \ T : e < d
      BY <1>0, <1>3, <2>1, <3>1
    <3>3. \E d \in S \ T : Rank(S, d) = T BY <3>2, LeastOf
    <3> QED BY <3>1, <3>3
  <2> QED BY <2>2
<1>5. IsFiniteSet({a, b}) /\ Cardinality({a, b}) = 2
  <2>1. PICK T : T = {a} OBVIOUS
  <2>2. IsFiniteSet(T) /\ Cardinality(T) = 1 /\ b \notin T /\ {a, b} = T \cup {b}
    BY <1>3, <1>4, <2>1
  <2>3. IsFiniteSet(T \cup {b}) /\ Cardinality(T \cup {b}) = 2 BY <2>2, FS_AddElement
  <2> QED BY <2>2, <2>3
<1>6. PICK c \in S : Rank(S, c) = {a, b}
  <2>1. \A d \in S \ {a, b} : a < d /\ b < d
    <3>1. \A d \in S : ~(d < a) /\ (d < b => d = a) BY <1>2, <1>4 DEF Rank
    <3> QED BY <3>1
  <2>2. \E d \in S \ {a, b} : Rank(S, d) = {a, b}
    <3>1. PICK T : T = {a, b} OBVIOUS
    <3>2. /\ T \subseteq S /\ IsFiniteSet(T) /\ Cardinality(T) < Cardinality(S)
          /\ \A e \in T, d \in S \ T : e < d
      BY <1>0, <1>5, <2>1, <3>1
    <3>3. \E d \in S \ T : Rank(S, d) = T BY <3>2, LeastOf
    <3> QED BY <3>1, <3>3
  <2> QED BY <2>2
<1>7. ASSUME NEW k \in 1..3 PROVE \E d \in S : Cardinality(Rank(S, d)) = k - 1
  <2>1. k = 1 \/ k = 2 \/ k = 3 OBVIOUS
  <2>2. CASE k = 1 BY <1>1, <1>2, <2>2
  <2>3. CASE k = 2 BY <1>3, <1>4, <2>3
  <2>4. CASE k = 3 BY <1>5, <1>6, <2>4
  <2> QED BY <2>1, <2>2, <2>3, <2>4
<1> QED BY <1>7

LEMMA DescsFinite == ASSUME NEW S, S \subseteq Descs PROVE IsFiniteSet(S) /\ S \subseteq Nat /\ Cardinality(S) \in Nat
<1>1. IsFiniteSet(Descs) BY DiskCacheAssumption, FS_Interval DEF Descs
<1>2. IsFiniteSet(S) BY <1>1, FS_Subset
<1>3. Cardinality(S) \in Nat BY <1>2, FS_CardinalityType
<1>4. S \subseteq Nat BY DiskCacheAssumption DEF Descs
<1> QED BY <1>2, <1>3, <1>4

LEMMA LowestFree ==
  ASSUME disk.free \subseteq Descs, Cardinality(disk.free) >= 3, NEW idx, idx = Lowest3
  PROVE  idx[1] \in disk.free /\ idx[1] \in Range(idx) /\ Range(idx) \subseteq disk.free
<1>1. \A k \in 1..3 : \E d \in disk.free : Cardinality({e \in disk.free : e < d}) = k - 1
  <2>1. PICK S : S = disk.free OBVIOUS
  <2>2. IsFiniteSet(S) /\ S \subseteq Nat /\ Cardinality(S) >= 3 BY <2>1, DescsFinite
  <2>3. \A k \in 1..3 : \E d \in S : Cardinality(Rank(S, d)) = k - 1 BY <2>2, ThreeRanks
  <2> QED BY <2>1, <2>3 DEF Rank
<1>2. idx = [k \in 1..3 |-> CHOOSE d \in disk.free : Cardinality({e \in disk.free : e < d}) = k - 1]
  BY DEF Lowest3
<1>3. \A k \in 1..3 : idx[k] \in disk.free BY <1>1, <1>2
<1>4. DOMAIN idx = 1..3 BY <1>2
<1> QED BY <1>3, <1>4 DEF Range

-----------------------------------------------------------------------------
(* What the steps of the driver leave of its record.                       *)
LEMMA SetPublished ==
  ASSUME DiskRec, NEW t \in Descs, NEW c, NEW r, NEW S, NEW v, NEW w,
         disk' = [disk EXCEPT !.free = @ \ S, !.chain[t] = c, !.info[t] = r, !.avail[v] = t, !.availIdx = w]
  PROVE  /\ DiskRec' /\ disk'.free = disk.free \ S /\ disk'.usedIdx = disk.usedIdx
         /\ disk'.chain[t] = c /\ disk'.info[t] = r
         /\ \A e \in Descs : e # t => disk'.chain[e] = disk.chain[e] /\ disk'.info[e] = disk.info[e]
<1>1. PICK F, C, I, A, x, u : /\ disk = [free |-> F, chain |-> C, info |-> I, avail |-> A, availIdx |-> x, usedIdx |-> u]
                              /\ F \subseteq Descs /\ C = [d \in Descs |-> C[d]] /\ I = [d \in Descs |-> I[d]] /\ u \in Idxs
  BY DEF DiskRec
<1>2. PICK C2, I2, A2, F2 : F2 = F \ S /\ C2 = [C EXCEPT ![t] = c] /\ I2 = [I EXCEPT ![t] = r] /\ A2 = [A EXCEPT ![v] = t]
  OBVIOUS
<1>3. disk' = [free |-> F2, chain |-> C2, info |-> I2, avail |-> A2, availIdx |-> w, usedIdx |-> u]
  BY <1>1, <1>2
<1>4. /\ C2 = [d \in Descs |-> C2[d]] /\ C2[t] = c /\ \A e \in Descs : e # t => C2[e] = C[e]
      /\ I2 = [d \in Descs |-> I2[d]] /\ I2[t] = r /\ \A e \in Descs : e # t => I2[e] = I[e]
  BY <1>1, <1>2
<1>5. disk'.free = F2 /\ disk'.chain = C2 /\ disk'.info = I2 /\ disk'.usedIdx = u /\ disk'.avail = A2 /\ disk'.availIdx = w
  BY ONLY <1>3
<1>6. disk.free = F /\ disk.chain = C /\ disk.info = I /\ disk.usedIdx = u BY <1>1
<1>7. DiskRec' BY <1>1, <1>2, <1>3, <1>4, <1>5, ZenonT(60) DEF DiskRec
<1> QED BY <1>2, <1>4, <1>5, <1>6, <1>7

LEMMA SetFreed ==
  ASSUME DiskRec, NEW t \in Descs, NEW c, NEW r, NEW S, S \subseteq Descs,
         disk' = [disk EXCEPT !.info[t] = r, !.chain[t] = c, !.free = @ \cup S]
  PROVE  /\ DiskRec' /\ disk'.free = disk.free \cup S /\ disk'.usedIdx = disk.usedIdx
         /\ \A e \in Descs : e # t => disk'.chain[e] = disk.chain[e] /\ disk'.info[e] = disk.info[e]
<1>1. PICK F, C, I, A, x, u : /\ disk = [free |-> F, chain |-> C, info |-> I, avail |-> A, availIdx |-> x, usedIdx |-> u]
                              /\ F \subseteq Descs /\ C = [d \in Descs |-> C[d]] /\ I = [d \in Descs |-> I[d]] /\ u \in Idxs
  BY DEF DiskRec
<1>2. PICK C2, I2, F2 : F2 = F \cup S /\ C2 = [C EXCEPT ![t] = c] /\ I2 = [I EXCEPT ![t] = r]
  OBVIOUS
<1>3. disk' = [free |-> F2, chain |-> C2, info |-> I2, avail |-> A, availIdx |-> x, usedIdx |-> u]
  BY <1>1, <1>2
<1>4. /\ C2 = [d \in Descs |-> C2[d]] /\ \A e \in Descs : e # t => C2[e] = C[e]
      /\ I2 = [d \in Descs |-> I2[d]] /\ \A e \in Descs : e # t => I2[e] = I[e]
  BY <1>1, <1>2
<1>5. disk'.free = F2 /\ disk'.chain = C2 /\ disk'.info = I2 /\ disk'.usedIdx = u /\ disk'.avail = A /\ disk'.availIdx = x
  BY ONLY <1>3
<1>6. disk.free = F /\ disk.chain = C /\ disk.info = I /\ disk.usedIdx = u BY <1>1
<1>7. DiskRec' BY <1>1, <1>2, <1>3, <1>4, <1>5, ZenonT(60) DEF DiskRec
<1> QED BY <1>2, <1>4, <1>5, <1>6, <1>7

LEMMA SetUsedIdx ==
  ASSUME DiskRec, NEW v \in Idxs, disk' = [disk EXCEPT !.usedIdx = v]
  PROVE  DiskRec' /\ disk'.usedIdx = v /\ disk'.free = disk.free /\ disk'.chain = disk.chain /\ disk'.info = disk.info
<1>1. PICK F, C, I, A, x, u : /\ disk = [free |-> F, chain |-> C, info |-> I, avail |-> A, availIdx |-> x, usedIdx |-> u]
                              /\ F \subseteq Descs /\ C = [d \in Descs |-> C[d]] /\ I = [d \in Descs |-> I[d]] /\ u \in Idxs
  BY DEF DiskRec
<1>2. disk' = [free |-> F, chain |-> C, info |-> I, avail |-> A, availIdx |-> x, usedIdx |-> v]
  BY <1>1
<1> QED BY <1>1, <1>2 DEF DiskRec

LEMMA SetStatus ==
  ASSUME DiskRec, NEW t \in Descs, NEW i \in Bufs, Request(disk.info[t], i), disk' = [disk EXCEPT !.info[t].status = 0]
  PROVE  /\ DiskRec' /\ disk'.usedIdx = disk.usedIdx /\ disk'.free = disk.free /\ disk'.chain = disk.chain
         /\ Request(disk'.info[t], i) /\ disk'.info[t].status = 0
         /\ \A e \in Descs : e # t => disk'.info[e] = disk.info[e]
<1>1. PICK F, C, I, A, x, u : /\ disk = [free |-> F, chain |-> C, info |-> I, avail |-> A, availIdx |-> x, usedIdx |-> u]
                              /\ F \subseteq Descs /\ C = [d \in Descs |-> C[d]] /\ I = [d \in Descs |-> I[d]] /\ u \in Idxs
  BY DEF DiskRec
<1>2. PICK w, s : I[t] = [i |-> i, write |-> w, status |-> s] /\ w \in BOOLEAN BY <1>1 DEF Request
<1>3. PICK n : n = [i |-> i, write |-> w, status |-> 0] OBVIOUS
<1>4. PICK I2 : I2 = [I EXCEPT ![t] = n] OBVIOUS
<1>5. disk' = [free |-> F, chain |-> C, info |-> I2, avail |-> A, availIdx |-> x, usedIdx |-> u]
  <2>1. disk' = [free |-> F, chain |-> C, info |-> [I EXCEPT ![t].status = 0], avail |-> A, availIdx |-> x, usedIdx |-> u]
    BY <1>1
  <2>2. [I[t] EXCEPT !.status = 0] = n BY <1>2, <1>3
  <2>3. [I EXCEPT ![t].status = 0] = I2 BY <1>4, <2>2
  <2> QED BY <2>1, <2>3
<1>6. I2 = [d \in Descs |-> I2[d]] /\ I2[t] = n /\ \A e \in Descs : e # t => I2[e] = I[e]
  BY <1>1, <1>4
<1>7. disk'.free = F /\ disk'.chain = C /\ disk'.info = I2 /\ disk'.usedIdx = u /\ disk'.avail = A /\ disk'.availIdx = x
  BY <1>5
<1>8. disk.free = F /\ disk.chain = C /\ disk.info = I /\ disk.usedIdx = u BY <1>1
<1>9. DiskRec' BY <1>1, <1>5, <1>6, <1>7 DEF DiskRec
<1>10. n.i = i /\ n.write = w /\ n.status = 0 /\ I[t].write = w BY <1>2, <1>3
<1>11. n # None
  <2>1. i \in 1..NBUF BY DEF Bufs
  <2>2. n \in [i : 1..NBUF, write : BOOLEAN, status : {0, 255}] BY ONLY <1>2, <1>3, <2>1
  <2> QED BY <2>2, DiskCacheAssumption
<1>12. Request(n, i) BY <1>2, <1>3, <1>10, <1>11 DEF Request
<1> QED BY <1>6, <1>7, <1>8, <1>9, <1>10, <1>12

LEMMA SetTold ==
  ASSUME DevRec, NEW t \in Descs, dev' = [dev EXCEPT !.told = @ \cup {t}]
  PROVE  DevRec' /\ dev'.told = dev.told \cup {t} /\ dev'.used = dev.used /\ dev'.usedIdx = dev.usedIdx /\ dev'.isr = dev.isr
<1>1. PICK B, T, U, x, s : /\ dev = [blocks |-> B, told |-> T, used |-> U, usedIdx |-> x, isr |-> s]
                           /\ T \subseteq Descs /\ U \in [Descs -> Descs] /\ x \in Idxs
  BY DEF DevRec
<1>2. dev' = [blocks |-> B, told |-> T \cup {t}, used |-> U, usedIdx |-> x, isr |-> s] BY <1>1
<1> QED BY <1>1, <1>2 DEF DevRec

LEMMA SetIsr ==
  ASSUME DevRec, NEW v, dev' = [dev EXCEPT !.isr = v]
  PROVE  DevRec' /\ dev'.told = dev.told /\ dev'.used = dev.used /\ dev'.usedIdx = dev.usedIdx /\ dev'.isr = v
<1>1. PICK B, T, U, x, s : /\ dev = [blocks |-> B, told |-> T, used |-> U, usedIdx |-> x, isr |-> s]
                           /\ T \subseteq Descs /\ U \in [Descs -> Descs] /\ x \in Idxs
  BY DEF DevRec
<1>2. dev' = [blocks |-> B, told |-> T, used |-> U, usedIdx |-> x, isr |-> v] BY <1>1
<1> QED BY <1>1, <1>2 DEF DevRec

LEMMA SetAnswered ==
  ASSUME DevRec, NEW t \in Descs, NEW a, NEW b, NEW k \in Descs, NEW v \in Idxs, NEW z, NEW S,
         Answers(t, a, b, k, v, z, S)
  PROVE  /\ DevRec' /\ dev'.told = dev.told \ S /\ dev'.usedIdx = v /\ dev'.isr = z
         /\ dev'.used[k] = t /\ \A l \in Descs : l # k => dev'.used[l] = dev.used[l]
<1>1. PICK B, T, U, x, s : /\ dev = [blocks |-> B, told |-> T, used |-> U, usedIdx |-> x, isr |-> s]
                           /\ T \subseteq Descs /\ U \in [Descs -> Descs] /\ x \in Idxs
  BY DEF DevRec
<1>2. PICK U2, B2 : U2 = [U EXCEPT ![k] = t] /\ B2 = [B EXCEPT ![a] = b] OBVIOUS
<1>3. dev' = [blocks |-> B2, told |-> T \ S, used |-> U2, usedIdx |-> v, isr |-> z]
  BY <1>1, <1>2 DEF Answers
<1>4. U2 \in [Descs -> Descs] /\ U2[k] = t /\ \A l \in Descs : l # k => U2[l] = U[l] BY <1>1, <1>2
<1>5. dev'.blocks = B2 /\ dev'.told = T \ S /\ dev'.used = U2 /\ dev'.usedIdx = v /\ dev'.isr = z
  BY ONLY <1>3
<1>6. dev.told = T /\ dev.used = U BY <1>1
<1>7. DevRec' BY <1>1, <1>3, <1>4, <1>5 DEF DevRec
<1> QED BY <1>4, <1>5, <1>6, <1>7

LEMMA SetDisk ==
  ASSUME BufType, NEW i \in Bufs, NEW v \in BOOLEAN, buf' = [buf EXCEPT ![i].disk = v]
  PROVE  buf'[i].disk = v /\ \A j \in Bufs : j # i => buf'[j] = buf[j]
<1>1. BufRec(buf[i]) BY DEF BufType
<1>2. PICK r : r = [buf[i] EXCEPT !.disk = v] OBVIOUS
<1>3. Rec(r, buf[i].blk, buf[i].valid, v, buf[i].refcnt, buf[i].owner) BY <1>1, <1>2, SetFields
<1>4. r.disk = v BY <1>3, RecIs
<1>5. buf' = [buf EXCEPT ![i] = r] BY <1>2
<1> QED BY <1>4, <1>5 DEF BufType

-----------------------------------------------------------------------------
LEMMA AskedFacts ==
  ASSUME DInv, NEW p \in Procs, NEW i \in Bufs, NEW d, Waits(p, i, d)
  PROVE  /\ d \in Descs /\ Request(disk.info[d], i) /\ d \in ChainOf(d)
         /\ ChainOf(d) \subseteq Descs /\ ChainOf(d) \cap disk.free = {}
         /\ disk.info[d] # None /\ disk.info[d].i = i
         /\ d \notin disk.free
         /\ buf[i].disk => InFlight(d)
BY DEF DInv, WaitOK, Asked, Request

(* What is in flight is what somebody waits for.                           *)
LEMMA Awaits ==
  ASSUME DInv, NEW d, InFlight(d)
  PROVE  \E p \in Procs : \E i \in Bufs : Waits(p, i, d) /\ buf[i].disk
BY DEF DInv, FlyOK

LEMMA DPublish ==
  ASSUME BInv, DInv, WriteOK, NEW h \in Harts, NEW p \in Procs, NEW f, Works(h, p, f, "rw"), Publishes(p, f)
  PROVE  DInv'
<1>1. PICK idx : /\ Cardinality(disk.free) >= 3 /\ idx = Lowest3
                 /\ disk' = [disk EXCEPT !.free = @ \ Range(idx), !.chain[idx[1]] = idx,
                                         !.info[idx[1]] = [i |-> f.i, write |-> f.write, status |-> 255],
                                         !.avail[disk.availIdx % NUM] = idx[1],
                                         !.availIdx = (@ + 1) % IdxMod]
                 /\ buf' = [buf EXCEPT ![f.i].disk = TRUE]
                 /\ dev' = [dev EXCEPT !.told = @ \cup {idx[1]}]
                 /\ JobSet(p, NewJob(f, idx[1]))
  BY Zenon DEF Publishes
<1>2. DiskRec /\ DevRec /\ disk.free \subseteq Descs BY DEF DInv, DiskRec
<1>3. PICK t, R : t = idx[1] /\ R = Range(idx) OBVIOUS
<1>4. t \in disk.free /\ t \in R /\ R \subseteq disk.free /\ t \in Descs
  BY <1>1, <1>2, <1>3, LowestFree
<1>5. PICK r, v, w : /\ r = [i |-> f.i, write |-> f.write, status |-> 255] /\ v = disk.availIdx % NUM
                     /\ w = (disk.availIdx + 1) % IdxMod
  OBVIOUS
<1>6. disk' = [disk EXCEPT !.free = @ \ R, !.chain[t] = idx, !.info[t] = r, !.avail[v] = t, !.availIdx = w]
  <2>1. PICK F, C, I, A, x, u : disk = [free |-> F, chain |-> C, info |-> I, avail |-> A, availIdx |-> x, usedIdx |-> u]
    BY <1>2 DEF DiskRec
  <2>2. disk' = [disk EXCEPT !.free = @ \ R, !.chain[t] = idx, !.info[t] = r, !.avail[v] = t, !.availIdx = (@ + 1) % IdxMod]
    BY <1>1, <1>3, <1>5
  <2> QED BY <1>5, <2>1, <2>2
<1>7. /\ DiskRec' /\ disk'.free = disk.free \ R /\ disk'.usedIdx = disk.usedIdx
      /\ disk'.chain[t] = idx /\ disk'.info[t] = r
      /\ \A e \in Descs : e # t => disk'.chain[e] = disk.chain[e] /\ disk'.info[e] = disk.info[e]
  BY ONLY <1>2, <1>4, <1>6, SetPublished, Zenon
<1>8. dev' = [dev EXCEPT !.told = @ \cup {t}] BY <1>1, <1>3
<1>9. DevRec' /\ dev'.told = dev.told \cup {t} /\ dev'.used = dev.used /\ dev'.usedIdx = dev.usedIdx
  BY <1>2, <1>4, <1>8, SetTold
<1>10. f.i \in Bufs /\ f.at = "rw" /\ IsJob(stack[p]) /\ JobOf(p) = f BY Zenon DEF Works
<1>11. buf'[f.i].disk = TRUE /\ \A j \in Bufs : j # f.i => buf'[j] = buf[j]
  <2>1. BufType /\ buf' = [buf EXCEPT ![f.i].disk = TRUE] BY <1>1 DEF BInv
  <2> QED BY <1>10, <2>1, SetDisk
<1>12. Starts(p, f.i) /\ \A j \in Bufs : \A d : ~Waits(p, j, d) BY <1>10, JobIs
<1>13. buf[f.i].owner = p BY <1>10, <1>12 DEF BInv, PairOK
<1>14. /\ \A q \in Procs : q # p => \A j \in Bufs : \A d : Waits(q, j, d)' <=> Waits(q, j, d)
       /\ \A j \in Bufs : \A d : Waits(p, j, d)' <=> j = f.i /\ d = t
  <2>1. PICK g : g = NewJob(f, t) OBVIOUS
  <2>2. g.at = "wait" /\ g.i = f.i /\ g.head = t BY <2>1 DEF NewJob
  <2>3. JobSet(p, g) BY <1>1, <1>3, <2>1
  <2> QED BY <2>2, <2>3, JobSetIs, JobKeptIs
<1>15. \A q \in Procs, j \in Bufs : \A e : Waits(q, j, e) =>
          /\ q # p /\ j # f.i /\ e # t /\ e \in Descs /\ ChainOf(e) \cap R = {}
          /\ ChainOf(e)' = ChainOf(e) /\ disk'.info[e] = disk.info[e] /\ buf'[j] = buf[j]
  <2>1. ASSUME NEW q \in Procs, NEW j \in Bufs, NEW e, Waits(q, j, e)
        PROVE  /\ q # p /\ j # f.i /\ e # t /\ e \in Descs /\ ChainOf(e) \cap R = {}
               /\ ChainOf(e)' = ChainOf(e) /\ disk'.info[e] = disk.info[e] /\ buf'[j] = buf[j]
    <3>1. q # p /\ buf[j].owner = q BY <1>12, <2>1 DEF BInv, PairOK
    <3>2. e \in Descs /\ e \notin disk.free /\ ChainOf(e) \cap disk.free = {} BY <2>1, AskedFacts
    <3>3. disk'.chain[e] = disk.chain[e] /\ disk'.info[e] = disk.info[e] /\ e # t
      BY <1>4, <1>7, <3>2
    <3>4. ChainOf(e)' = ChainOf(e) BY <3>3 DEF ChainOf
    <3> QED BY <1>4, <1>11, <1>13, <3>1, <3>2, <3>3, <3>4
  <2> QED BY <2>1
<1>16. UsedCount' = UsedCount /\ \A k : UsedAt(k)' = UsedAt(k) BY <1>7, <1>9 DEF UsedCount, UsedAt
<1>17. \A d : (IsUsed(d)' <=> IsUsed(d)) /\ (InFlight(d)' <=> InFlight(d) \/ d = t)
  BY <1>9, <1>16 DEF IsUsed, InFlight
<1>18. ~InFlight(t) /\ ~IsUsed(t)
  <2>1. ~InFlight(t) BY <1>4, Awaits, AskedFacts
  <2> QED BY <2>1 DEF InFlight
<1>19. Request(r, f.i) /\ t \in ChainOf(t)' /\ ChainOf(t)' = R /\ R \subseteq Descs /\ R \cap disk'.free = {}
  <2>1. Request(r, f.i)
    <3>1. r = [i |-> f.i, write |-> f.write, status |-> 255] BY <1>5
    <3>2. f.write \in BOOLEAN /\ f.i \in 1..NBUF BY <1>10 DEF WriteOK, Has, Bufs
    <3>3. r \in [i : 1..NBUF, write : BOOLEAN, status : {0, 255}] BY ONLY <3>1, <3>2
    <3>4. r # None BY <3>3, DiskCacheAssumption
    <3>5. r.i = f.i /\ r.write = f.write /\ r.status = 255 BY <3>1
    <3> QED BY <3>1, <3>2, <3>4, <3>5 DEF Request
  <2>2. ChainOf(t)' = R BY <1>3, <1>7 DEF ChainOf
  <2> QED BY <1>2, <1>4, <1>7, <2>1, <2>2
<1>20. ASSUME NEW q \in Procs, NEW j \in Bufs, NEW d, Waits(q, j, d)' PROVE Asked(j, d)' /\ (buf'[j].disk => InFlight(d)')
  <2>1. CASE q = p
    <3>1. j = f.i /\ d = t BY <1>14, <1>20, <2>1
    <3>2. Asked(j, d)' BY <1>4, <1>7, <1>19, <3>1 DEF Asked
    <3> QED BY <1>17, <3>1, <3>2
  <2>2. CASE q # p
    <3>1. Waits(q, j, d) BY <1>14, <1>20, <2>2
    <3>2. Asked(j, d) /\ (buf[j].disk => InFlight(d)) BY <3>1 DEF DInv, WaitOK
    <3>3. ChainOf(d)' = ChainOf(d) /\ disk'.info[d] = disk.info[d] /\ buf'[j] = buf[j]
      BY <1>15, <3>1
    <3>4. Asked(j, d)' BY <1>7, <3>2, <3>3 DEF Asked
    <3> QED BY <1>17, <3>2, <3>3, <3>4
  <2> QED BY <2>1, <2>2
<1>21. ASSUME NEW q \in Procs, NEW s \in Procs, NEW i \in Bufs, NEW j \in Bufs, NEW d, NEW e PROVE Alone(q, s, i, j, d, e)'
  <2>1. SUFFICES ASSUME Waits(q, i, d)', Waits(s, j, e)', q # s PROVE ChainOf(d)' \cap ChainOf(e)' = {}
    BY DEF Alone
  <2>2. CASE q = p
    <3>1. d = t /\ Waits(s, j, e) BY <1>14, <2>1, <2>2
    <3> QED BY <1>15, <1>19, <3>1
  <2>3. CASE s = p
    <3>1. e = t /\ Waits(q, i, d) BY <1>14, <2>1, <2>3
    <3> QED BY <1>15, <1>19, <3>1
  <2>4. CASE q # p /\ s # p
    <3>1. Waits(q, i, d) /\ Waits(s, j, e) BY <1>14, <2>1, <2>4
    <3>2. ChainOf(d) \cap ChainOf(e) = {} BY <2>1, <3>1 DEF DInv, WaitOK, Alone
    <3> QED BY <1>15, <3>1, <3>2
  <2> QED BY <2>2, <2>3, <2>4
<1>22. WaitOK' BY <1>20, <1>21 DEF WaitOK
<1>23. FlyOK'
  <2>1. ASSUME NEW d, InFlight(d)' PROVE \E q \in Procs : \E j \in Bufs : Waits(q, j, d)' /\ buf'[j].disk
    <3>1. CASE d = t BY <1>10, <1>11, <1>14, <3>1
    <3>2. CASE d # t
      <4>1. PICK q \in Procs : \E j \in Bufs : Waits(q, j, d) /\ buf[j].disk
        BY <1>17, <2>1, <3>2, Awaits
      <4>2. PICK j \in Bufs : Waits(q, j, d) /\ buf[j].disk BY <4>1
      <4> QED BY <1>14, <1>15, <4>2
    <3> QED BY <3>1, <3>2
  <2> QED BY <2>1 DEF FlyOK
<1>24. UsedOK'
  <2>1. UsedCount' <= NUM /\ \A k, l \in Nat : k < UsedCount' /\ l < UsedCount' /\ UsedAt(k)' = UsedAt(l)' => k = l
    BY <1>16 DEF DInv, UsedOK
  <2>2. ASSUME NEW d, IsUsed(d)' PROVE d \notin dev'.told /\ disk'.info[d].status = 0
    <3>1. IsUsed(d) /\ d # t BY <1>17, <1>18, <2>2
    <3>2. d \notin dev.told /\ disk.info[d].status = 0 BY <3>1 DEF DInv, UsedOK
    <3>3. d \in Descs BY <3>1, Awaits, AskedFacts DEF InFlight
    <3> QED BY <1>7, <1>9, <3>1, <3>2, <3>3
  <2> QED BY <2>1, <2>2 DEF UsedOK
<1> QED BY <1>7, <1>9, <1>22, <1>23, <1>24 DEF DInv

LEMMA WaitsFor ==
  ASSUME BInv, DInv, NEW h \in Harts, NEW p \in Procs, NEW f, Works(h, p, f, "wait")
  PROVE  /\ f.i \in Bufs /\ Waits(p, f.i, f.head)
         /\ f.head \in Descs /\ Range(disk.chain[f.head]) \cap disk.free = {}
         /\ f.head \in Range(disk.chain[f.head]) /\ Range(disk.chain[f.head]) \subseteq Descs
<1>1. f.i \in Bufs /\ Waits(p, f.i, f.head) BY JobIs, Zenon DEF Works
<1>2. f.head \in Descs /\ Range(disk.chain[f.head]) \cap disk.free = {}
         /\ f.head \in Range(disk.chain[f.head]) /\ Range(disk.chain[f.head]) \subseteq Descs
  BY <1>1, AskedFacts DEF ChainOf
<1> QED BY <1>1, <1>2

(* No descriptor is freed twice.                                           *)
LEMMA NeverFreedTwice ==
  ASSUME BInv, DInv, NEW h \in Harts, NEW p \in Procs, NEW f, Works(h, p, f, "wait")
  PROVE  ~FreesTwice(f)
BY WaitsFor DEF FreesTwice

LEMMA DFrees ==
  ASSUME BInv, DInv, NEW h \in Harts, NEW p \in Procs, NEW f, Works(h, p, f, "wait"), Frees(h, p, f), dev' = dev
  PROVE  DInv'
<1>1. /\ ~buf[f.i].disk
      /\ disk' = [disk EXCEPT !.info[f.head] = None, !.chain[f.head] = <<>>,
                              !.free = @ \cup Range(disk.chain[f.head])]
      /\ buf' = [buf EXCEPT ![f.i].valid = TRUE] /\ JobGone(p)
  BY DEF Frees
<1>2. DiskRec /\ DevRec BY DEF DInv
<1>3. PICK t, R : t = f.head /\ R = ChainOf(t) OBVIOUS
<1>4. Waits(p, f.i, t) /\ f.i \in Bufs /\ t \in Descs /\ R \subseteq Descs /\ t \in R
  BY <1>3, WaitsFor DEF ChainOf
<1>5. disk' = [disk EXCEPT !.info[t] = None, !.chain[t] = <<>>, !.free = @ \cup R]
  <2>1. PICK c : c = <<>> OBVIOUS
  <2> QED BY <1>1, <1>3 DEF ChainOf
<1>6. /\ DiskRec' /\ disk'.free = disk.free \cup R /\ disk'.usedIdx = disk.usedIdx
      /\ \A e \in Descs : e # t => disk'.chain[e] = disk.chain[e] /\ disk'.info[e] = disk.info[e]
  BY ONLY <1>2, <1>4, <1>5, SetFreed, Zenon
<1>7. FlagsSame
  <2>1. BufType /\ BufRec(buf[f.i]) BY <1>4 DEF BInv, BufType
  <2>2. PICK v, r : v \in BOOLEAN /\ v = TRUE /\ r = [buf[f.i] EXCEPT !.valid = v] OBVIOUS
  <2>3. Rec(r, buf[f.i].blk, v, buf[f.i].disk, buf[f.i].refcnt, buf[f.i].owner)
    BY <2>1, <2>2, SetFields
  <2>4. r.disk = buf[f.i].disk BY <2>3, RecIs
  <2>5. buf' = [buf EXCEPT ![f.i] = r] BY <1>1, <2>2
  <2> QED BY <1>4, <2>1, <2>4, <2>5 DEF BufType, FlagsSame
<1>8. /\ \A q \in Procs : q # p => \A j \in Bufs : \A d : Waits(q, j, d)' <=> Waits(q, j, d)
      /\ \A j \in Bufs : \A d : ~Waits(p, j, d)'
  BY <1>1, JobGoneIs, JobKeptIs
<1>9. \A q \in Procs, j \in Bufs : \A e : Waits(q, j, e)' =>
          /\ Waits(q, j, e) /\ e # t /\ e \in Descs /\ ChainOf(e) \cap R = {}
          /\ ChainOf(e)' = ChainOf(e) /\ disk'.info[e] = disk.info[e]
  <2>1. ASSUME NEW q \in Procs, NEW j \in Bufs, NEW e, Waits(q, j, e)'
        PROVE  /\ Waits(q, j, e) /\ e # t /\ e \in Descs /\ ChainOf(e) \cap R = {}
               /\ ChainOf(e)' = ChainOf(e) /\ disk'.info[e] = disk.info[e]
    <3>1. q # p /\ Waits(q, j, e) BY <1>8, <2>1
    <3>2. e # t /\ ChainOf(e) \cap R = {} BY <1>3, <1>4, <3>1, WaiterIs
    <3>3. e \in Descs BY <3>1, AskedFacts
    <3> QED BY <1>6, <3>1, <3>2, <3>3 DEF ChainOf
  <2> QED BY <2>1
<1>10. UsedCount' = UsedCount /\ \A k : UsedAt(k)' = UsedAt(k) BY <1>6 DEF UsedCount, UsedAt
<1>11. \A d : (IsUsed(d)' <=> IsUsed(d)) /\ (InFlight(d)' <=> InFlight(d))
  BY <1>10 DEF IsUsed, InFlight
<1>12. ASSUME NEW d, InFlight(d) PROVE /\ d # t /\ d \in Descs
                                       /\ \E q \in Procs : \E j \in Bufs : q # p /\ Waits(q, j, d) /\ buf[j].disk
  <2>1. PICK q \in Procs : \E j \in Bufs : Waits(q, j, d) /\ buf[j].disk BY <1>12, Awaits
  <2>2. PICK j \in Bufs : Waits(q, j, d) /\ buf[j].disk BY <2>1
  <2>3. q # p BY <1>1, <1>4, <2>2, WaiterIs
  <2>4. d # t BY <1>4, <2>2, <2>3, WaiterIs
  <2> QED BY <2>2, <2>3, <2>4, AskedFacts
<1>13. WaitOK'
  <2>1. ASSUME NEW q \in Procs, NEW j \in Bufs, NEW d, Waits(q, j, d)' PROVE Asked(j, d)' /\ (buf'[j].disk => InFlight(d)')
    <3>1. Asked(j, d) /\ (buf[j].disk => InFlight(d)) BY <1>9, <2>1 DEF DInv, WaitOK
    <3>2. Asked(j, d)' BY <1>6, <1>9, <2>1, <3>1 DEF Asked
    <3> QED BY <1>7, <1>11, <3>1, <3>2 DEF FlagsSame
  <2>2. \A q, s \in Procs, i, j \in Bufs : \A d, e : Alone(q, s, i, j, d, e)'
    BY <1>9 DEF DInv, WaitOK, Alone
  <2> QED BY <2>1, <2>2 DEF WaitOK
<1>14. FlyOK' BY <1>7, <1>8, <1>11, <1>12 DEF FlyOK, FlagsSame
<1>15. UsedOK'
  <2>1. UsedCount' <= NUM /\ \A k, l \in Nat : k < UsedCount' /\ l < UsedCount' /\ UsedAt(k)' = UsedAt(l)' => k = l
    BY <1>10 DEF DInv, UsedOK
  <2>2. ASSUME NEW d, IsUsed(d)' PROVE d \notin dev'.told /\ disk'.info[d].status = 0
    <3>1. IsUsed(d) /\ d \notin dev.told /\ disk.info[d].status = 0 BY <1>11, <2>2 DEF DInv, UsedOK
    <3>2. d # t /\ d \in Descs BY <1>12, <3>1 DEF InFlight
    <3> QED BY <1>6, <3>1, <3>2
  <2> QED BY <2>1, <2>2 DEF UsedOK
<1>16. DevRec' BY <1>2 DEF DevRec
<1> QED BY <1>6, <1>13, <1>14, <1>15, <1>16 DEF DInv

-----------------------------------------------------------------------------
LEMMA OldestUsed ==
  ASSUME DInv, disk.usedIdx # dev.usedIdx, NEW t, t = Oldest
  PROVE  /\ IsUsed(t) /\ InFlight(t) /\ UsedAt(0) = t /\ UsedCount \in Nat /\ 0 < UsedCount
         /\ \E p \in Procs : \E i \in Bufs : Waits(p, i, t) /\ buf[i].disk /\ Request(disk.info[t], i)
         /\ disk.info[t].status = 0
<1>1. disk.usedIdx \in Idxs /\ dev.usedIdx \in Idxs /\ UsedCount \in Nat BY DInvType
<1>2. 0 < UsedCount
  <2>1. UsedCount # 0 BY <1>1, NoneUsed DEF UsedCount
  <2> QED BY <1>1, <2>1
<1>3. UsedAt(0) = t
  <2>1. UsedSlot(disk.usedIdx, 0) = disk.usedIdx % NUM BY <1>1, PopUsed
  <2> QED BY <2>1 DEF UsedAt, Oldest
<1>4. IsUsed(t) /\ InFlight(t) BY <1>1, <1>2, <1>3 DEF IsUsed, InFlight
<1>5. \E p \in Procs : \E i \in Bufs : Waits(p, i, t) /\ buf[i].disk /\ Request(disk.info[t], i)
  BY <1>4, Awaits, AskedFacts
<1>6. disk.info[t].status = 0 BY <1>4 DEF DInv, UsedOK
<1> QED BY <1>1, <1>2, <1>3, <1>4, <1>5, <1>6

(* The handler finds a request behind every used entry.                    *)
LEMMA NeverStopped ==
  ASSUME DInv, disk.usedIdx # dev.usedIdx, NEW r, r = disk.info[Oldest]
  PROVE  ~Stopped(r)
BY OldestUsed DEF Stopped, Request

LEMMA DDrained ==
  ASSUME BInv, DInv, disk.usedIdx # dev.usedIdx, NEW r, r = disk.info[Oldest],
         Drained(r), JobsSame, UNCHANGED dev
  PROVE  /\ DInv'
         /\ r.i \in Bufs /\ buf'[r.i].disk = FALSE /\ \A j \in Bufs : j # r.i => buf'[j] = buf[j]
<1>1. PICK t : t = Oldest OBVIOUS
<1>2. /\ IsUsed(t) /\ InFlight(t) /\ UsedAt(0) = t /\ UsedCount \in Nat /\ 0 < UsedCount
      /\ \E p \in Procs : \E i \in Bufs : Waits(p, i, t) /\ buf[i].disk /\ Request(disk.info[t], i)
  BY <1>1, OldestUsed
<1>3. PICK p \in Procs : \E i \in Bufs : Waits(p, i, t) /\ Request(disk.info[t], i) BY <1>2
<1>4. PICK i \in Bufs : Waits(p, i, t) /\ r.i = i BY <1>1, <1>3 DEF Request
<1>5. disk.usedIdx \in Idxs /\ dev.usedIdx \in Idxs BY DInvType
<1>6. PICK u, w : u = disk.usedIdx /\ w = dev.usedIdx OBVIOUS
<1>7. buf' = [buf EXCEPT ![i].disk = FALSE] /\ disk' = [disk EXCEPT !.usedIdx = After(u)]
  <2>1. PICK F, C, I, A, x, y : disk = [free |-> F, chain |-> C, info |-> I, avail |-> A, availIdx |-> x, usedIdx |-> y]
    BY DEF DInv, DiskRec
  <2> QED BY <1>4, <1>6, <2>1 DEF Drained, Finished, After
<1>8. After(u) \in Idxs BY <1>5, <1>6, AfterIs
<1>9. DiskRec' /\ disk'.usedIdx = After(u) /\ disk'.free = disk.free /\ disk'.chain = disk.chain /\ disk'.info = disk.info
  <2>1. DiskRec BY DEF DInv
  <2> QED BY ONLY <1>7, <1>8, <2>1, SetUsedIdx
<1>10. buf'[i].disk = FALSE /\ \A j \in Bufs : j # i => buf'[j] = buf[j]
  <2>1. PICK v : v \in BOOLEAN /\ v = FALSE OBVIOUS
  <2>2. BufType /\ buf' = [buf EXCEPT ![i].disk = v] BY <1>7, <2>1 DEF BInv
  <2>3. buf'[i].disk = v /\ \A j \in Bufs : j # i => buf'[j] = buf[j] BY <2>1, <2>2, SetDisk
  <2> QED BY <2>1, <2>3
<1>11. UsedCount = UsedCount' + 1 /\ UsedCount' \in Nat
  <2>1. Ahead(u, w) = Ahead(After(u), w) + 1 /\ Ahead(After(u), w) \in Nat BY <1>5, <1>6, PopUsed
  <2> QED BY <1>6, <1>9, <2>1 DEF UsedCount
<1>24. PICK n, m : n = UsedCount /\ m = UsedCount' /\ n \in Nat /\ m \in Nat /\ n = m + 1 /\ 0 < n
  BY <1>2, <1>11
<1>25. n \in Nat /\ m \in Nat /\ n = m + 1 BY <1>24
<1>12. n <= NUM /\ NUM \in Nat BY <1>24, DiskCacheAssumption DEF DInv, UsedOK
<1>13. \A k \in Nat : k < m => UsedAt(k)' = UsedAt(k + 1)
  <2>1. \A k \in Nat : k < NUM => UsedSlot(After(u), k) = UsedSlot(u, k + 1) BY <1>5, <1>6, PopUsed
  <2>2. ASSUME NEW k \in Nat, k < m PROVE UsedAt(k)' = UsedAt(k + 1)
    <3>1. k < NUM BY ONLY <1>12, <1>25, <2>2
    <3>2. UsedSlot(After(u), k) = UsedSlot(u, k + 1) BY <2>1, <3>1
    <3> QED BY <1>6, <1>9, <3>2 DEF UsedAt
  <2> QED BY <2>2
<1>14. \A k, l \in Nat : k < n /\ l < n /\ UsedAt(k) = UsedAt(l) => k = l BY <1>24 DEF DInv, UsedOK
<1>15. ASSUME NEW d PROVE IsUsed(d)' <=> IsUsed(d) /\ d # t
  <2>1. ASSUME IsUsed(d)' PROVE IsUsed(d) /\ d # t
    <3>1. PICK k \in Nat : k < m /\ UsedAt(k)' = d BY <1>24, <2>1 DEF IsUsed
    <3>4. k + 1 \in Nat /\ k + 1 < n /\ k + 1 # 0 BY ONLY <1>25, <3>1
    <3>2. k + 1 \in Nat /\ k + 1 < n /\ UsedAt(k + 1) = d /\ k + 1 # 0 BY <1>13, <3>1, <3>4
    <3>3. d # t BY <1>2, <1>14, <1>24, <3>2
    <3> QED BY <1>24, <3>2, <3>3 DEF IsUsed
  <2>2. ASSUME IsUsed(d), d # t PROVE IsUsed(d)'
    <3>1. PICK k \in Nat : k < n /\ UsedAt(k) = d BY <1>24, <2>2 DEF IsUsed
    <3>2. k # 0 BY <1>2, <2>2, <3>1
    <3>3. PICK l \in Nat : k = l + 1 BY <3>2
    <3>5. l < m BY ONLY <1>25, <3>1, <3>3
    <3>4. l < m /\ UsedAt(l)' = d BY <1>13, <3>1, <3>3, <3>5
    <3> QED BY <1>24, <3>4 DEF IsUsed
  <2> QED BY <2>1, <2>2
<1>16. t \notin dev.told BY <1>2 DEF DInv, UsedOK
<1>17. \A d : InFlight(d)' <=> InFlight(d) /\ d # t BY <1>15, <1>16 DEF InFlight
<1>18. WaitsSame BY WaitsJobs
<1>19. \A q \in Procs, j \in Bufs : \A d : Waits(q, j, d) => (j = i <=> d = t) BY <1>4, WaiterIs
<1>20. WaitOK'
  <2>1. ASSUME NEW q \in Procs, NEW j \in Bufs, NEW d, Waits(q, j, d)' PROVE Asked(j, d)' /\ (buf'[j].disk => InFlight(d)')
    <3>1. Waits(q, j, d) BY <1>18, <2>1 DEF WaitsSame
    <3>2. Asked(j, d) /\ (buf[j].disk => InFlight(d)) BY <3>1 DEF DInv, WaitOK
    <3>3. Asked(j, d)' BY <1>9, <3>2 DEF Asked, ChainOf
    <3>4. buf'[j].disk => buf[j].disk /\ d # t BY <1>10, <1>19, <3>1
    <3> QED BY <1>17, <3>2, <3>3, <3>4
  <2>2. \A d : ChainOf(d)' = ChainOf(d) BY <1>9 DEF ChainOf
  <2>3. \A q, s \in Procs, l, j \in Bufs : \A d, e : Alone(q, s, l, j, d, e)'
    BY <1>18, <2>2 DEF DInv, WaitOK, Alone, WaitsSame
  <2> QED BY <2>1, <2>3 DEF WaitOK
<1>21. FlyOK'
  <2>1. ASSUME NEW d, InFlight(d)' PROVE \E q \in Procs : \E j \in Bufs : Waits(q, j, d)' /\ buf'[j].disk
    <3>1. PICK q \in Procs : \E j \in Bufs : Waits(q, j, d) /\ buf[j].disk BY <1>17, <2>1, Awaits
    <3>2. PICK j \in Bufs : Waits(q, j, d) /\ buf[j].disk BY <3>1
    <3>3. j # i BY <1>17, <1>19, <2>1, <3>2
    <3> QED BY <1>10, <1>18, <3>2, <3>3 DEF WaitsSame
  <2> QED BY <2>1 DEF FlyOK
<1>22. UsedOK'
  <2>1. m <= NUM BY ONLY <1>12, <1>25
  <2>2. ASSUME NEW k \in Nat, NEW l \in Nat, k < m, l < m, UsedAt(k)' = UsedAt(l)' PROVE k = l
    <3>1. UsedAt(k + 1) = UsedAt(l + 1) BY <1>13, <2>2
    <3>2. k + 1 < n /\ l + 1 < n /\ k + 1 \in Nat /\ l + 1 \in Nat BY ONLY <1>25, <2>2
    <3>3. k + 1 = l + 1 BY <1>14, <3>1, <3>2
    <3> QED BY <3>3
  <2>3. ASSUME NEW d, IsUsed(d)' PROVE d \notin dev'.told /\ disk'.info[d].status = 0
    <3>1. d \notin dev.told /\ disk.info[d].status = 0 BY <1>15, <2>3 DEF DInv, UsedOK
    <3> QED BY <1>9, <3>1
  <2> QED BY <1>24, <2>1, <2>2, <2>3 DEF UsedOK
<1>23. DevRec' BY DEF DInv, DevRec
<1> QED BY <1>4, <1>9, <1>10, <1>20, <1>21, <1>22, <1>23 DEF DInv

-----------------------------------------------------------------------------
(* The used ring has room for the answer to a request it does not hold.    *)
LEMMA SmallerThanAll ==
  ASSUME NEW d \in Descs, NEW c \in Nat, NEW f \in [0..(c - 1) -> Descs \ {d}],
         \A k, l \in 0..(c - 1) : f[k] = f[l] => k = l
  PROVE  c < NUM
<1>1. PICK n \in Nat \ {0} : n = NUM /\ Descs = 0..(n - 1) BY DiskCacheAssumption DEF Descs
<1>2. IsFiniteSet(Descs) /\ Cardinality(Descs) = n
  <2>1. IsFiniteSet(0..(n - 1)) /\ Cardinality(0..(n - 1)) = n BY FS_Interval
  <2> QED BY <1>1, <2>1
<1>3. PICK T : T = Descs \ {d} OBVIOUS
<1>4. IsFiniteSet(T) /\ Cardinality(T) = n - 1 BY <1>2, <1>3, FS_RemoveElement
<1>5. PICK S : S = 0..(c - 1) OBVIOUS
<1>6. f \in Injection(S, T) BY <1>3, <1>5 DEF Injection, IsInjective
<1>7. Cardinality(S) <= Cardinality(T) BY <1>4, <1>6, FS_Injection
<1>8. Cardinality(S) = c
  <2>1. CASE c = 0
    <3>1. S = {} BY <1>5, <2>1
    <3> QED BY <2>1, <3>1, FS_EmptySet
  <2>2. CASE c # 0
    <3>1. 0 <= c - 1 /\ 0 \in Int /\ c - 1 \in Int BY <2>2
    <3>2. Cardinality(0..(c - 1)) = (c - 1) - 0 + 1 BY <3>1, FS_Interval
    <3> QED BY <1>5, <3>2
  <2> QED BY <2>1, <2>2
<1> QED BY <1>1, <1>4, <1>7, <1>8

LEMMA RoomForAnswer ==
  ASSUME DInv, NEW d, d \in dev.told
  PROVE  UsedCount < NUM
<1>1. d \in Descs /\ dev.used \in [Descs -> Descs] BY DEF DInv, DevRec
<1>2. PICK c \in Nat : c = UsedCount /\ c <= NUM BY DInvType DEF DInv, UsedOK
<1>3. \A k \in Nat : k < c => UsedAt(k) \in Descs /\ UsedAt(k) # d
  <2>1. ASSUME NEW k \in Nat, k < c PROVE UsedAt(k) \in Descs /\ UsedAt(k) # d
    <3>1. IsUsed(UsedAt(k)) BY <1>2, <2>1 DEF IsUsed
    <3>2. UsedAt(k) \notin dev.told BY <3>1 DEF DInv, UsedOK
    <3>3. k <= NUM
      <4>1. NUM \in Nat BY DiskCacheAssumption
      <4> QED BY <1>2, <2>1, <4>1
    <3>4. UsedSlot(disk.usedIdx, k) \in Descs BY <3>3, DInvType, UsedSlotIs
    <3> QED BY <1>1, <3>2, <3>4 DEF UsedAt
  <2> QED BY <2>1
<1>4. PICK f : f = [k \in 0..(c - 1) |-> UsedAt(k)] OBVIOUS
<1>5. \A k \in 0..(c - 1) : k \in Nat /\ k < c OBVIOUS
<1>6. f \in [0..(c - 1) -> Descs \ {d}] BY <1>3, <1>4, <1>5
<1>7. ASSUME NEW k \in 0..(c - 1), NEW l \in 0..(c - 1), f[k] = f[l] PROVE k = l
  <2>1. k \in Nat /\ l \in Nat /\ k < c /\ l < c /\ UsedAt(k) = UsedAt(l) BY <1>4, <1>5, <1>7
  <2> QED BY <1>2, <2>1 DEF DInv, UsedOK
<1>8. c < NUM BY <1>1, <1>6, <1>7, SmallerThanAll
<1> QED BY <1>2, <1>8

LEMMA DataTouched ==
  ASSUME BufType, NEW j, NEW v, buf' = [buf EXCEPT ![j].data = v]
  PROVE  FlagsSame
<1>1. CASE j \in Bufs
  <2>1. BufRec(buf[j]) BY <1>1 DEF BufType
  <2>2. PICK s : s = [buf[j] EXCEPT !.data = v] OBVIOUS
  <2>3. Rec(s, buf[j].blk, buf[j].valid, buf[j].disk, buf[j].refcnt, buf[j].owner)
    BY <2>1, <2>2, SetFields
  <2>4. s.disk = buf[j].disk BY <2>3, RecIs
  <2>5. buf' = [buf EXCEPT ![j] = s] BY <2>2
  <2> QED BY <1>1, <2>4, <2>5 DEF BufType, FlagsSame
<1>2. CASE j \notin Bufs BY <1>2 DEF BufType, FlagsSame
<1> QED BY <1>1, <1>2

(* The device answers: the request moves from one ring to the other.       *)
LEMMA DAnswered ==
  ASSUME BInv, DInv, NEW t, DiskDone(t)
  PROVE  DInv' /\ FlagsSame /\ dev'.isr = TRUE
<1>1. PICK r : /\ r = disk.info[t] /\ t \in dev.told
               /\ disk' = [disk EXCEPT !.info[t].status = 0]
               /\ buf' = IF r.write THEN buf ELSE [buf EXCEPT ![r.i].data = dev.blocks[buf[r.i].blk]]
               /\ dev' = [dev EXCEPT !.blocks[buf[r.i].blk] = IF r.write THEN buf[r.i].data ELSE @,
                                     !.told = @ \ {t}, !.used[dev.usedIdx % NUM] = t,
                                     !.usedIdx = (@ + 1) % IdxMod, !.isr = TRUE]
               /\ UNCHANGED stack
  BY Zenon DEF DiskDone, DeviceDone
<1>2. DiskRec /\ DevRec /\ InFlight(t) BY <1>1 DEF DInv, InFlight
<1>3. PICK p \in Procs : \E i \in Bufs : Waits(p, i, t) BY <1>2, Awaits
<1>4. PICK i \in Bufs : Waits(p, i, t) BY <1>3
<1>5. t \in Descs /\ Request(disk.info[t], i) BY <1>4, AskedFacts, SMTT(30)
<1>6. disk' = [disk EXCEPT !.info[t].status = 0] BY <1>1
<1>7. /\ DiskRec' /\ disk'.usedIdx = disk.usedIdx /\ disk'.free = disk.free /\ disk'.chain = disk.chain
      /\ Request(disk'.info[t], i) /\ disk'.info[t].status = 0
      /\ \A e \in Descs : e # t => disk'.info[e] = disk.info[e]
  BY ONLY <1>2, <1>5, <1>6, SetStatus
<1>8. PICK u, w : u = disk.usedIdx /\ w = dev.usedIdx /\ u \in Idxs /\ w \in Idxs BY DInvType, SMTT(30)
<1>9. UsedCount < NUM /\ UsedCount = Ahead(u, w) /\ UsedCount \in Nat
  BY <1>1, <1>8, RoomForAnswer, DInvType DEF UsedCount
<1>10. PICK c, k : /\ c = UsedCount /\ c \in Nat /\ c < NUM /\ k = w % NUM /\ k \in Descs
                   /\ Ahead(u, After(w)) = c + 1 /\ UsedSlot(u, c) = k
                   /\ \A l \in Nat : l < c => UsedSlot(u, l) # k /\ UsedSlot(u, l) \in Descs
  BY <1>8, <1>9, PushUsed
<1>11. After(w) \in Idxs BY <1>8, AfterIs
<1>12. \E a, b : dev' = [dev EXCEPT !.blocks[a] = b, !.told = @ \ {t}, !.used[k] = t, !.usedIdx = After(w), !.isr = TRUE]
  <2>1. PICK a : a = buf[r.i].blk OBVIOUS
  <2>2. PICK B, T, U, x, s : /\ dev = [blocks |-> B, told |-> T, used |-> U, usedIdx |-> x, isr |-> s]
    BY <1>2 DEF DevRec
  <2>3. PICK b : b = IF r.write THEN buf[r.i].data ELSE B[a] OBVIOUS
  <2>4. (w + 1) % IdxMod = After(w) BY DEF After
  <2>5. dev' = [dev EXCEPT !.blocks[a] = b, !.told = @ \ {t}, !.used[k] = t, !.usedIdx = After(w), !.isr = TRUE]
    BY <1>1, <1>8, <1>10, <2>1, <2>2, <2>3, <2>4, Zenon
  <2> QED BY <2>5, Zenon
<1>12a. \A l \in Nat : l < c => UsedSlot(u, l) # k /\ UsedSlot(u, l) \in Descs
  BY <1>10
<1>13. /\ DevRec' /\ dev'.told = dev.told \ {t} /\ dev'.usedIdx = After(w) /\ dev'.isr = TRUE
       /\ dev'.used[k] = t /\ \A l \in Descs : l # k => dev'.used[l] = dev.used[l]
  <2>1. PICK a, b : dev' = [dev EXCEPT !.blocks[a] = b, !.told = @ \ {t}, !.used[k] = t, !.usedIdx = After(w), !.isr = TRUE]
    BY <1>12, Zenon
  <2>2. k \in Descs BY <1>10
  <2>3. PICK x, z, T : x = After(w) /\ z = TRUE /\ T = {t} OBVIOUS
  <2>4. dev' = [dev EXCEPT !.blocks[a] = b, !.told = @ \ T, !.used[k] = t, !.usedIdx = x, !.isr = z]
    BY <2>1, <2>3
  <2>7. Answers(t, a, b, k, x, z, T) BY ONLY <2>4 DEF Answers
  <2>5. DevRec /\ t \in Descs /\ x \in Idxs BY <1>2, <1>5, <1>11, <2>3
  <2>6. /\ DevRec' /\ dev'.told = dev.told \ T /\ dev'.usedIdx = x /\ dev'.isr = z
        /\ dev'.used[k] = t /\ \A l \in Descs : l # k => dev'.used[l] = dev.used[l]
    BY <2>2, <2>5, <2>7, SetAnswered
  <2> QED BY <2>3, <2>6
<1>14. FlagsSame
  <2>1. CASE buf' = buf BY <2>1 DEF FlagsSame
  <2>2. CASE \E j, v : buf' = [buf EXCEPT ![j].data = v] BY <2>2, DataTouched, Zenon DEF BInv
  <2> QED BY <1>1, <2>1, <2>2, Zenon
<1>15. WaitsSame BY <1>1, StackStays, WaitsJobs, Zenon
<1>16. UsedCount' = c + 1 BY <1>7, <1>8, <1>10, <1>13 DEF UsedCount
<1>17. UsedAt(c)' = t BY <1>7, <1>8, <1>10, <1>13 DEF UsedAt
<1>18. \A l \in Nat : l < c => UsedAt(l)' = UsedAt(l)
  <2>1. ASSUME NEW l \in Nat, l < c PROVE UsedAt(l)' = UsedAt(l)
    <3>1. PICK e : e = UsedSlot(u, l) OBVIOUS
    <3>2. e \in Descs /\ e # k BY <1>12a, <2>1, <3>1
    <3>3. dev'.used[e] = dev.used[e] BY <1>13, <3>2
    <3>4. UsedAt(l)' = dev'.used[e] /\ UsedAt(l) = dev.used[e] BY <1>7, <1>8, <3>1 DEF UsedAt
    <3> QED BY <3>3, <3>4
  <2> QED BY <2>1
<1>19. \A l \in Nat : l < c + 1 <=> l < c \/ l = c BY ONLY <1>10, SMTT(30)
<1>20. ~IsUsed(t) BY <1>1 DEF DInv, UsedOK
<1>21. ASSUME NEW d PROVE IsUsed(d)' <=> IsUsed(d) \/ d = t
  <2>1. ASSUME IsUsed(d)' PROVE IsUsed(d) \/ d = t
    <3>1. PICK l \in Nat : l < c + 1 /\ UsedAt(l)' = d BY <1>16, <2>1 DEF IsUsed
    <3> QED BY <1>10, <1>17, <1>18, <1>19, <3>1 DEF IsUsed
  <2>2. ASSUME IsUsed(d) PROVE IsUsed(d)'
    <3>1. PICK l \in Nat : l < c /\ UsedAt(l) = d BY <1>10, <2>2 DEF IsUsed
    <3>2. l < c + 1 BY <1>19, <3>1
    <3> QED BY <1>16, <1>18, <3>1, <3>2 DEF IsUsed
  <2>3. IsUsed(t)'
    <3>1. c < c + 1 /\ c \in Nat BY <1>10, <1>19, SMTT(30)
    <3> QED BY <1>16, <1>17, <3>1 DEF IsUsed
  <2> QED BY <2>1, <2>2, <2>3
<1>22. \A d : InFlight(d)' <=> InFlight(d) BY <1>1, <1>13, <1>21 DEF InFlight
<1>23. \A j, d : Asked(j, d) => Asked(j, d)'
  <2>1. ASSUME NEW j, NEW d, Asked(j, d) PROVE Asked(j, d)'
    <3>1. d \in Descs /\ ChainOf(d)' = ChainOf(d) BY <1>7, <2>1 DEF Asked, ChainOf
    <3>2. Request(disk'.info[d], j)
      <4>1. CASE d = t
        <5>1. j = i BY <1>5, <2>1, <4>1 DEF Asked, Request
        <5> QED BY <1>7, <4>1, <5>1
      <4>2. CASE d # t BY <1>7, <2>1, <3>1, <4>2 DEF Asked
      <4> QED BY <4>1, <4>2
    <3> QED BY <1>7, <2>1, <3>1, <3>2 DEF Asked
  <2> QED BY <2>1
<1>24. WaitOK'
  <2>1. \A q \in Procs, j \in Bufs : \A d : Waits(q, j, d)' => Asked(j, d)' /\ (buf'[j].disk => InFlight(d)')
    BY <1>14, <1>15, <1>22, <1>23 DEF DInv, WaitOK, WaitsSame, FlagsSame
  <2>2. \A d : ChainOf(d)' = ChainOf(d) BY <1>7 DEF ChainOf
  <2>3. \A q, s \in Procs, l, j \in Bufs : \A d, e : Alone(q, s, l, j, d, e)'
    BY <1>15, <2>2 DEF DInv, WaitOK, Alone, WaitsSame
  <2> QED BY <2>1, <2>3 DEF WaitOK
<1>25. FlyOK' BY <1>14, <1>15, <1>22 DEF DInv, FlyOK, WaitsSame, FlagsSame
<1>26. UsedOK'
  <2>1. c + 1 <= NUM
    <3>1. NUM \in Nat BY DiskCacheAssumption
    <3> QED BY ONLY <1>10, <3>1
  <2>2. ASSUME NEW l \in Nat, NEW m \in Nat, l < c + 1, m < c + 1, UsedAt(l)' = UsedAt(m)' PROVE l = m
    <3>1. (l < c \/ l = c) /\ (m < c \/ m = c) BY <1>19, <2>2
    <3>2. CASE l < c /\ m < c
      <4>1. UsedAt(l) = UsedAt(m) BY <1>18, <2>2, <3>2
      <4> QED BY <1>10, <3>2, <4>1 DEF DInv, UsedOK
    <3>3. CASE l < c /\ m = c
      <4>1. UsedAt(l) = t BY <1>17, <1>18, <2>2, <3>3
      <4> QED BY <1>10, <1>20, <3>3, <4>1 DEF IsUsed
    <3>4. CASE m < c /\ l = c
      <4>1. UsedAt(m) = t BY <1>17, <1>18, <2>2, <3>4
      <4> QED BY <1>10, <1>20, <3>4, <4>1 DEF IsUsed
    <3> QED BY <3>1, <3>2, <3>3, <3>4
  <2>3. ASSUME NEW d, IsUsed(d)' PROVE d \notin dev'.told /\ disk'.info[d].status = 0
    <3>1. CASE d = t BY <1>7, <1>13, <3>1
    <3>2. CASE d # t
      <4>1. IsUsed(d) BY <1>21, <2>3, <3>2
      <4>2. d \notin dev.told /\ disk.info[d].status = 0 BY <4>1 DEF DInv, UsedOK
      <4>3. d \in Descs BY <4>1, Awaits, AskedFacts DEF InFlight
      <4> QED BY <1>7, <1>13, <3>2, <4>2, <4>3
    <3> QED BY <3>1, <3>2
  <2> QED BY <1>16, <2>1, <2>2, <2>3 DEF UsedOK
<1> QED BY <1>7, <1>13, <1>14, <1>24, <1>25, <1>26 DEF DInv

-----------------------------------------------------------------------------
(* Every step leaves the rings as DInv says.                               *)
LEMMA WritesJobs == ASSUME WriteOK, JobsSame PROVE WriteOK'
<1>1. \A q \in Procs : JobKept(q) BY SameKept, Zenon
<1>2. ASSUME NEW q \in Procs, Has(q, "rw")' PROVE JobOf(q)'.write \in BOOLEAN
  <2>1. JobKept(q) BY <1>1
  <2>2. Has(q, "rw") /\ JobOf(q)' = JobOf(q) BY <1>2, <2>1 DEF JobKept, Has, JobOf
  <2> QED BY <2>2 DEF WriteOK
<1> QED BY <1>2 DEF WriteOK

LEMMA WritesSet ==
  ASSUME WriteOK, NEW p \in Procs,
         JobGone(p) \/ \E f : JobSet(p, f) /\ (f.at # "rw" \/ f.write \in BOOLEAN)
  PROVE  WriteOK'
<1>1. \A q \in Procs : q # p => JobKept(q) BY JobSetIs, JobGoneIs
<1>2. ASSUME NEW q \in Procs, Has(q, "rw")' PROVE JobOf(q)'.write \in BOOLEAN
  <2>1. CASE q # p
    <3>1. Has(q, "rw") /\ JobOf(q)' = JobOf(q) BY <1>1, <1>2, <2>1 DEF JobKept, Has, JobOf
    <3> QED BY <3>1 DEF WriteOK
  <2>2. CASE q = p
    <3>1. ~JobGone(p) BY <1>2, <2>2, JobGoneIs DEF Has
    <3>2. PICK f : JobSet(p, f) /\ (f.at # "rw" \/ f.write \in BOOLEAN) BY <3>1
    <3>3. JobOf(p)' = f BY <3>2, JobSetIs
    <3> QED BY <1>2, <2>2, <3>2, <3>3 DEF Has
  <2> QED BY <2>1, <2>2
<1> QED BY <1>2 DEF WriteOK

LEMMA WQuiet == ASSUME WInv, JobsSame, FlagsSame, UNCHANGED <<disk, dev>> PROVE WInv'
<1>1. WaitsSame BY WaitsJobs
<1> QED BY <1>1, DStays, WritesJobs DEF WInv

LEMMA WElsewhere ==
  ASSUME WInv, FlagsSame, UNCHANGED <<disk, dev>>,
         NEW p \in Procs, \A i \in Bufs : \A d : ~Waits(p, i, d),
         JobGone(p) \/ \E f : JobSet(p, f) /\ f.at # "wait" /\ (f.at # "rw" \/ f.write \in BOOLEAN)
  PROVE  WInv'
<1>1. WaitsSame BY WaitsElsewhere
<1> QED BY <1>1, DStays, WritesSet DEF WInv

LEMMA WorksElsewhere ==
  ASSUME NEW h \in Harts, NEW p \in Procs, NEW f, NEW at, Works(h, p, f, at), at # "wait"
  PROVE  \A i \in Bufs : \A d : ~Waits(p, i, d)
<1>1. IsJob(stack[p]) /\ JobOf(p) = f /\ f.at = at BY Zenon DEF Works
<1> QED BY <1>1, JobIs

LEMMA WCacheStep ==
  ASSUME HInv, BInv, WInv, NEW h \in Harts, CacheStep(h), UNCHANGED todo
  PROVE  WInv'
<1>1. CASE AcquireSleep(h)
  <2>1. UNCHANGED <<disk, dev>> BY <1>1 DEF AcquireSleep
  <2>2. PICK p \in Procs : \E f :
            /\ Works(h, p, f, "acquiresleep")
            /\ \/ buf[f.i].owner # None /\ UNCHANGED buf /\ JobSet(p, f) /\ SleepInside(h, <<"lock", f.i>>, <<f>>)
               \/ /\ UNCHANGED proc /\ \A j \in Bufs : buf'[j].disk = buf[j].disk
                  /\ \A j \in Bufs : buf[j].owner # None => buf'[j].owner # None
                  /\ JobGone(p) \/ \E g : JobSet(p, g) /\ g.at = "rw" /\ g.write \in BOOLEAN
    BY <1>1, BAcquireSleep
  <2>3. PICK f : /\ Works(h, p, f, "acquiresleep") /\ FlagsSame
                 /\ JobGone(p) \/ JobSet(p, f) \/ \E g : JobSet(p, g) /\ g.at = "rw" /\ g.write \in BOOLEAN
    BY <2>2 DEF FlagsSame
  <2>4. \A i \in Bufs : \A d : ~Waits(p, i, d) BY <2>3, WorksElsewhere
  <2>5. f.at = "acquiresleep" BY <2>3, Zenon DEF Works
  <2>6. JobGone(p) \/ \E g : JobSet(p, g) /\ g.at # "wait" /\ (g.at # "rw" \/ g.write \in BOOLEAN)
    BY <2>3, <2>5
  <2> QED BY <2>1, <2>3, <2>4, <2>6, WElsewhere
<1>2. CASE Deref(h)
  <2>1. UNCHANGED <<disk, dev>> BY <1>2 DEF Deref
  <2>2. PICK p \in Procs : \E f : /\ Works(h, p, f, "deref") /\ JobGone(p)
                                  /\ \A j \in Bufs : buf'[j].owner = buf[j].owner /\ buf'[j].disk = buf[j].disk
    BY <1>2, BDeref
  <2>3. PICK f : Works(h, p, f, "deref") /\ JobGone(p) /\ FlagsSame BY <2>2 DEF FlagsSame
  <2>4. \A i \in Bufs : \A d : ~Waits(p, i, d) BY <2>3, WorksElsewhere
  <2> QED BY <2>1, <2>3, <2>4, WElsewhere
<1>3. CASE DiskRw(h)
  <2>1. PICK p \in Procs : \E f : Works(h, p, f, "rw") /\ (Publishes(p, f) \/ Retries(p, f))
    BY <1>3, BDiskRw
  <2>2. PICK f : Works(h, p, f, "rw") /\ (Publishes(p, f) \/ Retries(p, f)) BY <2>1
  <2>3. CASE Publishes(p, f)
    <3>1. DInv' BY <2>2, <2>3, DPublish DEF WInv
    <3>2. PICK d : JobSet(p, NewJob(f, d)) BY <2>3 DEF Publishes
    <3>3. PICK g : g = NewJob(f, d) OBVIOUS
    <3>4. JobSet(p, g) /\ g.at # "rw" BY <3>2, <3>3 DEF NewJob
    <3> QED BY <3>1, <3>4, WritesSet DEF WInv
  <2>4. CASE Retries(p, f)
    <3>1. UNCHANGED <<disk, dev>> /\ FlagsSame /\ JobSet(p, f) BY <2>4 DEF Retries, FlagsSame
    <3>2. \A i \in Bufs : \A d : ~Waits(p, i, d) BY <2>2, WorksElsewhere
    <3>3. f.at = "rw" /\ f.write \in BOOLEAN BY <2>2, Zenon DEF Works, WInv, WriteOK, Has
    <3> QED BY <3>1, <3>2, <3>3, WElsewhere
  <2> QED BY <2>2, <2>3, <2>4
<1>4. CASE RwDone(h)
  <2>0. UNCHANGED dev BY <1>4 DEF RwDone
  <2>1. PICK p \in Procs : \E f : Works(h, p, f, "wait") /\ (Keeps(p, f) \/ Frees(h, p, f) \/ FreesTwice(f))
    BY <1>4, BRwDone
  <2>2. PICK f : Works(h, p, f, "wait") /\ (Keeps(p, f) \/ Frees(h, p, f) \/ FreesTwice(f)) BY <2>1
  <2>3. CASE Keeps(p, f)
    <3>1. UNCHANGED <<disk, dev>> /\ FlagsSame /\ JobSet(p, f) BY <2>0, <2>3 DEF Keeps, FlagsSame
    <3>2. IsJob(stack[p]) /\ JobOf(p) = f /\ f.at = "wait" BY <2>2, Zenon DEF Works
    <3>3. \A i : \A d : Waits(p, i, d)' <=> Waits(p, i, d) BY <3>1, <3>2, JobIs, JobSetIs
    <3>4. \A q \in Procs : q # p => JobKept(q) BY <3>1, JobSetIs
    <3>5. WaitsSame BY <3>3, <3>4, JobKeptIs DEF WaitsSame
    <3>6. f.at # "rw" BY <3>2
    <3> QED BY <3>1, <3>5, <3>6, DStays, WritesSet DEF WInv
  <2>4. CASE Frees(h, p, f)
    <3>1. DInv' BY <2>0, <2>2, <2>4, DFrees DEF WInv
    <3>2. JobGone(p) BY <2>4 DEF Frees
    <3> QED BY <3>1, <3>2, WritesSet DEF WInv
  <2>5. ~FreesTwice(f) BY <2>2, NeverFreedTwice DEF WInv
  <2> QED BY <2>2, <2>3, <2>4, <2>5
<1>5. CASE Ack(h)
  <2>1. JobsSame /\ UNCHANGED <<buf, disk>> BY <1>5, BAck
  <2>2. PICK v : dev' = [dev EXCEPT !.isr = v] BY <1>5 DEF Ack
  <2>3. DevRec' /\ dev'.told = dev.told /\ dev'.used = dev.used /\ dev'.usedIdx = dev.usedIdx
    BY <2>2, SetIsr DEF WInv, DInv
  <2>4. WaitsSame /\ FlagsSame BY <2>1, WaitsJobs DEF FlagsSame
  <2> QED BY <2>1, <2>3, <2>4, DSame, WritesJobs DEF WInv
<1>6. CASE Drain(h)
  <2>1. /\ JobsSame /\ UNCHANGED dev
        /\ \/ Returned(h)
           \/ /\ disk.usedIdx # dev.usedIdx /\ UNCHANGED plic
              /\ \E r : r = disk.info[dev.used[disk.usedIdx % NUM]] /\ (Stopped(r) \/ Drained(r))
    BY <1>6, BDrain
  <2>2. CASE Returned(h)
    <3>1. UNCHANGED <<buf, disk>> BY <2>2 DEF Returned
    <3> QED BY <2>1, <3>1, WQuiet DEF FlagsSame
  <2>3. ASSUME NEW r, r = disk.info[dev.used[disk.usedIdx % NUM]], disk.usedIdx # dev.usedIdx, Stopped(r) \/ Drained(r)
        PROVE  WInv'
    <3>1. r = disk.info[Oldest] BY <2>3 DEF Oldest
    <3>2. Drained(r) BY <2>3, <3>1, NeverStopped DEF WInv
    <3> QED BY <2>1, <2>3, <3>1, <3>2, DDrained, WritesJobs DEF WInv
  <2> QED BY <2>1, <2>2, <2>3
<1> QED BY <1>1, <1>2, <1>3, <1>4, <1>5, <1>6 DEF CacheStep

LEMMA WCalls ==
  ASSUME HInv, BInv, WInv, NEW h \in Harts, Calls(h)
  PROVE  WInv'
<1>1. UNCHANGED <<disk, dev>>
  BY Zenon DEF Calls, CallBread, CallModify, CallBwrite, CallBrelse, CallPin, CallRead, CallWrite, CallSleep,
         CallKill, CallReturn, Exit, driver
<1>2. \A p : stack[p] = <<>> => \A i \in Bufs : \A d : ~Waits(p, i, d) BY EmptyStack, NoJobs
<1>3. CASE CallBread(h)
  <2>1. CASE panic' = "bget" /\ UNCHANGED <<hart, lock, proc, stack, ticks, buf>>
    BY <1>1, <2>1, StackStays, WQuiet DEF FlagsSame
  <2>2. CASE /\ \E p \in Procs : \E f : JobSet(p, f) /\ f.at = "acquiresleep" /\ stack[p] = <<>>
             /\ \A j \in Bufs : buf'[j].owner = buf[j].owner /\ buf'[j].disk = buf[j].disk
    <3>1. PICK p \in Procs : \E f : JobSet(p, f) /\ f.at = "acquiresleep" /\ stack[p] = <<>>
      BY <2>2
    <3>2. PICK f : JobSet(p, f) /\ f.at # "wait" /\ f.at # "rw" BY <3>1
    <3>3. \A i \in Bufs : \A d : ~Waits(p, i, d) BY <1>2, <3>1
    <3>4. FlagsSame BY <2>2 DEF FlagsSame
    <3> QED BY <1>1, <3>2, <3>3, <3>4, WElsewhere
  <2> QED BY <1>3, <2>1, <2>2, BCallBread
<1>4. CASE CallModify(h)
  <2>1. JobsSame BY <1>4, StackStays DEF CallModify
  <2>2. PICK i, v : buf' = [buf EXCEPT ![i].data = v] BY <1>4 DEF CallModify
  <2>3. FlagsSame BY <2>2, DataTouched DEF BInv
  <2> QED BY <1>1, <2>1, <2>3, WQuiet
<1>5. CASE CallBwrite(h)
  <2>1. UNCHANGED buf BY <1>5 DEF CallBwrite, driver
  <2>2. PICK p \in Procs : \E i \in Bufs : \E f :
            JobSet(p, f) /\ f.at = "rw" /\ f.i = i /\ f.write \in BOOLEAN /\ buf[i].owner = p /\ stack[p] = <<>>
    BY <1>5, BCallBwrite
  <2>3. PICK f : JobSet(p, f) /\ f.at # "wait" /\ f.write \in BOOLEAN BY <2>2
  <2>4. \A i \in Bufs : \A d : ~Waits(p, i, d) BY <1>2, <2>2
  <2> QED BY <1>1, <2>1, <2>3, <2>4, WElsewhere DEF FlagsSame
<1>6. CASE CallBrelse(h)
  <2>1. PICK p \in Procs : \E i \in Bufs : \E f :
            /\ JobSet(p, f) /\ f.at = "deref" /\ buf[i].owner = p /\ stack[p] = <<>>
            /\ \A j \in Bufs : buf'[j].disk = buf[j].disk /\ (j # i => buf'[j].owner = buf[j].owner)
            /\ proc' = Woken(proc, <<"lock", i>>)
    BY <1>6, BCallBrelse
  <2>2. PICK f : JobSet(p, f) /\ f.at # "wait" /\ f.at # "rw" BY <2>1
  <2>3. FlagsSame BY <2>1 DEF FlagsSame
  <2>4. \A i \in Bufs : \A d : ~Waits(p, i, d) BY <1>2, <2>1
  <2> QED BY <1>1, <2>2, <2>3, <2>4, WElsewhere
<1>7. CASE CallPin(h)
  <2>1. JobsSame /\ FlagsSame BY <1>7, BCallPin, StackStays DEF FlagsSame
  <2> QED BY <1>1, <2>1, WQuiet
<1>8. CASE CallRead(h) \/ CallWrite(h) \/ CallSleep(h)
  <2>1. UNCHANGED buf BY <1>8 DEF CallRead, CallWrite, CallSleep, driver
  <2>2. PICK f, lk : f.at \notin JobAts /\ Begin(h, lk, f)
    <3>1. CASE CallRead(h)
      <4>1. PICK f : f = [at |-> "consoleread", n |-> Call(h).n, target |-> Call(h).n] /\ Begin(h, "cons", f)
        BY <3>1 DEF CallRead
      <4>2. f.at \notin JobAts BY <4>1 DEF JobAts
      <4> QED BY <4>1, <4>2
    <3>2. CASE CallWrite(h)
      <4>1. PICK f : f = [at |-> "putc", c |-> Call(h).c] /\ Begin(h, "uart", f)
        BY <3>2 DEF CallWrite
      <4>2. f.at \notin JobAts BY <4>1 DEF JobAts
      <4> QED BY <4>1, <4>2
    <3>3. CASE CallSleep(h)
      <4>1. PICK f : f = [at |-> "sleep", n |-> Call(h).n, since |-> None] /\ Begin(h, "ticks", f)
        BY <3>3 DEF CallSleep
      <4>2. f.at \notin JobAts BY <4>1 DEF JobAts
      <4> QED BY <4>1, <4>2
    <3> QED BY <1>8, <3>1, <3>2, <3>3
  <2>3. hart[h].proc # None /\ stack[hart[h].proc] = <<>>
    BY <1>8, Zenon DEF CallRead, CallWrite, CallSleep, Ready
  <2>4. JobsSame BY <2>2, <2>3, BeginJob
  <2> QED BY <1>1, <2>1, <2>4, WQuiet DEF FlagsSame
<1>9. CASE CallKill(h) \/ CallReturn(h) \/ Exit(h)
  <2>1. UNCHANGED <<buf, stack>> BY <1>9, Zenon DEF CallKill, CallReturn, Exit, driver
  <2> QED BY <1>1, <2>1, StackStays, WQuiet DEF FlagsSame
<1> QED BY <1>3, <1>4, <1>5, <1>6, <1>7, <1>8, <1>9 DEF Calls

LEMMA WNext ==
  ASSUME HInv, BInv, WInv, [Next]_vars
  PROVE  WInv'
<1>1. CASE UNCHANGED vars
  <2>1. UNCHANGED <<stack, buf, disk, dev>> BY <1>1 DEF vars
  <2> QED BY <2>1, StackStays, WQuiet DEF FlagsSame
<1>2. ASSUME NEW h \in Harts, HartStep(h), UNCHANGED <<driver, todo>> PROVE WInv'
  <2>1. UNCHANGED <<buf, disk, dev>> BY <1>2 DEF driver
  <2> QED BY <1>2, <2>1, HartStepSame, WQuiet DEF FlagsSame
<1>3. ASSUME NEW h \in Harts, CacheStep(h), UNCHANGED todo PROVE WInv' BY <1>3, WCacheStep
<1>4. ASSUME NEW h \in Harts, ConsoleStep(h) \/ UartDone(h), UNCHANGED <<buf, disk, dev>> PROVE WInv'
  BY <1>4, ConsoleSame, WQuiet DEF FlagsSame
<1>5. ASSUME NEW h \in Harts, Calls(h) PROVE WInv' BY <1>5, WCalls
<1>6. ASSUME NEW h \in Harts, External(h) PROVE WInv'
  <2>1. UNCHANGED <<buf, disk, dev>> BY <1>6 DEF External
  <2> QED BY <1>6, <2>1, ExternalSame, WQuiet DEF FlagsSame
<1>7. ASSUME NEW h \in Harts, UartDone(h) PROVE WInv'
  <2>1. UNCHANGED <<buf, disk, dev>> BY <1>7 DEF UartDone
  <2> QED BY <1>4, <1>7, <2>1
<1>8. CASE KeyPress \/ Transmitted
  <2>1. UNCHANGED <<stack, buf, disk, dev>> BY <1>8, Zenon DEF KeyPress, Transmitted
  <2> QED BY <2>1, StackStays, WQuiet DEF FlagsSame
<1>9. ASSUME NEW d, DiskDone(d) PROVE WInv'
  <2>1. JobsSame BY <1>9, BDeviceDone
  <2>2. DInv' BY <1>9, DAnswered DEF WInv
  <2> QED BY <2>1, <2>2, WritesJobs DEF WInv
<1> QED BY <1>1, <1>2, <1>3, <1>4, <1>5, <1>6, <1>7, <1>8, <1>9 DEF Next, Idling

LEMMA InitRings == ASSUME Init PROVE WInv
<1>1. /\ disk = [free |-> Descs, chain |-> [d \in Descs |-> <<>>], info |-> [d \in Descs |-> None],
                 avail |-> [d \in Descs |-> 0], availIdx |-> 0, usedIdx |-> 0]
      /\ dev = [blocks |-> [b \in Blocks |-> 0], told |-> {}, used |-> [d \in Descs |-> 0], usedIdx |-> 0, isr |-> FALSE]
  BY DEF Init, VirtioDiskInit
<1>2. 0 \in Descs /\ 0 \in Idxs /\ NUM \in Nat /\ 0 <= NUM /\ IdxMod \in Nat \ {0}
  BY DiskCacheAssumption DEF Descs, Idxs, IdxMod
<1>3. \A p \in Procs : ~IsJob(stack[p])
  <2>1. ASSUME NEW p \in Procs PROVE ~IsJob(stack[p])
    <3>1. PICK f : f = [at |-> "resume", intena |-> TRUE] /\ stack[p] = <<f>> BY FirstFrames
    <3>2. f.at \notin JobAts BY <3>1 DEF JobAts
    <3> QED BY <3>1, <3>2, BottomOne
  <2> QED BY <2>1, Zenon
<1>4. \A p \in Procs : \A i, d : ~Waits(p, i, d) BY <1>3 DEF Waits, Has
<1>5. DiskRec BY <1>1, <1>2 DEF DiskRec
<1>6. DevRec BY <1>1, <1>2 DEF DevRec
<1>7. UsedCount = 0
  <2>1. disk.usedIdx = 0 /\ dev.usedIdx = 0 BY <1>1
  <2> QED BY <1>2, <2>1, AheadIs DEF UsedCount
<1>8. \A d : ~IsUsed(d) /\ ~InFlight(d)
  <2>1. \A d : ~IsUsed(d) BY <1>7 DEF IsUsed
  <2>2. dev.told = {} BY <1>1
  <2> QED BY <2>1, <2>2 DEF InFlight
<1>9. WaitOK BY <1>4 DEF WaitOK, Alone
<1>10. FlyOK BY <1>8 DEF FlyOK
<1>11. UsedOK BY <1>2, <1>7, <1>8 DEF UsedOK
<1>12. WriteOK BY <1>3 DEF WriteOK, Has
<1> QED BY <1>5, <1>6, <1>9, <1>10, <1>11, <1>12 DEF WInv, DInv

-----------------------------------------------------------------------------
LEMMA CachePanics ==
  ASSUME HInv, BInv, DInv, NEW h \in Harts, CacheStep(h)
  PROVE  panic' = panic \/ panic' \in LockPanics
<1>1. CASE AcquireSleep(h) BY <1>1, Zenon DEF AcquireSleep, SleepInside, Acquire, Panic, LockPanics
<1>2. CASE Deref(h) BY <1>2 DEF Deref
<1>3. CASE DiskRw(h) BY <1>3, Zenon DEF DiskRw, Publish, Sleep, Panic, LockPanics
<1>4. CASE RwDone(h)
  <2>1. PICK p \in Procs : \E f : Works(h, p, f, "wait") BY <1>4, WorksAt DEF RwDone, JobAts
  <2>2. PICK f : Works(h, p, f, "wait") BY <2>1
  <2>3. f = Frame(h) /\ Range(disk.chain[f.head]) \cap disk.free = {} BY <2>2, WaitsFor, Zenon DEF Works
  <2>4. CASE Sleep(h, <<"buf", f.i>>, "vdisk", proc, <<f>>) BY <2>4, Zenon DEF Sleep, Panic, LockPanics
  <2>5. CASE UNCHANGED panic BY <2>5
  <2> QED BY <1>4, <2>3, <2>4, <2>5 DEF RwDone
<1>5. CASE Ack(h) BY <1>5 DEF Ack
<1>6. CASE Drain(h)
  <2>1. CASE UNCHANGED panic BY <2>1
  <2>2. ASSUME NEW r, r = disk.info[dev.used[disk.usedIdx % NUM]], disk.usedIdx # dev.usedIdx, Stopped(r)
        PROVE  FALSE
    BY <2>2, NeverStopped DEF Oldest
  <2> QED BY <1>6, <2>1, <2>2, Zenon DEF Drain, Stopped
<1> QED BY <1>1, <1>2, <1>3, <1>4, <1>5, <1>6 DEF CacheStep

LEMMA CallPanics ==
  ASSUME NEW h \in Harts, Calls(h)
  PROVE  panic' = panic \/ (panic' = "bget" /\ CallBread(h))
<1>1. CASE CallBread(h) BY <1>1 DEF CallBread, NoChange, Panic
<1>2. CASE \E lk, f : Begin(h, lk, f) BY <1>2 DEF Begin
<1>3. CASE UNCHANGED panic BY <1>3
<1>4. CallRead(h) \/ CallWrite(h) \/ CallSleep(h) \/ CallBwrite(h) => \E lk, f : Begin(h, lk, f)
  BY DEF CallRead, CallWrite, CallSleep, CallBwrite
<1>5. CallModify(h) => UNCHANGED panic BY DEF CallModify, NoChange
<1>6. CallPin(h) => UNCHANGED panic BY DEF CallPin, NoChange
<1>7. CallBrelse(h) => UNCHANGED panic BY DEF CallBrelse
<1>8. CallKill(h) => UNCHANGED panic BY DEF CallKill
<1>9. CallReturn(h) \/ Exit(h) => UNCHANGED panic BY Zenon DEF CallReturn, Exit
<1> QED BY <1>1, <1>2, <1>3, <1>4, <1>5, <1>6, <1>7, <1>8, <1>9 DEF Calls

LEMMA NextPanics ==
  ASSUME HInv, BInv, DInv, [Next]_vars
  PROVE  panic' = panic \/ (panic' = "bget" /\ \E h \in Harts : CallBread(h))
<1>1. panic' = panic \/ panic' \in OtherPanics BY NextKeeps DEF PanicOK
<1>2. ASSUME NEW h \in Harts, HartStep(h) PROVE panic' = panic BY <1>2, HartStepKeeps
<1>3. ASSUME NEW h \in Harts, CacheStep(h) PROVE panic' = panic
  <2>1. panic' = panic \/ panic' \in LockPanics BY <1>3, CachePanics
  <2> QED BY <1>1, <2>1, Zenon DEF LockPanics, OtherPanics
<1>4. ASSUME NEW h \in Harts, ConsoleStep(h) PROVE panic' = panic BY <1>4, ConsoleStepKeeps
<1>5. ASSUME NEW h \in Harts, Calls(h) PROVE panic' = panic \/ (panic' = "bget" /\ CallBread(h))
  BY <1>5, CallPanics
<1>6. ASSUME NEW h \in Harts, External(h) \/ UartDone(h) PROVE panic' = panic
  BY <1>6, ExternalKeeps, UartDoneKeeps
<1>7. ASSUME KeyPress \/ Transmitted \/ (\E d \in Descs : DiskDone(d)) \/ Idling \/ UNCHANGED vars PROVE panic' = panic
  <2>1. CASE KeyPress \/ Transmitted BY <2>1, Zenon DEF KeyPress, Transmitted
  <2>2. CASE \E d \in Descs : DiskDone(d) BY <2>2, Zenon DEF DiskDone, DeviceDone
  <2>3. CASE Idling \/ UNCHANGED vars BY <2>3 DEF Idling, vars
  <2> QED BY <1>7, <2>1, <2>2, <2>3
<1>8. CASE UNCHANGED vars BY <1>7, <1>8
<1>9. CASE Next BY <1>2, <1>3, <1>4, <1>5, <1>6, <1>7, <1>9 DEF Next
<1> QED BY <1>8, <1>9

LEMMA SoundInit == Init => Sound /\ OutOfBuffers
BY InitBuffers, InitRings, InitHolds, Zenon DEF Sound, OutOfBuffers

LEMMA SoundNext ==
  ASSUME HInv, Sound, OutOfBuffers, [Next]_vars
  PROVE  Sound' /\ OutOfBuffers'
<1>1. CASE panic = ""
  <2>1. BInv /\ WInv /\ DInv BY <1>1, Zenon DEF Sound, WInv
  <2>2. BInv' \/ panic' = "bget" BY <2>1, BNext
  <2>3. WInv' BY <2>1, WNext
  <2>4. panic' = panic \/ panic' = "bget" BY <2>1, NextPanics
  <2> QED BY <1>1, <2>2, <2>3, <2>4, Zenon DEF Sound, OutOfBuffers
<1>2. CASE panic # "" BY <1>2, Running, Zenon DEF Sound, OutOfBuffers, vars
<1> QED BY <1>1, <1>2, Zenon

(* free_desc() never finds a descriptor free already and virtio_disk_intr() *)
(* never finds a request without its answer (virtio_disk.c): the one panic  *)
(* that workloads can bring about is bget()'s, for want of a buffer         *)
(* (bio.c), whatever the number of descriptors and of buffers.              *)
THEOREM OnlyOutOfBuffers == Spec => []OutOfBuffers
<1>1. HInv /\ (Sound /\ OutOfBuffers) /\ [Next]_vars => (Sound /\ OutOfBuffers)' BY SoundNext
<1> QED BY <1>1, SoundInit, StacksMatch, PTL DEF Spec

LEMMA FrontKeeps ==
  ASSUME NEW i \in Bufs, LruOK, lru' = MovedToFront(i)
  PROVE  LruOK'
<1>1. NBUF \in Nat \ {0} BY DiskCacheAssumption
<1>2. PICK l : l = lru /\ \A j \in Bufs : \E k \in 1..NBUF : l[k] = j BY DEF LruOK
<1>3. \A k \in 1..NBUF : lru'[k] = IF k = 1 THEN i ELSE IF \E j \in k..NBUF : l[j] = i THEN l[k - 1] ELSE l[k]
  BY <1>2 DEF MovedToFront
<1>4. ASSUME NEW j \in Bufs PROVE \E k \in 1..NBUF : lru'[k] = j
  <2>1. PICK k \in 1..NBUF, m \in 1..NBUF : l[k] = j /\ l[m] = i BY <1>2
  <2>2. CASE j = i
    <3>1. 1 \in 1..NBUF /\ lru'[1] = i BY <1>1, <1>3
    <3> QED BY <2>2, <3>1
  <2>3. CASE j # i /\ \E n \in (k + 1)..NBUF : l[n] = i
    <3>1. k + 1 \in 1..NBUF /\ k + 1 # 1 /\ (k + 1) - 1 = k BY <1>1, <2>3
    <3>2. lru'[k + 1] = l[k] BY <1>3, <2>3, <3>1
    <3> QED BY <2>1, <3>1, <3>2
  <2>4. CASE j # i /\ ~\E n \in (k + 1)..NBUF : l[n] = i
    <3>1. k # 1 BY <1>1, <2>1, <2>4
    <3>2. ~\E n \in k..NBUF : l[n] = i
      <4>1. \A n \in k..NBUF : n = k \/ n \in (k + 1)..NBUF BY <1>1
      <4> QED BY <2>1, <2>4, <4>1
    <3> QED BY <1>3, <2>1, <3>1, <3>2
  <2> QED BY <2>2, <2>3, <2>4
<1> QED BY <1>4 DEF LruOK

LEMMA LruNext ==
  ASSUME HInv, BInv, LruOK, [Next]_vars
  PROVE  LruOK'
<1>1. CASE UNCHANGED lru BY <1>1 DEF LruOK
<1>2. ASSUME NEW h \in Harts, Deref(h) PROVE LruOK'
  <2>1. PICK p \in Procs : \E f : Works(h, p, f, "deref") BY <1>2, WorksAt DEF Deref, JobAts
  <2>2. PICK f : Works(h, p, f, "deref") BY <2>1
  <2>3. PICK i \in Bufs : i = f.i BY <2>2, Zenon DEF Works
  <2>4. lru' = MovedToFront(i) \/ UNCHANGED lru BY <1>2, <2>2, <2>3, Zenon DEF Deref, Works
  <2> QED BY <1>1, <2>4, FrontKeeps
<1>3. ASSUME NEW h \in Harts, CacheStep(h) PROVE Deref(h) \/ UNCHANGED lru
  BY <1>3, Zenon DEF CacheStep, AcquireSleep, DiskRw, RwDone, Ack, Drain
<1>4. ASSUME NEW h \in Harts, Calls(h) PROVE UNCHANGED lru
  BY <1>4, Zenon DEF Calls, CallBread, CallModify, CallBwrite, CallPin, CallBrelse, CallRead, CallWrite, CallSleep,
                 CallKill, CallReturn, Exit, driver
<1>5. ASSUME NEW h \in Harts, External(h) \/ UartDone(h) PROVE UNCHANGED lru BY <1>5, Zenon DEF External, UartDone
<1>6. KeyPress \/ Transmitted \/ (\E d \in Descs : DiskDone(d)) => UNCHANGED lru
  BY Zenon DEF KeyPress, Transmitted, DiskDone, DeviceDone
<1>7. Idling \/ UNCHANGED vars => UNCHANGED lru BY Zenon DEF Idling, vars
<1>8. ASSUME UNCHANGED driver PROVE UNCHANGED lru BY <1>8 DEF driver
<1>9. CASE Next BY <1>1, <1>2, <1>3, <1>4, <1>5, <1>6, <1>7, <1>8, <1>9, Zenon DEF Next
<1> QED BY <1>1, <1>7, <1>9

LEMMA RoomNext ==
  ASSUME HInv, Sound, LruOK, Roomy, NoPanic, [Next]_vars
  PROVE  LruOK' /\ NoPanic'
<1>1. panic = "" /\ BInv /\ DInv BY Zenon DEF Sound, NoPanic, WInv
<1>2. ASSUME NEW h \in Harts, CallBread(h), panic' = "bget" PROVE FALSE
  <2>1. Unused = {} BY <1>1, <1>2 DEF CallBread, NoChange
  <2>2. PICK i \in Bufs : Refs(i) = {} /\ Pinners(i) = {} BY DEF Roomy
  <2>3. Counts(i) BY <1>1 DEF BInv
  <2>4. buf[i].refcnt = 0 BY <2>2, <2>3, FS_EmptySet DEF Counts
  <2> QED BY <2>1, <2>4 DEF LruOK, Unused
<1>3. panic' = panic \/ (panic' = "bget" /\ \E h \in Harts : CallBread(h)) BY <1>1, NextPanics
<1> QED BY <1>1, <1>2, <1>3, LruNext, Zenon DEF NoPanic

LEMMA RoomInit == Init => LruOK /\ NoPanic
BY FirstList, InitHolds, Zenon DEF NoPanic

(* bget() panics only when somebody has, awaits, puts back or has pinned    *)
(* every buffer (bio.c:90): as long as there is one that nobody needs, no    *)
(* call, interrupt or completion makes the kernel panic, since refcnt is     *)
(* exact and no buffer drops out of the list that brelse() relinks.         *)
THEOREM NoPanicWithRoom == Spec /\ []Roomy => []NoPanic
<1>1. HInv /\ (Sound /\ OutOfBuffers) /\ [Next]_vars => (Sound /\ OutOfBuffers)' BY SoundNext
<1>2. HInv /\ (Sound /\ OutOfBuffers) /\ Roomy /\ (LruOK /\ NoPanic) /\ [Next]_vars => (LruOK /\ NoPanic)'
  BY RoomNext
<1> QED BY <1>1, <1>2, SoundInit, RoomInit, StacksMatch, PTL DEF Spec

-----------------------------------------------------------------------------
LEMMA AcksServe == \A h : Acks(h) => Serves(h)
BY DEF Acks, Serves, TopIs, ServeAts

LEMMA BaseServes == ASSUME NEW x, NEW s, Base(x, s) PROVE ~TopIs(s, ServeAts)
<1>1. CASE s = <<>> BY <1>1 DEF TopIs
<1>2. CASE s # <<>> /\ Head(s).at \in {"acquiresleep", "deref"} BY <1>2 DEF TopIs, ServeAts
<1>3. CASE s # <<>> /\ Head(s).at = "reacquire" BY <1>3 DEF TopIs, ServeAts
<1> QED BY <1>1, <1>2, <1>3 DEF Base

LEMMA CallServes == ASSUME NEW s, NEW lk, InCall(s, lk) PROVE s # <<>> /\ ~TopIs(s, ServeAts) /\ Head(s).at \notin ServeAts
BY DEF InCall, CallFrame, TopIs, ServeAts

(* The handler runs with interrupts off, and they were off before it took  *)
(* its lock.                                                               *)
LEMMA ModeServes ==
  ASSUME NEW x, NEW c, NEW s, NEW H, Mode(x, c, s, H), TopIs(s, ServeAts)
  PROVE  c.noff = 1 /\ ~c.intr /\ ~c.intena
<1>1. CASE Base(x, s) BY <1>1, BaseServes
<1>2. ASSUME NEW lk, InCall(s, lk) PROVE FALSE BY <1>2, CallServes
<1>3. ASSUME NEW lk, s # <<>>, Head(s).at = "spin", InCall(Tail(s), lk) PROVE FALSE
  BY <1>3, CallServes DEF TopIs, ServeAts
<1>4. CASE s # <<>> /\ Head(s).at \in {"uartintr", "trapret", "off"} BY <1>4 DEF TopIs, ServeAts
<1> QED BY <1>1, <1>2, <1>3, <1>4 DEF Mode

LEMMA ServesFacts ==
  ASSUME HInv, NEW h \in Harts, Serves(h)
  PROVE  /\ hart[h].noff = 1 /\ ~hart[h].intr /\ ~hart[h].intena /\ stack[Cur(h)] # <<>>
         /\ Head(stack[Cur(h)]).at \in {"ack", "drain", "spin"}
BY ModeOf, ModeServes DEF Serves, TopIs, ServeAts

LEMMA ServesAfter ==
  ASSUME HInv', NEW h \in Harts
  PROVE  /\ hart'[h].noff = 0 => ~Serves(h)'
         /\ hart'[h].intena = TRUE => ~Serves(h)'
<1>1. Mode(Cur(h)', hart'[h], stack'[Cur(h)'], LocksOf(h)') BY DEF HInv, ModeOK
<1>2. Serves(h)' => hart'[h].noff = 1 /\ ~hart'[h].intena BY <1>1, ModeServes DEF Serves
<1> QED BY <1>2

LEMMA ServesStay ==
  ASSUME HInv, UNCHANGED <<hart, stack>>, NEW h
  PROVE  Serves(h)' <=> Serves(h)
BY DEF Serves, Cur

(* Giving a lock back, going to sleep.                                     *)
LEMMA ServesOps ==
  ASSUME HInv, HInv', NEW h \in Harts, stack[Cur(h)] # <<>>, hart[h].noff = 1
  PROVE  /\ \A lk, fs : Release(h, lk, fs) => ~Serves(h)'
         /\ \A lk : TrapReturn(h, lk) => ~Serves(h)'
         /\ \A chan, lk, ps, fs : Sleep(h, chan, lk, ps, fs) => ~Serves(h)' \/ UNCHANGED <<hart, stack>>
<1>1. hart[h] \in HartRec /\ DOMAIN hart = Harts BY CurFacts DEF HInv, HType
<1>2. PopOff(hart[h]).noff = 0 /\ PopOff(hart[h]) \in HartRec BY <1>1, PopOffFacts
<1>3. \A lk, fs : Release(h, lk, fs) => ~Serves(h)'
  <2>1. ASSUME NEW lk, NEW fs, Release(h, lk, fs) PROVE ~Serves(h)'
    <3>1. hart'[h] = PopOff(hart[h]) BY <1>1, <2>1 DEF Release
    <3> QED BY <1>2, <3>1, ServesAfter
  <2> QED BY <2>1
<1>4. \A lk : TrapReturn(h, lk) => ~Serves(h)'
  <2>1. ASSUME NEW lk, TrapReturn(h, lk) PROVE ~Serves(h)'
    <3>1. PICK c \in HartRec : c = PopOff(hart[h]) BY <1>2
    <3>2. hart'[h] = [c EXCEPT !.intr = TRUE] BY <1>1, <2>1, <3>1 DEF TrapReturn
    <3>3. hart'[h].noff = 0 BY <1>2, <3>1, <3>2 DEF HartRec
    <3> QED BY <3>3, ServesAfter
  <2> QED BY <2>1
<1>5. \A chan, lk, ps, fs : Sleep(h, chan, lk, ps, fs) => ~Serves(h)' \/ UNCHANGED <<hart, stack>>
  <2>1. ASSUME NEW chan, NEW lk, NEW ps, NEW fs, Sleep(h, chan, lk, ps, fs) PROVE ~Serves(h)' \/ UNCHANGED <<hart, stack>>
    <3>1. CASE Panic("sched locks") BY <3>1, Zenon DEF Panic
    <3>2. CASE hart' = [hart EXCEPT ![h] = LeftTo(@, 1)]
      <4>1. hart'[h] = LeftTo(hart[h], 1) BY <1>1, <3>2
      <4> QED BY <1>1, <4>1, LeftFacts, ServesAfter
    <3> QED BY <2>1, <3>1, <3>2, Zenon DEF Sleep
  <2> QED BY <2>1
<1> QED BY <1>3, <1>4, <1>5

(* A lock that is taken with interrupts on is no handler's.                *)
LEMMA ServesAcquire ==
  ASSUME HInv, HInv', NEW h \in Harts, hart[h].noff = 0, hart[h].intr
  PROVE  /\ hart' = [hart EXCEPT ![h] = PushOff(@)] => ~Serves(h)'
         /\ \A lk, fs : Acquire(h, lk, fs) => ~Serves(h)' \/ UNCHANGED <<hart, stack>>
<1>1. hart[h] \in HartRec /\ DOMAIN hart = Harts BY CurFacts DEF HInv, HType
<1>2. hart[h].intr = TRUE BY <1>1 DEF HartRec
<1>3. PushOff(hart[h]).intena = TRUE BY <1>1, <1>2, PushOffFacts
<1>4. hart' = [hart EXCEPT ![h] = PushOff(@)] => ~Serves(h)' BY <1>1, <1>3, ServesAfter
<1>5. \A lk, fs : Acquire(h, lk, fs) => ~Serves(h)' \/ UNCHANGED <<hart, stack>>
  BY <1>4 DEF Acquire, Panic
<1> QED BY <1>4, <1>5

(* A trap with another handler.                                            *)
LEMMA OtherHandler ==
  ASSUME NEW fs, NEW lk, Handler(fs, lk), lk # "vdisk", NEW s, IsList(s), NEW a, a.at = "spin"
  PROVE  ~TopIs(fs \o s, ServeAts) /\ ~TopIs((<<a>> \o fs) \o s, ServeAts) /\ ~TopIs(<<a>> \o fs \o s, ServeAts)
<1>1. PICK f : /\ fs = <<f>> \/ \E g : fs = <<f, g>>
               /\ f.at \notin ServeAts /\ f.at # "spin"
  BY DEF Handler, HandlerFrame, ServeAts
<1>2. PICK t : IsList(t) /\ fs = <<f>> \o t
  <2>1. CASE fs = <<f>> BY <2>1, Joined, Empty
  <2>2. ASSUME NEW g, fs = <<f, g>> PROVE \E t : IsList(t) /\ fs = <<f>> \o t
    BY <2>2, Joined, Single, ZenonT(60)
  <2> QED BY <1>1, <2>1, <2>2
<1>3. PICK u : u = t \o s /\ IsList(u)
  <2>1. IsList(Chained(t, s)) BY <1>2, ListJoin
  <2> QED BY <2>1 DEF Chained
<1>4. fs \o s = <<f>> \o u BY <1>2, <1>3, OnTopMore
<1>5. IsList(fs) BY <1>2, OnTop
<1>6. (<<a>> \o fs) \o s = <<a>> \o (fs \o s) BY <1>5, OnTopMore
<1>7. PICK v : v = <<f>> \o u /\ IsList(v) /\ v # <<>> /\ Head(v) = f BY <1>3, OnTop
<1>8. PICK w : w = <<a>> \o v /\ w # <<>> /\ Head(w) = a /\ Tail(w) = v BY <1>7, OnTop
<1>9. ~TopIs(v, ServeAts) /\ ~TopIs(w, ServeAts) BY <1>1, <1>7, <1>8 DEF TopIs, ServeAts
<1>10. fs \o s = v /\ <<a>> \o (fs \o s) = w BY <1>4, <1>7, <1>8
<1> QED BY <1>6, <1>9, <1>10

-----------------------------------------------------------------------------
(* Only the claim of its interrupt makes a hart handle the disk.           *)
LEMMA ServesOthers ==
  ASSUME HInv, NEW h \in Harts, Shape(h), NEW g \in Harts, g # h
  PROVE  (Serves(g)' <=> Serves(g)) /\ (Acks(g)' <=> Acks(g))
<1>1. Cur(g)' = Cur(g) /\ stack'[Cur(g)] = stack[Cur(g)] BY ShapeKeeps
<1> QED BY <1>1 DEF Serves, Acks

LEMMA TrapServes ==
  ASSUME HInv, NEW h \in Harts, NEW fs, NEW lk, Handler(fs, lk), lk # "vdisk", Trap(h, lk, fs)
  PROVE  ~Serves(h)'
<1>1. hart[h] \in HartRec /\ DOMAIN hart = Harts /\ DOMAIN stack = Procs \cup Harts /\ Cur(h) \in Procs \cup Harts /\ IsList(stack[Cur(h)])
  BY CurFacts, Zenon DEF HInv, HType
<1>2. PICK c \in HartRec : c = [hart[h] EXCEPT !.intr = FALSE] BY <1>1 DEF HartRec
<1>3. c.proc = hart[h].proc BY <1>1, <1>2 DEF HartRec
<1>4. hart'[h] = PushOff(c) BY <1>1, <1>2, Zenon DEF Trap
<1>5. hart'[h].proc = hart[h].proc BY <1>2, <1>3, <1>4, PushOffFacts
<1>6. Cur(h)' = Cur(h) BY <1>5 DEF Cur
<1>7. PICK s : s = stack[Cur(h)] /\ IsList(s) BY <1>1
<1>8. PICK a : a = [at |-> "spin", lk |-> lk] OBVIOUS
<1>12. a.at = "spin" BY <1>8
<1>9. stack'[Cur(h)] = fs \o s \/ stack'[Cur(h)] = <<a>> \o fs \o s BY <1>1, <1>7, <1>8, Zenon DEF Trap
<1>10. ~TopIs(fs \o s, ServeAts) /\ ~TopIs(<<a>> \o fs \o s, ServeAts) BY <1>7, <1>12, OtherHandler
<1>11. ~TopIs(stack'[Cur(h)], ServeAts) BY <1>9, <1>10
<1> QED BY <1>6, <1>11 DEF Serves

LEMMA HartServes ==
  ASSUME HInv, NEW h \in Harts, HartStep(h)
  PROVE  Serves(h)' => Serves(h)
<1>0. HInv' BY HartStepKeeps
<1>1. hart[h] \in HartRec /\ DOMAIN hart = Harts /\ DOMAIN stack = Procs \cup Harts /\ Cur(h) \in Procs \cup Harts
  BY CurFacts, Zenon DEF HInv, HType
<1>2. CASE Spin(h)
  <2>1. stack[Cur(h)] # <<>> /\ Head(stack[Cur(h)]).at = "spin" /\ UNCHANGED hart
    BY <1>2, Zenon DEF Spin, At, Runs
  <2>2. PICK s : s = stack[Cur(h)] /\ IsList(s) BY CurFacts
  <2>3. stack'[Cur(h)] = <<>> \o Tail(s) BY <1>1, <1>2, <2>2 DEF Spin, Goto
  <2>4. <<>> \o Tail(s) = Tail(s) BY <2>1, <2>2, Pop
  <2>5. Cur(h)' = Cur(h) BY <2>1 DEF Cur
  <2>6. Serves(h)' = TopIs(Tail(s), ServeAts) BY <2>3, <2>4, <2>5 DEF Serves
  <2>7. PICK lk : InCall(Tail(s), lk) \/ InTrap(Cur(h), Tail(s), lk) BY <2>1, <2>2, SpinTop
  <2>8. Tail(s) # <<>> => Head(Tail(s)).at # "spin"
    BY <2>7 DEF InCall, CallFrame, InTrap, HandlerFrame
  <2> QED BY <2>1, <2>2, <2>6, <2>8 DEF Serves, TopIs
<1>3. CASE Reacquire(h)
  <2>1. stack[Cur(h)] # <<>> /\ Head(stack[Cur(h)]).at = "reacquire" /\ Acquire(h, Frame(h).lk, <<>>)
    BY <1>3, Zenon DEF Reacquire, At, Runs
  <2>2. hart[h].noff = 0 /\ hart[h].intr BY <2>1, QuietTop
  <2> QED BY <1>0, <2>1, <2>2, ServesAcquire, ServesStay
<1>4. CASE LoopTop(h)
  <2>1. hart[h].proc = None /\ Cur(h) = h /\ stack[h] = <<>> /\ UNCHANGED stack
    BY <1>4, Zenon DEF LoopTop, Cur
  <2>2. hart[h].noff = 0 BY <2>1, NoFrame
  <2>3. hart'[h] = [hart[h] EXCEPT !.intr = TRUE] BY <1>1, <1>4, Zenon DEF LoopTop
  <2>4. hart'[h].noff = 0 BY <1>1, <2>2, <2>3 DEF HartRec
  <2> QED BY <1>0, <2>4, ServesAfter
<1>5. CASE Tick(h)
  <2>1. HandlerFrame(Plain("clockintr"), "ticks") BY DEF HandlerFrame, Plain
  <2>2. Handler(<<Plain("clockintr")>>, "ticks") BY <2>1 DEF Handler
  <2>3. Trap(h, "ticks", <<Plain("clockintr")>>) BY <1>5 DEF Tick
  <2> QED BY <2>2, <2>3, TrapServes
<1>6. CASE Preempt(h)
  <2>1. hart'[h] = Yielded(hart[h]) BY <1>1, <1>6, Zenon DEF Preempt
  <2> QED BY <1>0, <1>1, <2>1, LeftFacts, ServesAfter
<1>7. CASE ClockIntr(h)
  <2>1. stack[Cur(h)] # <<>> /\ Head(stack[Cur(h)]).at = "clockintr"
    BY <1>7, Zenon DEF ClockIntr, At, Runs
  <2>2. hart[h].noff = 1 BY <2>1, TrapTop DEF TrapAts
  <2>3. CASE TrapReturn(h, "ticks") BY <1>0, <2>1, <2>2, <2>3, ServesOps
  <2>4. CASE hart' = [hart EXCEPT ![h] = Yielded(PopOff(@))]
    <3>1. PICK c \in HartRec : c = PopOff(hart[h]) BY <1>1, <2>2, PopOffFacts
    <3>2. hart'[h] = Yielded(c) BY <1>1, <2>4, <3>1
    <3> QED BY <1>0, <3>1, <3>2, LeftFacts, ServesAfter
  <2> QED BY <1>7, <2>3, <2>4 DEF ClockIntr
<1>8. CASE TrapDone(h)
  <2>1. stack[Cur(h)] # <<>> /\ Head(stack[Cur(h)]).at = "trapret" BY <1>8, Zenon DEF TrapDone, At, Runs
  <2>2. hart[h].noff = 0 BY <2>1, ReturnTop
  <2>3. hart'[h] = [hart[h] EXCEPT !.intr = TRUE] BY <1>1, <1>8 DEF TrapDone
  <2>4. hart'[h].noff = 0 BY <1>1, <2>2, <2>3 DEF HartRec
  <2> QED BY <1>0, <2>4, ServesAfter
<1>9. CASE SysSleep(h)
  <2>1. stack[Cur(h)] # <<>> /\ Head(stack[Cur(h)]).at = "sleep" BY <1>9, Zenon DEF SysSleep, At, Runs
  <2>2. hart[h].noff = 1 BY <2>1, CallTop DEF CallAts
  <2>3. \/ \E f : Sleep(h, <<"ticks">>, "ticks", proc, <<f>>)
        \/ Release(h, "ticks", <<>>)
    BY <1>9 DEF SysSleep
  <2> QED BY <1>0, <2>1, <2>2, <2>3, ServesOps, ServesStay
<1>10. ASSUME NEW p \in Procs, Pick(h, p) PROVE Serves(h)' => Serves(h)
  <2>1. hart[h].proc = None /\ stack[Cur(h)] = <<>> BY <1>10, Zenon DEF Pick, Cur
  <2>2. hart[h].noff = 0 BY <2>1, NoFrame
  <2>3. PICK c \in HartRec : c = PushOff(hart[h]) BY <1>1, PushOffFacts
  <2>4. c.noff = 1 BY <1>1, <2>2, <2>3, PushOffFacts
  <2>5. PICK d : d = [c EXCEPT !.proc = p, !.intena = Head(stack[p]).intena] OBVIOUS
  <2>6. d.noff = 1 BY <2>3, <2>4, <2>5 DEF HartRec
  <2>7. hart'[h] = PopOff(d) BY <1>1, <1>10, <2>3, <2>5, Zenon DEF Pick
  <2>8. PopOff(d) = [d EXCEPT !.noff = @ - 1, !.intr = d.noff = 1 /\ d.intena] BY DEF PopOff
  <2>9. d = [proc |-> d.proc, noff |-> d.noff, intena |-> d.intena, intr |-> d.intr]
    BY <2>3, <2>5 DEF HartRec
  <2>10. PopOff(d).noff = 0 BY <2>6, <2>8, <2>9
  <2> QED BY <1>0, <2>7, <2>10, ServesAfter
<1> QED BY <1>2, <1>3, <1>4, <1>5, <1>6, <1>7, <1>8, <1>9, <1>10 DEF HartStep

LEMMA CacheServes ==
  ASSUME HInv, NEW h \in Harts, CacheStep(h)
  PROVE  Serves(h)' => Serves(h)
<1>0. HInv' BY CacheStepKeeps
<1>1. hart[h] \in HartRec /\ DOMAIN hart = Harts BY CurFacts, Zenon DEF HInv, HType
<1>2. CASE AcquireSleep(h)
  <2>1. stack[Cur(h)] # <<>> /\ Head(stack[Cur(h)]).at = "acquiresleep"
    BY <1>2, Zenon DEF AcquireSleep, At, Runs
  <2>2. hart[h].noff = 0 /\ hart[h].intr BY <2>1, QuietTop
  <2>3. \/ \E chan, fs : SleepInside(h, chan, fs)
        \/ UNCHANGED hart
        \/ \E fs : Acquire(h, "vdisk", fs)
    BY <1>2 DEF AcquireSleep
  <2>4. ASSUME NEW chan, NEW fs, SleepInside(h, chan, fs) PROVE ~Serves(h)'
    <3>1. PICK c \in HartRec : c = PushOff(hart[h]) BY <1>1, PushOffFacts
    <3>2. hart'[h] = LeftTo(c, 1) BY <1>1, <2>2, <2>4, <3>1 DEF SleepInside
    <3> QED BY <1>0, <3>1, <3>2, LeftFacts, ServesAfter
  <2>5. UNCHANGED hart => ~Serves(h)' BY <1>0, <2>2, ServesAfter
  <2>6. ASSUME NEW fs, Acquire(h, "vdisk", fs) PROVE Serves(h)' => Serves(h)
    BY <1>0, <2>2, <2>6, ServesAcquire, ServesStay
  <2> QED BY <2>3, <2>4, <2>5, <2>6
<1>3. CASE Deref(h)
  <2>1. stack[Cur(h)] # <<>> /\ Head(stack[Cur(h)]).at = "deref" BY <1>3, Zenon DEF Deref, At, Runs
  <2>2. hart'[h].noff = 0 BY <1>3, <2>1, QuietTop DEF Deref
  <2> QED BY <1>0, <2>2, ServesAfter
<1>4. CASE DiskRw(h) \/ RwDone(h)
  <2>1. stack[Cur(h)] # <<>> /\ Head(stack[Cur(h)]).at \in {"rw", "wait"}
    BY <1>4, Zenon DEF DiskRw, RwDone, At, Runs
  <2>2. hart[h].noff = 1 BY <2>1, CallTop DEF CallAts
  <2>3. \/ \E chan, ps, fs : Sleep(h, chan, "vdisk", ps, fs)
        \/ \E fs : Release(h, "vdisk", fs)
        \/ UNCHANGED <<hart, stack>>
    BY <1>4 DEF DiskRw, RwDone, Publish, Panic
  <2> QED BY <1>0, <2>1, <2>2, <2>3, ServesOps, ServesStay
<1>5. CASE Ack(h) \/ Drain(h)
  <2>1. stack[Cur(h)] # <<>> /\ Head(stack[Cur(h)]).at \in ServeAts
    BY <1>5, Zenon DEF Ack, Drain, At, Runs, ServeAts
  <2> QED BY <2>1 DEF Serves, TopIs
<1> QED BY <1>2, <1>3, <1>4, <1>5 DEF CacheStep

LEMMA NotForDisk == UartNext[1] # "vdisk"
<1>1. CASE uart.rx = <<>> BY <1>1 DEF UartNext
<1>2. CASE uart.rx # <<>> BY <1>2 DEF UartNext
<1> QED BY <1>1, <1>2

LEMMA ConsoleServes ==
  ASSUME HInv, NEW h \in Harts, ConsoleStep(h) \/ UartDone(h)
  PROVE  Serves(h)' => Serves(h)
<1>0. HInv' BY ConsoleStepKeeps, UartDoneKeeps
<1>1. hart[h] \in HartRec /\ DOMAIN hart = Harts /\ DOMAIN stack = Procs \cup Harts /\ Cur(h) \in Procs \cup Harts
  BY CurFacts, Zenon DEF HInv, HType
<1>2. CASE ConsoleRead(h) \/ UartPutc(h)
  <2>1. stack[Cur(h)] # <<>> /\ Head(stack[Cur(h)]).at \in {"consoleread", "putc"}
    BY <1>2, Zenon DEF ConsoleRead, UartPutc, At, Runs
  <2>2. hart[h].noff = 1 /\ hart[h].intena = TRUE BY <1>1, <2>1, CallTop DEF CallAts, HartRec
  <2>3. \/ \E chan, lk, ps, fs : Sleep(h, chan, lk, ps, fs)
        \/ \E lk, fs : Release(h, lk, fs)
        \/ UNCHANGED hart
    BY <1>2 DEF ConsoleRead, UartPutc
  <2>4. UNCHANGED hart => ~Serves(h)' BY <1>0, <2>2, ServesAfter
  <2> QED BY <1>0, <2>1, <2>2, <2>3, <2>4, ServesOps, ServesStay
<1>3. CASE UartIntr(h)
  <2>1. stack[Cur(h)] # <<>> /\ Head(stack[Cur(h)]).at = "uartintr" /\ Acquire(h, UartNext[1], UartNext[2])
    BY <1>3, Zenon DEF UartIntr, At, Runs
  <2>2. PICK lk, fs : lk = UartNext[1] /\ fs = UartNext[2] OBVIOUS
  <2>3. Handler(fs, lk) /\ lk # "vdisk" /\ Acquire(h, lk, fs)
    BY <2>1, <2>2, UartNextFacts, NotForDisk
  <2>4. PICK s : s = stack[Cur(h)] /\ IsList(s) /\ s # <<>> BY <2>1, CurFacts
  <2>5. PICK t : t = Tail(s) /\ IsList(t) BY <2>4, Pop
  <2>6. CASE Panic("acquire") BY <2>6, ServesStay DEF Panic
  <2>7. CASE ~Panic("acquire")
    <3>1. hart'[h] = PushOff(hart[h]) BY <1>1, <2>3, <2>7 DEF Acquire
    <3>2. hart'[h].proc = hart[h].proc BY <1>1, <3>1, PushOffFacts
    <3>3. Cur(h)' = Cur(h) BY <3>2 DEF Cur
    <3>4. PICK a : a = [at |-> "spin", lk |-> lk] OBVIOUS
    <3>5. a.at = "spin" BY <3>4
    <3>6. stack'[Cur(h)] = fs \o t \/ stack'[Cur(h)] = (<<a>> \o fs) \o t
      BY <1>1, <2>3, <2>4, <2>5, <2>7, <3>4 DEF Acquire, Goto
    <3>7. ~TopIs(fs \o t, ServeAts) /\ ~TopIs((<<a>> \o fs) \o t, ServeAts)
      BY <2>3, <2>5, <3>5, OtherHandler
    <3>8. ~TopIs(stack'[Cur(h)], ServeAts) BY <3>6, <3>7
    <3> QED BY <3>3, <3>8 DEF Serves
  <2> QED BY <2>6, <2>7
<1>4. CASE KillLine(h) \/ Backspace(h) \/ Character(h)
  <2>1. stack[Cur(h)] # <<>> /\ Head(stack[Cur(h)]).at = "consoleintr"
    BY <1>4, Zenon DEF KillLine, Backspace, Character, At, Runs
  <2>2. hart[h].noff = 1 BY <2>1, TrapTop DEF TrapAts
  <2>3. UNCHANGED <<hart, stack>> \/ Release(h, "cons", <<>>)
    BY <1>4 DEF KillLine, Backspace, Character
  <2> QED BY <1>0, <2>1, <2>2, <2>3, ServesOps, ServesStay
<1>5. CASE UartDone(h)
  <2>1. stack[Cur(h)] # <<>> /\ Head(stack[Cur(h)]).at = "start" /\ TrapReturn(h, "uart")
    BY <1>5, Zenon DEF UartDone, UartIntrStart, At, Runs
  <2>2. hart[h].noff = 1 BY <2>1, TrapTop DEF TrapAts
  <2> QED BY <1>0, <2>1, <2>2, ServesOps
<1> QED BY <1>2, <1>3, <1>4, <1>5 DEF ConsoleStep

LEMMA CallsServe ==
  ASSUME HInv, NEW h \in Harts, Calls(h)
  PROVE  Serves(h)' => Serves(h)
<1>0. HInv' BY CallsKeep
<1>1. hart[h] \in HartRec /\ DOMAIN hart = Harts BY CurFacts, Zenon DEF HInv, HType
<1>2. stack[Cur(h)] = <<>> BY ShapeCalls
<1>3. hart[h].proc # None
  BY Zenon DEF Calls, Ready, CallBread, CallModify, CallBwrite, CallBrelse, CallPin, CallRead, CallWrite, CallSleep,
         CallKill, CallReturn, Exit
<1>4. hart[h].noff = 0 /\ hart[h].intr BY <1>2, <1>3, NoFrame
<1>5. \/ UNCHANGED hart
      \/ hart' = [hart EXCEPT ![h] = PushOff(@)]
      \/ hart' = [hart EXCEPT ![h] = LeftTo(PushOff(@), 1)]
  <2>1. CASE \E lk, f : Begin(h, lk, f) BY <2>1 DEF Begin
  <2>2. CallBread(h) => UNCHANGED hart BY DEF CallBread, Panic, NoChange
  <2>3. CallModify(h) \/ CallPin(h) \/ CallBrelse(h) \/ CallKill(h) \/ CallReturn(h) => UNCHANGED hart
    BY DEF CallModify, CallPin, CallBrelse, CallKill, CallReturn, NoChange
  <2>4. CallRead(h) \/ CallWrite(h) \/ CallSleep(h) \/ CallBwrite(h) => \E lk, f : Begin(h, lk, f)
    BY DEF CallRead, CallWrite, CallSleep, CallBwrite
  <2>5. Exit(h) => hart' = [hart EXCEPT ![h] = LeftTo(PushOff(@), 1)] BY Zenon DEF Exit
  <2> QED BY <2>1, <2>2, <2>3, <2>4, <2>5 DEF Calls
<1>6. CASE UNCHANGED hart BY <1>0, <1>4, <1>6, ServesAfter
<1>7. CASE hart' = [hart EXCEPT ![h] = PushOff(@)] BY <1>0, <1>4, <1>7, ServesAcquire
<1>8. CASE hart' = [hart EXCEPT ![h] = LeftTo(PushOff(@), 1)]
  <2>1. PICK c \in HartRec : c = PushOff(hart[h]) BY <1>1, PushOffFacts
  <2>2. hart'[h] = LeftTo(c, 1) BY <1>1, <1>8, <2>1
  <2> QED BY <1>0, <2>1, <2>2, LeftFacts, ServesAfter
<1> QED BY <1>5, <1>6, <1>7, <1>8

-----------------------------------------------------------------------------
LEMMA ServesNever ==
  ASSUME HInv, NEW h \in Harts, Moves(h)
  PROVE  \A g \in Harts : Serves(g)' => Serves(g)
<1>1. Shape(h) BY ShapeHart, ShapeDisk, ShapeConsole, ShapeCalls DEF Moves
<1>2. Serves(h)' => Serves(h) BY HartServes, CacheServes, ConsoleServes, CallsServe DEF Moves
<1> QED BY <1>1, <1>2, ServesOthers

(* Only its own next turn takes a hart away from the acknowledgement.      *)
LEMMA AcksTop ==
  ASSUME HInv, NEW k \in Harts, Acks(k)
  PROVE  /\ ~hart[k].intr /\ stack[Cur(k)] # <<>> /\ Head(stack[Cur(k)]).at \in {"ack", "spin"}
         /\ Head(stack[Cur(k)]).at = "spin" => TopIs(Tail(stack[Cur(k)]), {"ack"})
<1>1. Serves(k) BY AcksServe
<1>2. ~hart[k].intr /\ stack[Cur(k)] # <<>> BY <1>1, ServesFacts
<1> QED BY <1>2 DEF Acks, TopIs

LEMMA AckOfHart ==
  ASSUME HInv, NEW k \in Harts, Acks(k), Moves(k)
  PROVE  Acks(k)' \/ Ack(k)
<1>1. /\ ~hart[k].intr /\ stack[Cur(k)] # <<>> /\ Head(stack[Cur(k)]).at \in {"ack", "spin"}
      /\ Head(stack[Cur(k)]).at = "spin" => TopIs(Tail(stack[Cur(k)]), {"ack"})
  BY AcksTop
<1>2. \A label : At(k, label) => label \in {"ack", "spin"} BY <1>1 DEF At
<1>3. CASE Spin(k)
  <2>1. Head(stack[Cur(k)]).at = "spin" /\ UNCHANGED hart BY <1>3 DEF Spin, At
  <2>2. PICK s : s = stack[Cur(k)] /\ IsList(s) /\ Cur(k) \in Procs \cup Harts BY CurFacts
  <2>3. stack'[Cur(k)] = <<>> \o Tail(s) BY <1>3, <2>2 DEF Spin, Goto, HInv, HType
  <2>4. <<>> \o Tail(s) = Tail(s) BY <1>1, <2>2, Pop
  <2>5. Cur(k)' = Cur(k) BY <2>1 DEF Cur
  <2>6. Acks(k)' = TopIs(Tail(s), {"ack"}) BY <2>3, <2>4, <2>5 DEF Acks
  <2> QED BY <1>1, <2>1, <2>2, <2>6
<1>4. ASSUME HartStep(k) PROVE Spin(k)
  <2>1. ~(\E p \in Procs : Pick(k, p)) /\ ~LoopTop(k) BY <1>1, Zenon DEF Pick, LoopTop, Cur
  <2>2. ~Tick(k) /\ ~Preempt(k) BY <1>1, ZenonT(60) DEF Tick, Trap, Preempt
  <2> QED BY <1>2, <1>4, <2>1, <2>2 DEF HartStep, Reacquire, ClockIntr, TrapDone, SysSleep
<1>5. CacheStep(k) => Ack(k) BY <1>2 DEF CacheStep, AcquireSleep, Deref, DiskRw, RwDone, Drain
<1>6. ~UartDone(k) /\ ~ConsoleStep(k)
  <2>1. ~At(k, "start") /\ ~At(k, "consoleread") /\ ~At(k, "putc") /\ ~At(k, "uartintr") /\ ~At(k, "consoleintr")
    BY <1>2
  <2> QED BY <2>1 DEF UartDone, UartIntrStart, ConsoleStep, ConsoleRead, UartPutc, UartIntr, KillLine, Backspace, Character
<1>7. ~Calls(k) BY <1>1, ShapeCalls
<1> QED BY <1>3, <1>4, <1>5, <1>6, <1>7 DEF Moves

LEMMA AcksStay ==
  ASSUME HInv, NEW h \in Harts, Moves(h), NEW k \in Harts, Acks(k)
  PROVE  Acks(k)' \/ (k = h /\ Ack(h))
<1>1. Shape(h) BY ShapeHart, ShapeDisk, ShapeConsole, ShapeCalls DEF Moves
<1> QED BY <1>1, AckOfHart, ServesOthers

LEMMA PQuiet ==
  ASSUME PInv, IndicesSame, DiskLineSame, PlicRec', \A g \in Harts : (Serves(g)' => Serves(g)) /\ (Acks(g) => Acks(g)')
  PROVE  PInv'
<1>1. ("disk" \in plic'.pending <=> "disk" \in plic.pending) /\ ("disk" \in plic'.serving <=> "disk" \in plic.serving)
  BY DEF DiskLineSame
<1>2. disk'.usedIdx # dev'.usedIdx => "disk" \in plic'.pending \cup plic'.serving
  BY <1>1 DEF PInv, IndicesSame
<1>3. dev'.isr = TRUE => "disk" \in plic'.pending \/ \E h \in Harts : Acks(h)'
  BY <1>1 DEF PInv, IndicesSame
<1>4. \A h \in Harts : Serves(h)' => "disk" \in plic'.serving BY <1>1 DEF PInv
<1>5. \A g, h \in Harts : Serves(g)' /\ Serves(h)' => g = h BY DEF PInv
<1> QED BY <1>2, <1>3, <1>4, <1>5 DEF PInv

LEMMA RwIndices ==
  ASSUME DInv, NEW h \in Harts, DiskRw(h) \/ RwDone(h)
  PROVE  IndicesSame /\ UNCHANGED plic
<1>1. PICK F, C, I, A, x, u : disk = [free |-> F, chain |-> C, info |-> I, avail |-> A, availIdx |-> x, usedIdx |-> u]
  BY DEF DInv, DiskRec
<1>2. PICK B, T, U, w, s : dev = [blocks |-> B, told |-> T, used |-> U, usedIdx |-> w, isr |-> s]
  BY DEF DInv, DevRec
<1>3. ASSUME NEW i, NEW write, NEW idx, Publish(h, i, write, idx) PROVE IndicesSame
  <2>0. PICK t, r, S, v, y : t = idx[1] /\ r = [i |-> i, write |-> write, status |-> 255] /\ S = Range(idx)
                             /\ v = disk.availIdx % NUM /\ y = (disk.availIdx + 1) % IdxMod
    OBVIOUS
  <2>01. disk' = [disk EXCEPT !.free = @ \ S, !.chain[t] = idx, !.info[t] = r, !.avail[v] = t, !.availIdx = y]
    BY <1>1, <1>3, <2>0 DEF Publish
  <2>1. PICK F2, C2, I2, A2 : disk' = [free |-> F2, chain |-> C2, info |-> I2, avail |-> A2, availIdx |-> y, usedIdx |-> u]
    <3>1. PICK F2, C2, I2, A2 : F2 = F \ S /\ C2 = [C EXCEPT ![t] = idx] /\ I2 = [I EXCEPT ![t] = r] /\ A2 = [A EXCEPT ![v] = t]
      OBVIOUS
    <3>2. disk' = [free |-> F2, chain |-> C2, info |-> I2, avail |-> A2, availIdx |-> y, usedIdx |-> u]
      BY <1>1, <2>01, <3>1
    <3> QED BY <3>2
  <2>2. PICK T2 : dev' = [dev EXCEPT !.told = T2] BY <1>3 DEF Publish
  <2> QED BY <1>1, <1>2, <2>1, <2>2 DEF IndicesSame
<1>4. CASE DiskRw(h)
  <2>1. (\E i, write, idx : Publish(h, i, write, idx)) \/ UNCHANGED <<disk, dev>>
    BY <1>4 DEF DiskRw
  <2>2. UNCHANGED plic BY <1>4 DEF DiskRw
  <2> QED BY <1>3, <2>1, <2>2 DEF IndicesSame
<1>5. CASE RwDone(h)
  <2>1. UNCHANGED <<dev, plic>> BY <1>5 DEF RwDone
  <2>2. PICK f : \/ UNCHANGED disk
                 \/ disk' = [disk EXCEPT !.info[f.head] = None, !.chain[f.head] = <<>>,
                                         !.free = @ \cup Range(disk.chain[f.head])]
    BY <1>5, Zenon DEF RwDone
  <2>3. disk'.usedIdx = disk.usedIdx
    <3>1. PICK t, c, S : t = f.head /\ c = <<>> /\ S = Range(disk.chain[f.head]) OBVIOUS
    <3>2. UNCHANGED disk \/ disk' = [disk EXCEPT !.info[t] = None, !.chain[t] = c, !.free = @ \cup S]
      BY <2>2, <3>1
    <3>3. PICK F2, C2, I2 : F2 = F \cup S /\ C2 = [C EXCEPT ![t] = c] /\ I2 = [I EXCEPT ![t] = None]
      OBVIOUS
    <3>4. UNCHANGED disk \/ disk' = [free |-> F2, chain |-> C2, info |-> I2, avail |-> A, availIdx |-> x, usedIdx |-> u]
      BY <1>1, <3>2, <3>3
    <3> QED BY <1>1, <3>4
  <2> QED BY <2>1, <2>3 DEF IndicesSame
<1> QED BY <1>4, <1>5

LEMMA PMoves ==
  ASSUME HInv, PInv, NEW h \in Harts, Moves(h), ~Ack(h), IndicesSame, DiskLineSame, PlicRec'
  PROVE  PInv'
BY ServesNever, AcksStay, PQuiet

LEMMA PAlike ==
  ASSUME PInv, UNCHANGED <<disk, dev, plic>>
  PROVE  IndicesSame /\ DiskLineSame /\ PlicRec'
BY DEF PInv, PlicRec, IndicesSame, DiskLineSame

LEMMA PAck ==
  ASSUME HInv, DInv, PInv, NEW h \in Harts, Ack(h)
  PROVE  PInv'
<1>1. stack[Cur(h)] # <<>> /\ Head(stack[Cur(h)]).at = "ack" /\ UNCHANGED disk BY Zenon DEF Ack, At, Runs
<1>2. Serves(h) BY <1>1 DEF Serves, TopIs, ServeAts
<1>3. PICK v : v = FALSE /\ dev' = [dev EXCEPT !.isr = v] BY DEF Ack
<1>4. dev'.usedIdx = dev.usedIdx /\ dev'.isr = FALSE BY <1>3, SetIsr DEF DInv
<1>5. PICK P, S : P = plic.pending /\ S = plic.serving /\ plic = [pending |-> P, serving |-> S]
  BY DEF PInv, PlicRec
<1>6. plic' = [pending |-> P \ {"disk"}, serving |-> S] BY <1>5 DEF Ack
<1>7. "disk" \in S BY <1>2, <1>5 DEF PInv
<1>8. PlicRec' /\ "disk" \in plic'.serving BY <1>4, <1>6, <1>7 DEF PlicRec
<1>9. \A g \in Harts : Serves(g)' => Serves(g) BY ServesNever DEF Moves, CacheStep
<1>10. \A g, k \in Harts : Serves(g)' /\ Serves(k)' => g = k BY <1>9 DEF PInv
<1> QED BY <1>4, <1>8, <1>10 DEF PInv

LEMMA PDrain ==
  ASSUME HInv, DInv, PInv, NEW h \in Harts, Drain(h)
  PROVE  PInv'
<1>1. stack[Cur(h)] # <<>> /\ Head(stack[Cur(h)]).at = "drain" /\ UNCHANGED dev
  BY Zenon DEF Drain, At, Runs
<1>2. Serves(h) BY <1>1 DEF Serves, TopIs, ServeAts
<1>3. PICK P, S : P = plic.pending /\ S = plic.serving /\ plic = [pending |-> P, serving |-> S]
  BY DEF PInv, PlicRec
<1>4. "disk" \in S BY <1>2, <1>3 DEF PInv
<1>5. CacheStep(h) /\ Moves(h) /\ ~Ack(h)
  <2>1. ~At(h, "ack") BY <1>1 DEF At
  <2> QED BY <2>1 DEF Moves, CacheStep, Ack
<1>6. \A g \in Harts : (Serves(g)' => Serves(g)) /\ (Acks(g) => Acks(g)')
  BY <1>5, ServesNever, AcksStay
<1>7. CASE UNCHANGED plic
  <2>1. PlicRec' /\ plic'.pending = P /\ plic'.serving = S BY <1>1, <1>3, <1>7 DEF PInv, PlicRec
  <2>2. dev'.isr = TRUE => "disk" \in plic'.pending \/ \E g \in Harts : Acks(g)'
    BY <1>1, <1>3, <1>6, <2>1 DEF PInv
  <2>3. "disk" \in plic'.serving BY <1>4, <2>1
  <2>4. \A g, k \in Harts : Serves(g)' /\ Serves(k)' => g = k BY <1>6 DEF PInv
  <2> QED BY <2>1, <2>2, <2>3, <2>4 DEF PInv
<1>8. CASE disk.usedIdx = dev.usedIdx /\ TrapReturn(h, "vdisk") /\ plic' = Completed("disk") /\ UNCHANGED disk
  <2>1. plic' = [pending |-> P, serving |-> S \ {"disk"}] BY <1>3, <1>8 DEF Completed
  <2>2. PlicRec' /\ plic'.pending = P BY <1>1, <2>1 DEF PInv, PlicRec
  <2>3. disk'.usedIdx = dev'.usedIdx BY <1>1, <1>8
  <2>4. dev'.isr = TRUE => "disk" \in plic'.pending \/ \E g \in Harts : Acks(g)'
    BY <1>1, <1>3, <1>6, <2>2 DEF PInv
  <2>5. ~Serves(h)'
    <3>1. hart[h].noff = 1 BY <1>2, ServesFacts
    <3>2. HInv' BY <1>5, CacheStepKeeps
    <3> QED BY <1>1, <1>8, <3>1, <3>2, ServesOps
  <2>6. \A g \in Harts : ~Serves(g)' BY <1>2, <1>6, <2>5 DEF PInv
  <2> QED BY <2>2, <2>3, <2>4, <2>6 DEF PInv
<1> QED BY <1>7, <1>8 DEF Drain

LEMMA PDone ==
  ASSUME HInv, BInv, DInv, PInv, NEW d, DiskDone(d)
  PROVE  PInv'
<1>1. UNCHANGED <<hart, stack>> /\ plic' = [plic EXCEPT !.pending = IF dev.isr THEN @ ELSE @ \cup {"disk"}]
  BY Zenon DEF DiskDone, DeviceDone
<1>2. dev'.isr = TRUE BY DAnswered
<1>3. PICK P, S : P = plic.pending /\ S = plic.serving /\ plic = [pending |-> P, serving |-> S]
  BY DEF PInv, PlicRec
<1>4. \A g \in Harts : (Serves(g)' <=> Serves(g)) /\ (Acks(g)' <=> Acks(g))
  BY <1>1 DEF Serves, Acks, Cur
<1>5. "disk" \in plic'.pending \/ \E g \in Harts : Acks(g)
  <2>1. CASE dev.isr = TRUE
    <3>1. plic' = [pending |-> P, serving |-> S] BY <1>1, <1>3, <2>1
    <3> QED BY <1>3, <2>1, <3>1 DEF PInv
  <2>2. CASE dev.isr = FALSE
    <3>1. plic' = [pending |-> P \cup {"disk"}, serving |-> S] BY <1>1, <1>3, <2>2
    <3> QED BY <3>1
  <2> QED BY <2>1, <2>2 DEF PInv, PlicRec
<1>6. PlicRec' /\ plic'.serving = S
  <2>1. PICK Q : plic' = [plic EXCEPT !.pending = Q] BY <1>1, <1>3
  <2>2. plic' = [pending |-> Q, serving |-> S] BY <1>3, <2>1
  <2> QED BY <1>2, <2>2 DEF PlicRec
<1>7. "disk" \in plic'.pending \cup plic'.serving
  <2>1. ASSUME NEW g \in Harts, Acks(g) PROVE "disk" \in S BY <1>3, <2>1, AcksServe DEF PInv
  <2> QED BY <1>5, <1>6, <2>1
<1>8. \A g \in Harts : Serves(g)' => "disk" \in plic'.serving BY <1>3, <1>4, <1>6 DEF PInv
<1>9. \A g, k \in Harts : Serves(g)' /\ Serves(k)' => g = k BY <1>4 DEF PInv
<1>10. dev'.isr = TRUE => "disk" \in plic'.pending \/ \E g \in Harts : Acks(g)' BY <1>4, <1>5
<1> QED BY <1>6, <1>7, <1>8, <1>9, <1>10 DEF PInv

LEMMA PExternal ==
  ASSUME HInv, PInv, NEW h \in Harts, External(h)
  PROVE  PInv'
<1>1. Shape(h) /\ UNCHANGED <<disk, dev>> BY ShapeConsole DEF External
<1>2. PICK P, S : P = plic.pending /\ S = plic.serving /\ plic = [pending |-> P, serving |-> S]
  BY DEF PInv, PlicRec
<1>3. \A g \in Harts : g # h => (Serves(g)' <=> Serves(g)) /\ (Acks(g)' <=> Acks(g))
  BY <1>1, ServesOthers
<1>4. hart[h].intr BY Zenon DEF External, Trap
<1>5. ~Serves(h) /\ ~Acks(h) BY <1>4, ServesFacts, AcksServe
<1>6. CASE "disk" \in Claimable /\ plic' = Claimed("disk") /\ Trap(h, "vdisk", <<Plain("ack")>>)
  <2>1. plic' = [pending |-> P \ {"disk"}, serving |-> S \cup {"disk"}] /\ "disk" \notin S
    BY <1>2, <1>6 DEF Claimed, Claimable
  <2>2. \A g \in Harts : ~Serves(g) BY <1>2, <2>1 DEF PInv
  <2>3. PlicRec' /\ "disk" \in plic'.serving BY <1>1, <2>1 DEF PlicRec, PInv
  <2>4. Acks(h)'
    <3>1. hart[h] \in HartRec /\ DOMAIN hart = Harts /\ DOMAIN stack = Procs \cup Harts /\ Cur(h) \in Procs \cup Harts /\ IsList(stack[Cur(h)])
      BY CurFacts, Zenon DEF HInv, HType
    <3>2. PICK c \in HartRec : c = [hart[h] EXCEPT !.intr = FALSE] BY <3>1 DEF HartRec
    <3>3. c.proc = hart[h].proc BY <3>1, <3>2 DEF HartRec
    <3>4. hart'[h] = PushOff(c) BY <1>6, <3>1, <3>2, Zenon DEF Trap
    <3>5. hart'[h].proc = hart[h].proc BY <3>2, <3>3, <3>4, PushOffFacts
    <3>6. Cur(h)' = Cur(h) BY <3>5 DEF Cur
    <3>7. PICK s : s = stack[Cur(h)] /\ IsList(s) BY <3>1
    <3>8. PICK f, a : f = Plain("ack") /\ a = [at |-> "spin", lk |-> "vdisk"] OBVIOUS
    <3>9. f.at = "ack" /\ a.at = "spin" BY <3>8 DEF Plain
    <3>10. PICK t : t = <<f>> \o s /\ IsList(t) /\ t # <<>> /\ Head(t) = f BY <3>7, OnTop
    <3>11. PICK u : u = <<a>> \o t /\ u # <<>> /\ Head(u) = a /\ Tail(u) = t BY <3>10, OnTop
    <3>12. IsList(<<a>>) /\ IsList(<<f>>) BY Single
    <3>12a. (<<a>> \o <<f>>) \o s = u
      BY <3>7, <3>10, <3>11, <3>12, OnTopMore, SMTT(30)
    <3>13. stack'[Cur(h)] = t \/ stack'[Cur(h)] = u
      <4>1. stack'[Cur(h)] = <<f>> \o s \/ stack'[Cur(h)] = <<a>> \o <<f>> \o s
        BY <1>6, <3>1, <3>7, <3>8, Zenon DEF Trap
      <4> QED BY <3>10, <3>12a, <4>1
    <3>14. TopIs(t, {"ack"}) /\ TopIs(u, {"ack"}) BY <3>9, <3>10, <3>11 DEF TopIs
    <3>15. TopIs(stack'[Cur(h)], {"ack"}) BY <3>13, <3>14
    <3> QED BY <3>6, <3>15 DEF Acks
  <2>5. \A g, k \in Harts : Serves(g)' /\ Serves(k)' => g = k BY <1>3, <2>2
  <2> QED BY <2>3, <2>4, <2>5 DEF PInv
<1>7. CASE plic' = Claimed("uart") /\ Trap(h, UartNext[1], UartNext[2])
  <2>1. plic' = [pending |-> P \ {"uart"}, serving |-> S \cup {"uart"}] BY <1>2, <1>7 DEF Claimed
  <2>2. DiskLineSame BY <1>2, <2>1 DEF DiskLineSame
  <2>3. PlicRec' /\ IndicesSame BY <1>1, <2>1 DEF PlicRec, PInv, IndicesSame
  <2>4. ~Serves(h)' BY <1>7, UartNextFacts, NotForDisk, TrapServes
  <2>5. \A g \in Harts : (Serves(g)' => Serves(g)) /\ (Acks(g) => Acks(g)') BY <1>3, <1>5, <2>4
  <2> QED BY <2>2, <2>3, <2>5, PQuiet
<1> QED BY <1>6, <1>7 DEF External

LEMMA PNext ==
  ASSUME HInv, BInv, DInv, PInv, [Next]_vars
  PROVE  PInv'
<1>1. CASE UNCHANGED <<hart, stack, disk, dev, plic>>
  <2>1. \A g \in Harts : (Serves(g)' <=> Serves(g)) /\ (Acks(g)' <=> Acks(g))
    BY <1>1 DEF Serves, Acks, Cur
  <2> QED BY <1>1, <2>1, PAlike, PQuiet
<1>2. ASSUME NEW h \in Harts, HartStep(h), UNCHANGED <<driver, todo>> PROVE PInv'
  <2>1. UNCHANGED <<disk, dev, plic>> BY <1>2 DEF driver
  <2>2. Moves(h) BY <1>2 DEF Moves
  <2> QED BY <2>1, <2>2, PAck, PAlike, PMoves
<1>3. ASSUME NEW h \in Harts, CacheStep(h) PROVE PInv'
  <2>1. Moves(h) BY <1>3 DEF Moves
  <2>2. CASE AcquireSleep(h) \/ Deref(h)
    <3>1. UNCHANGED <<disk, dev, plic>> BY <2>2 DEF AcquireSleep, Deref
    <3> QED BY <2>1, <3>1, PAck, PAlike, PMoves
  <2>3. CASE DiskRw(h) \/ RwDone(h)
    <3>1. IndicesSame /\ UNCHANGED plic BY <2>3, RwIndices
    <3>2. DiskLineSame /\ PlicRec' BY <3>1 DEF DiskLineSame, PlicRec, PInv, IndicesSame
    <3> QED BY <2>1, <3>1, <3>2, PAck, PMoves
  <2> QED BY <1>3, <2>2, <2>3, PAck, PDrain DEF CacheStep
<1>4. ASSUME NEW h \in Harts, ConsoleStep(h), UNCHANGED <<buf, lru, disk, dev, plic, todo>> PROVE PInv'
  <2>1. Moves(h) BY <1>4 DEF Moves
  <2> QED BY <1>4, <2>1, PAck, PAlike, PMoves
<1>5. ASSUME NEW h \in Harts, Calls(h) PROVE PInv'
  <2>1. Moves(h) BY <1>5 DEF Moves
  <2>2. UNCHANGED <<disk, dev, plic>>
    BY <1>5, Zenon DEF Calls, CallBread, CallModify, CallBwrite, CallBrelse, CallPin, CallRead, CallWrite, CallSleep,
         CallKill, CallReturn, Exit, driver
  <2> QED BY <2>1, <2>2, PAck, PAlike, PMoves
<1>6. ASSUME NEW h \in Harts, UartDone(h) PROVE PInv'
  <2>1. Moves(h) /\ UNCHANGED <<disk, dev>> /\ plic' = Completed("uart")
    BY <1>6 DEF Moves, UartDone
  <2>2. PICK P, S : P = plic.pending /\ S = plic.serving /\ plic = [pending |-> P, serving |-> S]
    BY DEF PInv, PlicRec
  <2>3. plic' = [pending |-> P, serving |-> S \ {"uart"}] BY <2>1, <2>2 DEF Completed
  <2>4. IndicesSame /\ DiskLineSame /\ PlicRec'
    BY <2>1, <2>2, <2>3 DEF IndicesSame, DiskLineSame, PlicRec, PInv
  <2> QED BY <2>1, <2>4, PAck, PMoves
<1>7. CASE KeyPress \/ Transmitted
  <2>1. UNCHANGED <<hart, stack, disk, dev>> /\ plic' = [plic EXCEPT !.pending = @ \cup {"uart"}]
    BY <1>7, Zenon DEF KeyPress, Transmitted, Interrupts
  <2>2. PICK P, S : P = plic.pending /\ S = plic.serving /\ plic = [pending |-> P, serving |-> S]
    BY DEF PInv, PlicRec
  <2>3. plic' = [pending |-> P \cup {"uart"}, serving |-> S] BY <2>1, <2>2
  <2>4. IndicesSame /\ DiskLineSame /\ PlicRec'
    BY <2>1, <2>2, <2>3 DEF IndicesSame, DiskLineSame, PlicRec, PInv
  <2>5. \A g \in Harts : (Serves(g)' <=> Serves(g)) /\ (Acks(g)' <=> Acks(g))
    BY <2>1 DEF Serves, Acks, Cur
  <2> QED BY <2>4, <2>5, PQuiet
<1>8. CASE UNCHANGED vars BY <1>1, <1>8 DEF vars
<1> QED BY <1>2, <1>3, <1>4, <1>5, <1>6, <1>7, <1>8, PDone, PExternal DEF Next, Idling

LEMMA InitPlic == ASSUME Init PROVE PInv
<1>1. /\ plic = [pending |-> {}, serving |-> {}] /\ disk.usedIdx = 0
      /\ dev = [blocks |-> [b \in Blocks |-> 0], told |-> {}, used |-> [d \in Descs |-> 0], usedIdx |-> 0, isr |-> FALSE]
  BY DEF Init, PlicInit, VirtioDiskInit
<1>2. PlicRec /\ disk.usedIdx = dev.usedIdx /\ dev.isr = FALSE BY <1>1 DEF PlicRec
<1>3. ASSUME NEW h \in Harts PROVE ~Serves(h)
  <2>1. HInv BY InitHolds, Zenon
  <2>2. hart[h].noff = 0
    <3>1. PICK online : hart = [g \in Harts |-> [proc |-> None, noff |-> 0, intena |-> FALSE, intr |-> g \in online]]
      BY Zenon DEF Init, HartsInit
    <3> QED BY <3>1
  <2> QED BY <2>1, <2>2, ServesFacts
<1> QED BY <1>2, <1>3 DEF PInv

-----------------------------------------------------------------------------
LEMMA TxSizes == UART_TX_BUF_SIZE \in Nat \ {0} /\ TxMod \in Nat \ {0} /\ TxMod = 2 * UART_TX_BUF_SIZE
BY ConsoleAssumption DEF TxMod

(* uartstart() leaves the UART busy or the ring empty. *)
LEMMA StartIs ==
  ASSUME NEW u, UartIs(u), NEW v, v = UartStart(u)
  PROVE  UartIs(v) /\ (v.fifo = <<>> => v.w = v.r) /\ (v = u \/ (u.fifo = <<>> /\ u.w # u.r))
<1>1. CASE u.fifo = <<>> /\ u.w # u.r
  <2>1. PICK g, x : g = <<u.ring[u.r % UART_TX_BUF_SIZE]>> /\ x = (u.r + 1) % TxMod OBVIOUS
  <2>2. v = [u EXCEPT !.fifo = g, !.r = x] BY <1>1, <2>1 DEF UartStart, Sent
  <2>3. v = [ring |-> u.ring, r |-> x, w |-> u.w, fifo |-> g, rx |-> u.rx] BY <2>2 DEF UartIs
  <2>4. x \in 0..(TxMod - 1) BY <2>1, TxSizes DEF UartIs
  <2>5. g # <<>> BY <2>1
  <2> QED BY <1>1, <2>3, <2>4, <2>5 DEF UartIs
<1>2. CASE ~(u.fifo = <<>> /\ u.w # u.r) BY <1>2 DEF UartStart
<1> QED BY <1>1, <1>2

LEMMA UartSet ==
  ASSUME UartIs(uart), NEW g
  PROVE  /\ uart' = [uart EXCEPT !.fifo = g] => UartIs(uart') /\ uart'.r = uart.r /\ uart'.w = uart.w /\ uart'.fifo = g
         /\ uart' = [uart EXCEPT !.rx = g] => UartIs(uart') /\ uart'.r = uart.r /\ uart'.w = uart.w /\ uart'.fifo = uart.fifo
BY DEF UartIs

LEMMA TQuiet ==
  ASSUME TInv, TxSame, UartLine => UartLine'
  PROVE  TInv'
BY DEF TInv, TxSame, Idle

LEMMA UartAlike == ASSUME TInv, UNCHANGED uart PROVE TxSame
BY DEF TInv, TxSame

LEMMA EchoSame == ASSUME TInv, NEW c, Echo(c) PROVE TxSame
<1>1. PICK g : g = <<c>> /\ uart' = [uart EXCEPT !.fifo = g] /\ g # <<>> BY DEF Echo
<1> QED BY <1>1, UartSet DEF TxSame, TInv

LEMMA ReceivedSame == ASSUME TInv, uart' = Received PROVE TxSame
<1>1. PICK g : uart' = [uart EXCEPT !.rx = g] BY DEF Received, TInv, UartIs
<1> QED BY <1>1, UartSet DEF TxSame, TInv

(* What putc leaves: nobody has to wait for the UART any more.             *)
LEMMA PutStarts ==
  ASSUME TInv, NEW c, uart' = UartStart([uart EXCEPT !.ring[uart.w % UART_TX_BUF_SIZE] = c, !.w = (@ + 1) % TxMod])
  PROVE  TInv'
<1>1. PICK G, r, w, f, x : uart = [ring |-> G, r |-> r, w |-> w, fifo |-> f, rx |-> x] /\ r \in 0..(TxMod - 1)
  BY DEF TInv, UartIs
<1>2. PICK H, v : H = [G EXCEPT ![w % UART_TX_BUF_SIZE] = c] /\ v = (w + 1) % TxMod OBVIOUS
<1>3. PICK u : u = [uart EXCEPT !.ring[uart.w % UART_TX_BUF_SIZE] = c, !.w = (@ + 1) % TxMod]
  OBVIOUS
<1>4. u = [ring |-> H, r |-> r, w |-> v, fifo |-> f, rx |-> x] BY <1>1, <1>2, <1>3
<1>5. UartIs(u) BY <1>1, <1>4 DEF UartIs
<1>6. uart' = UartStart(u) BY <1>3
<1> QED BY <1>5, <1>6, StartIs DEF TInv, Idle

(* The interrupt line of the UART. *)
LEMMA LineStays ==
  ASSUME PInv
  PROVE  /\ UNCHANGED plic => (UartLine => UartLine')
         /\ plic' = Completed("disk") => (UartLine => UartLine')
         /\ \A P : P \in {plic.pending \ {"disk"}, plic.pending \cup {"disk"}, plic.pending} /\ plic' = [plic EXCEPT !.pending = P]
                     => (UartLine => UartLine')
         /\ plic' = Claimed("disk") => (UartLine => UartLine')
         /\ plic' = Claimed("uart") \/ Interrupts("uart") => UartLine'
<1>1. PICK P, S : P = plic.pending /\ S = plic.serving /\ plic = [pending |-> P, serving |-> S]
  BY DEF PInv, PlicRec
<1>2. UartLine = ("uart" \in P \cup S) BY <1>1 DEF UartLine
<1>3. ASSUME plic' = Completed("disk") PROVE UartLine => UartLine'
  <2>1. plic' = [pending |-> P, serving |-> S \ {"disk"}] BY <1>1, <1>3 DEF Completed
  <2> QED BY <1>2, <2>1 DEF UartLine
<1>4. ASSUME NEW Q, Q \in {P \ {"disk"}, P \cup {"disk"}, P}, plic' = [plic EXCEPT !.pending = Q] PROVE UartLine => UartLine'
  <2>1. plic' = [pending |-> Q, serving |-> S] BY <1>1, <1>4
  <2> QED BY <1>2, <1>4, <2>1 DEF UartLine
<1>5. ASSUME plic' = Claimed("disk") PROVE UartLine => UartLine'
  <2>1. plic' = [pending |-> P \ {"disk"}, serving |-> S \cup {"disk"}] BY <1>1, <1>5 DEF Claimed
  <2> QED BY <1>2, <2>1 DEF UartLine
<1>6. ASSUME plic' = Claimed("uart") PROVE UartLine'
  <2>1. plic' = [pending |-> P \ {"uart"}, serving |-> S \cup {"uart"}] BY <1>1, <1>6 DEF Claimed
  <2> QED BY <2>1 DEF UartLine
<1>7. ASSUME Interrupts("uart") PROVE UartLine'
  <2>1. plic' = [pending |-> P \cup {"uart"}, serving |-> S] BY <1>1, <1>7 DEF Interrupts
  <2> QED BY <2>1 DEF UartLine
<1>8. UNCHANGED plic => (UartLine => UartLine') BY DEF UartLine
<1> QED BY <1>1, <1>3, <1>4, <1>5, <1>6, <1>7, <1>8

LEMMA CacheLine ==
  ASSUME PInv, NEW h, CacheStep(h)
  PROVE  UartLine => UartLine'
<1>1. CASE Ack(h) BY <1>1, LineStays, SMTT(30) DEF Ack
<1>2. CASE Drain(h) BY <1>2, LineStays DEF Drain
<1>3. CASE AcquireSleep(h) \/ Deref(h) \/ DiskRw(h) \/ RwDone(h)
  BY <1>3, LineStays DEF AcquireSleep, Deref, DiskRw, RwDone
<1> QED BY <1>1, <1>2, <1>3 DEF CacheStep

LEMMA TConsole ==
  ASSUME PInv, TInv, NEW h, ConsoleStep(h), UNCHANGED plic
  PROVE  TInv'
<1>0. UartLine => UartLine' BY LineStays
<1>1. CASE UNCHANGED uart BY <1>0, <1>1, UartAlike, TQuiet
<1>2. CASE UartPutc(h)
  <2>1. UNCHANGED uart \/ \E c : uart' = UartStart([uart EXCEPT !.ring[uart.w % UART_TX_BUF_SIZE] = c, !.w = (@ + 1) % TxMod])
    BY <1>2, Zenon DEF UartPutc
  <2> QED BY <1>1, <2>1, PutStarts, Zenon
<1>3. CASE UartIntr(h)
  <2>1. TxSame BY <1>3, ReceivedSame DEF UartIntr
  <2> QED BY <1>0, <2>1, TQuiet
<1>4. CASE KillLine(h) \/ Backspace(h) \/ Character(h)
  <2>1. UNCHANGED uart \/ \E c : Echo(c) BY <1>4 DEF KillLine, Backspace, Character
  <2> QED BY <1>0, <1>1, <2>1, EchoSame, TQuiet
<1>5. ConsoleRead(h) => UNCHANGED uart BY DEF ConsoleRead
<1> QED BY <1>1, <1>2, <1>3, <1>4, <1>5 DEF ConsoleStep

LEMMA TNext ==
  ASSUME PInv, TInv, [Next]_vars
  PROVE  TInv'
<1>1. CASE UNCHANGED <<uart, plic>> BY <1>1, LineStays, UartAlike, TQuiet
<1>2. ASSUME NEW h \in Harts, HartStep(h), UNCHANGED <<driver, todo>> PROVE TInv'
  BY <1>1, <1>2 DEF driver
<1>3. ASSUME NEW h \in Harts, CacheStep(h), UNCHANGED uart PROVE TInv'
  BY <1>3, CacheLine, UartAlike, TQuiet
<1>4. ASSUME NEW h \in Harts, Calls(h) PROVE TInv'
  <2>1. UNCHANGED <<uart, plic>>
    BY <1>4, Zenon DEF Calls, CallBread, CallModify, CallBwrite, CallBrelse, CallPin, CallRead, CallWrite, CallSleep,
         CallKill, CallReturn, Exit, driver
  <2> QED BY <1>1, <2>1
<1>5. ASSUME NEW h \in Harts, External(h) PROVE TInv'
  <2>1. TxSame BY <1>5, UartAlike, ReceivedSame DEF External
  <2>2. UartLine => UartLine' BY <1>5, LineStays DEF External
  <2> QED BY <2>1, <2>2, TQuiet
<1>6. ASSUME NEW h \in Harts, UartDone(h) PROVE TInv'
  <2>1. UartIs(uart) /\ uart' = UartStart(uart) BY <1>6 DEF UartDone, UartIntrStart, TInv
  <2> QED BY <2>1, StartIs DEF TInv, Idle
<1>7. CASE KeyPress
  <2>1. PICK g : uart' = [uart EXCEPT !.rx = g] BY <1>7, Zenon DEF KeyPress, TInv, UartIs
  <2>2. TxSame BY <2>1, UartSet DEF TxSame, TInv
  <2>3. UartLine' BY <1>7, LineStays, Zenon DEF KeyPress
  <2> QED BY <2>2, <2>3, TQuiet
<1>8. CASE Transmitted
  <2>1. uart' = [uart EXCEPT !.fifo = <<>>] BY <1>8, Zenon DEF Transmitted
  <2>2. UartIs(uart') BY <2>1, UartSet DEF TInv
  <2>3. UartLine' BY <1>8, LineStays, Zenon DEF Transmitted
  <2> QED BY <2>2, <2>3 DEF TInv
<1>9. ASSUME NEW d, DiskDone(d) PROVE TInv'
  <2>1. UNCHANGED uart /\ plic' = [plic EXCEPT !.pending = IF dev.isr THEN @ ELSE @ \cup {"disk"}]
    BY <1>9, Zenon DEF DiskDone, DeviceDone
  <2>2. PICK Q : Q \in {plic.pending \cup {"disk"}, plic.pending} /\ plic' = [plic EXCEPT !.pending = Q]
    BY <2>1 DEF PInv, PlicRec
  <2> QED BY <2>1, <2>2, LineStays, UartAlike, TQuiet
<1>10. CASE UNCHANGED vars BY <1>1, <1>10 DEF vars
<1>11. ASSUME NEW h \in Harts, ConsoleStep(h), UNCHANGED <<buf, lru, disk, dev, plic, todo>> PROVE TInv'
  BY <1>11, TConsole
<1> QED BY <1>2, <1>3, <1>4, <1>5, <1>6, <1>7, <1>8, <1>9, <1>10, <1>11 DEF Next, Idling

LEMMA InitUart == ASSUME Init PROVE TInv
<1>1. PICK G : uart = [ring |-> G, r |-> 0, w |-> 0, fifo |-> <<>>, rx |-> <<>>]
  BY DEF Init, UartInit
<1>2. uart.w = uart.r BY <1>1
<1> QED BY <1>1, <1>2, TxSizes DEF TInv, UartIs

-----------------------------------------------------------------------------
LEMMA SStep ==
  ASSUME SInv, Settled, NEW p,
         \A q \in Procs : q # p => Calm(q) /\ WaitsStay(q),
         p \in Procs => (proc'[p].state = "SLEEPING" => WaitsOn(p, proc[p].chan)')
  PROVE  SInv'
<1>1. ASSUME NEW q \in Procs, q # p, proc'[q].state = "SLEEPING" PROVE WaitsOn(q, proc[q].chan)'
  <2>1. PICK c : c = proc[q].chan /\ proc'[q].chan = c /\ proc[q].state = "SLEEPING"
    BY <1>1 DEF Calm
  <2>2. WaitsOn(q, c) BY <2>1 DEF SInv
  <2>3. ~Deserted(c) BY <1>1, <2>1 DEF Deserted
  <2>4. CASE c = <<"free">> /\ Cardinality(disk.free) < 3
    BY <2>1, <2>3, <2>4 DEF Settled, FreeOK, WaitsOn
  <2>5. CASE c = <<"line">> /\ cons.r = cons.w BY <2>1, <2>3, <2>5 DEF Settled, LineOK, WaitsOn
  <2>6. CASE c = <<"tx">> /\ TxFull BY <2>1, <2>3, <2>6 DEF Settled, TxOK, WaitsOn
  <2>7. CASE c = <<"ticks">> BY <2>1, <2>7 DEF WaitsOn
  <2>8. ASSUME NEW i \in Bufs, c = <<"lock", i>>, buf[i].owner # None PROVE WaitsOn(q, proc[q].chan)'
    <3>1. buf'[i].owner # None BY <2>3, <2>8 DEF Settled, LocksOK
    <3> QED BY <2>1, <2>8, <3>1 DEF WaitsOn
  <2>9. ASSUME NEW i \in Bufs, c = <<"buf", i>>, buf[i].disk, NEW d, Waits(q, i, d) PROVE WaitsOn(q, proc[q].chan)'
    <3>1. buf'[i].disk BY <2>3, <2>9 DEF Settled, DisksOK
    <3>2. Waits(q, i, d)' BY <1>1, <2>9 DEF WaitsStay
    <3> QED BY <2>1, <2>9, <3>1, <3>2 DEF WaitsOn
  <2> QED BY <2>2, <2>4, <2>5, <2>6, <2>7, <2>8, <2>9 DEF WaitsOn
<1>2. ASSUME NEW q \in Procs, proc'[q].state = "SLEEPING" PROVE WaitsOn(q, proc[q].chan)'
  BY <1>1, <1>2
<1> QED BY <1>2 DEF SInv

LEMMA KeptWaits ==
  /\ \A q : JobKept(q) => WaitsStay(q)
  /\ JobsSame => \A q \in Procs : WaitsStay(q)
  /\ \A p : (JobGone(p) \/ \E f : JobSet(p, f)) => \A q \in Procs : q # p => WaitsStay(q)
<1>1. ASSUME NEW q, JobKept(q) PROVE WaitsStay(q) BY <1>1, JobKeptIs DEF WaitsStay
<1>2. JobsSame => \A q \in Procs : WaitsStay(q) BY <1>1, SameKept, Zenon
<1>3. ASSUME NEW p, JobGone(p) \/ \E f : JobSet(p, f), NEW q \in Procs, q # p PROVE WaitsStay(q)
  <2>1. Same(stack'[q], stack[q]) BY <1>3 DEF JobGone, JobSet
  <2>2. JobKept(q) BY <2>1 DEF Same, JobKept
  <2> QED BY <1>1, <2>2
<1> QED BY <1>1, <1>2, <1>3

LEMMA SJobs ==
  ASSUME SInv, Settled, JobsSame, \A q \in Procs : Calm(q)
  PROVE  SInv'
<1>1. None \notin Procs BY HartsAssumption
<1> QED BY <1>1, KeptWaits, SStep

LEMMA SOwn ==
  ASSUME SInv, Settled, NEW p \in Procs, JobGone(p) \/ (\E f : JobSet(p, f)) \/ JobsSame,
         \A q \in Procs : q # p => Calm(q), proc'[p].state = "SLEEPING" => WaitsOn(p, proc[p].chan)'
  PROVE  SInv'
<1>1. \A q \in Procs : q # p => WaitsStay(q) BY KeptWaits
<1> QED BY <1>1, SStep

-----------------------------------------------------------------------------
(* What steps do to sleepers.                                              *)
LEMMA CalmSame == ASSUME UNCHANGED proc PROVE \A q : Calm(q)
BY DEF Calm

LEMMA CalmWoken ==
  ASSUME NEW c, proc' = Woken(proc, c)
  PROVE  (\A q \in Procs : Calm(q)) /\ Deserted(c)
<1>1. ASSUME NEW q \in Procs PROVE Calm(q) /\ ~(proc'[q].state = "SLEEPING" /\ proc'[q].chan = c)
  <2>1. CASE proc[q].state = "SLEEPING" /\ proc[q].chan = c
    <3>1. proc'[q] = [proc[q] EXCEPT !.state = "RUNNABLE", !.chan = None] BY <2>1, Zenon DEF Woken
    <3>2. proc'[q].state # "SLEEPING" BY <3>1
    <3> QED BY <3>2 DEF Calm
  <2>2. CASE ~(proc[q].state = "SLEEPING" /\ proc[q].chan = c)
    <3>1. proc'[q] = proc[q] BY <2>2, Zenon DEF Woken
    <3> QED BY <2>2, <3>1 DEF Calm
  <2> QED BY <2>1, <2>2
<1> QED BY <1>1 DEF Deserted

LEMMA RunsAwake ==
  ASSUME HInv, NEW h \in Harts, hart[h].proc # None
  PROVE  hart[h].proc \in Procs /\ proc[hart[h].proc].state = "RUNNING" /\ ProcRec(proc[hart[h].proc])
<1>1. hart[h].proc \in Procs BY Zenon DEF HInv, HType, HartRec
<1> QED BY <1>1, Zenon DEF HInv, HType, RunOK

LEMMA WokenOne ==
  ASSUME NEW q \in Procs, NEW d, NEW r, r = Woken(proc, d)[q]
  PROVE  r.state = "SLEEPING" => proc[q].state = "SLEEPING" /\ r.chan = proc[q].chan
<1>1. CASE proc[q].state = "SLEEPING" /\ proc[q].chan = d
  <2>1. r = [proc[q] EXCEPT !.state = "RUNNABLE", !.chan = None] BY <1>1 DEF Woken
  <2>2. r.state # "SLEEPING" BY <2>1
  <2> QED BY <2>2
<1>2. CASE ~(proc[q].state = "SLEEPING" /\ proc[q].chan = d) BY <1>2 DEF Woken
<1> QED BY <1>1, <1>2

(* The table with the state of the process that runs changed. *)
LEMMA SetProc ==
  ASSUME HInv, NEW p \in Procs, NEW ps, ps = proc \/ \E c : ps = Woken(proc, c), NEW s,
         proc' = [ps EXCEPT ![p].state = s]
  PROVE  (\A q \in Procs : q # p => Calm(q)) /\ proc'[p].state = s
<1>0. Wakes(ps) BY WakesFacts
<1>1. ps = [q \in Procs |-> ps[q]] /\ ProcRec(ps[p]) BY <1>0 DEF Wakes
<1>2. PICK c, k, t : ps[p] = [state |-> t, chan |-> c, killed |-> k] BY <1>1 DEF ProcRec
<1>3. proc'[p].state = s BY <1>1, <1>2
<1>4. ASSUME NEW q \in Procs, q # p PROVE Calm(q)
  <2>1. proc'[q] = ps[q] BY <1>1, <1>4
  <2>2. CASE ps = proc BY <2>1, <2>2 DEF Calm
  <2>3. ASSUME NEW d, ps = Woken(proc, d) PROVE Calm(q)
    <3>1. PICK r : r = Woken(proc, d)[q] /\ proc'[q] = r BY <2>1, <2>3
    <3>2. r.state = "SLEEPING" => proc[q].state = "SLEEPING" /\ r.chan = proc[q].chan
      BY ONLY <3>1, q \in Procs, WokenOne
    <3> QED BY ONLY <3>1, <3>2 DEF Calm
  <2> QED BY <2>2, <2>3
<1> QED BY <1>3, <1>4

LEMMA SetSleeper ==
  ASSUME HInv, NEW p \in Procs, NEW ps, ps = proc \/ \E c : ps = Woken(proc, c), NEW chan,
         proc' = [ps EXCEPT ![p].state = "SLEEPING", ![p].chan = chan]
  PROVE  (\A q \in Procs : q # p => Calm(q)) /\ proc'[p].chan = chan
<1>0. Wakes(ps) BY WakesFacts
<1>1. ps = [q \in Procs |-> ps[q]] /\ ProcRec(ps[p]) BY <1>0 DEF Wakes
<1>2. PICK c, k, t : ps[p] = [state |-> t, chan |-> c, killed |-> k] BY <1>1 DEF ProcRec
<1>3. PICK v : v = [state |-> "SLEEPING", chan |-> chan, killed |-> k] OBVIOUS
<1>4. PICK qs : qs = [ps EXCEPT ![p].state = "SLEEPING"] OBVIOUS
<1>5. qs[p] = [state |-> "SLEEPING", chan |-> c, killed |-> k] /\ qs = [q \in Procs |-> qs[q]] /\ \A q \in Procs : q # p => qs[q] = ps[q]
  BY <1>1, <1>2, <1>4
<1>6. proc' = [qs EXCEPT ![p].chan = chan] BY <1>1, <1>4
<1>7. proc'[p].chan = chan /\ \A q \in Procs : q # p => proc'[q] = ps[q] BY <1>5, <1>6
<1>8. ASSUME NEW q \in Procs, q # p PROVE Calm(q)
  <2>1. proc'[q] = ps[q] BY <1>7, <1>8
  <2>2. CASE ps = proc BY <2>1, <2>2 DEF Calm
  <2>3. ASSUME NEW d, ps = Woken(proc, d) PROVE Calm(q)
    <3>1. PICK r : r = Woken(proc, d)[q] /\ proc'[q] = r BY <2>1, <2>3
    <3>2. r.state = "SLEEPING" => proc[q].state = "SLEEPING" /\ r.chan = proc[q].chan
      BY ONLY <3>1, q \in Procs, WokenOne
    <3> QED BY ONLY <3>1, <3>2 DEF Calm
  <2> QED BY <2>2, <2>3
<1> QED BY <1>7, <1>8

LEMMA SleepsOn ==
  ASSUME HInv, NEW h \in Harts, hart[h].proc # None, NEW chan, NEW p, p = hart[h].proc
  PROVE  /\ \A lk, ps, fs : Sleep(h, chan, lk, ps, fs) /\ (ps = proc \/ \E c : ps = Woken(proc, c)) => Drowses(p, chan)
         /\ \A fs : SleepInside(h, chan, fs) => Drowses(p, chan)
         /\ UNCHANGED proc => Drowses(p, chan)
<1>1. p \in Procs /\ proc[p].state = "RUNNING" BY RunsAwake
<1>2. UNCHANGED proc => Drowses(p, chan) BY <1>1, CalmSame DEF Drowses
<1>3. ASSUME NEW lk, NEW ps, NEW fs, Sleep(h, chan, lk, ps, fs), ps = proc \/ \E c : ps = Woken(proc, c)
      PROVE  Drowses(p, chan)
  <2>1. CASE Panic("sched locks") BY <1>2, <2>1, Zenon DEF Panic
  <2>2. CASE proc' = [ps EXCEPT ![hart[h].proc].state = "SLEEPING", ![hart[h].proc].chan = chan]
    BY <1>1, <1>3, <2>2, SetSleeper, ZenonT(60) DEF Drowses
  <2> QED BY <1>3, <2>1, <2>2, Zenon DEF Sleep
<1>4. ASSUME NEW fs, SleepInside(h, chan, fs) PROVE Drowses(p, chan)
  <2>1. CASE Panic("sched locks") BY <1>2, <2>1, Zenon DEF Panic
  <2>2. CASE proc' = [proc EXCEPT ![hart[h].proc].state = "SLEEPING", ![hart[h].proc].chan = chan]
    BY <1>1, <2>2, SetSleeper, ZenonT(60) DEF Drowses
  <2> QED BY <1>4, <2>1, <2>2, Zenon DEF SleepInside
<1> QED BY <1>2, <1>3, <1>4

LEMMA Undisturbed ==
  ASSUME UNCHANGED <<buf, disk, cons, uart>>
  PROVE  Settled
BY DEF Settled, FreeOK, LineOK, TxOK, LocksOK, DisksOK, TxFull

LEMMA HartSleeps ==
  ASSUME HInv, SInv, NEW h \in Harts, HartStep(h), UNCHANGED <<driver, todo>>
  PROVE  SInv'
<1>1. JobsSame BY HartStepSame
<1>2. Settled BY Undisturbed DEF driver
<1>3. CASE UNCHANGED proc BY <1>1, <1>2, <1>3, CalmSame, SJobs
<1>4. ASSUME NEW p \in Procs, NEW ps, ps = proc \/ (\E c : ps = Woken(proc, c)), NEW s, s # "SLEEPING",
             proc' = [ps EXCEPT ![p].state = s]
      PROVE  SInv'
  <2>1. (\A q \in Procs : q # p => Calm(q)) /\ proc'[p].state = s BY <1>4, SetProc
  <2> QED BY <1>1, <1>2, <1>4, <2>1, SOwn
<1>5. CASE Spin(h) \/ Reacquire(h) \/ LoopTop(h) \/ TrapDone(h)
  <2>1. UNCHANGED proc BY <1>5, Zenon DEF Spin, Reacquire, Acquire, Panic, LoopTop, TrapDone
  <2> QED BY <1>3, <2>1
<1>6. CASE Tick(h) BY <1>3, <1>6 DEF Tick
<1>7. CASE Preempt(h)
  <2>1. hart[h].proc # None /\ proc' = [proc EXCEPT ![hart[h].proc].state = "RUNNABLE"]
    BY <1>7, Zenon DEF Preempt
  <2>2. PICK p \in Procs : p = hart[h].proc BY <2>1, RunsAwake
  <2> QED BY <1>4, <2>1, <2>2
<1>8. CASE ClockIntr(h)
  <2>1. CASE proc' = Woken(proc, <<"ticks">>) BY <1>1, <1>2, <2>1, CalmWoken, SJobs
  <2>2. CASE hart[h].proc # None /\ proc' = [Woken(proc, <<"ticks">>) EXCEPT ![hart[h].proc].state = "RUNNABLE"]
    <3>1. PICK p \in Procs : p = hart[h].proc BY <2>2, RunsAwake
    <3>2. PICK c : c = <<"ticks">> OBVIOUS
    <3>3. proc' = [Woken(proc, c) EXCEPT ![p].state = "RUNNABLE"] BY <2>2, <3>1, <3>2
    <3> QED BY <1>4, <3>3
  <2> QED BY <1>8, <2>1, <2>2 DEF ClockIntr
<1>9. CASE SysSleep(h)
  <2>1. stack[Cur(h)] # <<>> /\ Head(stack[Cur(h)]).at = "sleep" BY <1>9, Zenon DEF SysSleep, At, Runs
  <2>2. PICK p \in Procs : p = hart[h].proc /\ hart[h].proc # None
    BY <2>1, CallTop, HartsAssumption DEF CallAts
  <2>3. PICK c : c = <<"ticks">> OBVIOUS
  <2>4. UNCHANGED proc \/ \E f : Sleep(h, c, "ticks", proc, <<f>>) BY <1>9, <2>3 DEF SysSleep
  <2>5. Drowses(p, c) BY <2>2, <2>4, SleepsOn
  <2>6. proc'[p].state = "SLEEPING" => WaitsOn(p, proc[p].chan)' BY <2>3, <2>5 DEF Drowses, WaitsOn
  <2> QED BY <1>1, <1>2, <2>5, <2>6, SOwn DEF Drowses
<1>10. ASSUME NEW p \in Procs, Pick(h, p) PROVE SInv'
  <2>1. proc' = [proc EXCEPT ![p].state = "RUNNING"] BY <1>10, Zenon DEF Pick
  <2> QED BY <1>4, <2>1
<1> QED BY <1>5, <1>6, <1>7, <1>8, <1>9, <1>10 DEF HartStep

-----------------------------------------------------------------------------
LEMMA SAwake ==
  ASSUME HInv, SInv, Settled, NEW h \in Harts, NEW p, p = hart[h].proc, p # None, Touches(p), Awake(p)
  PROVE  SInv'
<1>1. p \in Procs /\ proc[p].state = "RUNNING" BY RunsAwake
<1>2. \A q \in Procs : Calm(q) BY CalmSame, CalmWoken DEF Awake
<1>3. proc'[p].state # "SLEEPING" BY <1>1, <1>2 DEF Calm
<1> QED BY <1>1, <1>2, <1>3, SOwn DEF Touches

LEMMA SDrowse ==
  ASSUME HInv, SInv, Settled, NEW h \in Harts, NEW p, p = hart[h].proc, p # None, Touches(p),
         NEW chan, Drowses(p, chan), WaitsOn(p, chan)'
  PROVE  SInv'
<1>1. p \in Procs BY RunsAwake
<1>2. proc'[p].state = "SLEEPING" => WaitsOn(p, proc[p].chan)'
  <2>1. ASSUME proc'[p].state = "SLEEPING" PROVE WaitsOn(p, proc[p].chan)'
    <3>1. proc'[p].chan = chan BY <2>1 DEF Drowses
    <3> QED BY <3>1 DEF WaitsOn
  <2> QED BY <2>1
<1> QED BY <1>1, <1>2, SOwn DEF Touches, Drowses

LEMMA FreeCount ==
  ASSUME DInv
  PROVE  Cardinality(disk.free) \in Nat
<1>1. IsFiniteSet(Descs) BY FS_Interval, DiskCacheAssumption DEF Descs
<1>2. disk.free \subseteq Descs BY DEF DInv, DiskRec
<1> QED BY <1>1, <1>2, FS_Subset, FS_CardinalityType

LEMMA SettledBy ==
  ASSUME UNCHANGED <<cons, uart>>, FreeOK, LocksOK, DisksOK
  PROVE  Settled
BY DEF Settled, LineOK, TxOK, TxFull

LEMMA SettledOwn ==
  ASSUME UNCHANGED <<cons, uart>>, disk'.free = disk.free, FlagsSame,
         \A j \in Bufs : buf[j].owner # None => buf'[j].owner # None
  PROVE  Settled
BY SettledBy DEF FreeOK, LocksOK, DisksOK, FlagsSame

LEMMA AcquireSleepS ==
  ASSUME HInv, BInv, SInv, NEW h \in Harts, AcquireSleep(h), UNCHANGED <<cons, uart, todo>>
  PROVE  SInv'
<1>0. UNCHANGED disk BY DEF AcquireSleep
<1>1. PICK p \in Procs : \E f :
            /\ Works(h, p, f, "acquiresleep")
            /\ \/ buf[f.i].owner # None /\ UNCHANGED buf /\ JobSet(p, f) /\ SleepInside(h, <<"lock", f.i>>, <<f>>)
               \/ /\ UNCHANGED proc /\ \A j \in Bufs : buf'[j].disk = buf[j].disk
                  /\ \A j \in Bufs : buf[j].owner # None => buf'[j].owner # None
                  /\ JobGone(p) \/ \E g : JobSet(p, g) /\ g.at = "rw" /\ g.write \in BOOLEAN
  BY BAcquireSleep
<1>2. p = hart[h].proc /\ p # None BY <1>1, HartsAssumption, Zenon DEF Works
<1>3. ASSUME NEW f, f.i \in Bufs, buf[f.i].owner # None, UNCHANGED buf, JobSet(p, f), SleepInside(h, <<"lock", f.i>>, <<f>>)
      PROVE  SInv'
  <2>1. PICK c : c = <<"lock", f.i>> OBVIOUS
  <2>2. Drowses(p, c) BY <1>2, <1>3, <2>1, SleepsOn
  <2>3. WaitsOn(p, c)' BY <1>3, <2>1 DEF WaitsOn
  <2>4. Settled BY <1>0, <1>3, Undisturbed
  <2> QED BY <1>2, <1>3, <2>2, <2>3, <2>4, SDrowse DEF Touches
<1>4. CASE /\ UNCHANGED proc /\ \A j \in Bufs : buf'[j].disk = buf[j].disk
           /\ \A j \in Bufs : buf[j].owner # None => buf'[j].owner # None
           /\ JobGone(p) \/ \E g : JobSet(p, g) /\ g.at = "rw" /\ g.write \in BOOLEAN
  <2>1. Touches(p) /\ Awake(p) BY <1>4 DEF Touches, Awake
  <2>2. Settled BY <1>0, <1>4, SettledOwn DEF FlagsSame
  <2> QED BY <1>2, <2>1, <2>2, SAwake
<1> QED BY <1>1, <1>3, <1>4, Zenon DEF Works

LEMMA DerefS ==
  ASSUME HInv, BInv, SInv, NEW h \in Harts, Deref(h), UNCHANGED <<cons, uart, todo>>
  PROVE  SInv'
<1>0. UNCHANGED <<disk, proc>> BY DEF Deref
<1>1. PICK p \in Procs : \E f : /\ Works(h, p, f, "deref") /\ JobGone(p)
                                /\ \A j \in Bufs : buf'[j].owner = buf[j].owner /\ buf'[j].disk = buf[j].disk
  BY BDeref
<1>2. p = hart[h].proc /\ p # None /\ Touches(p) /\ Awake(p)
  BY <1>0, <1>1, HartsAssumption, Zenon DEF Works, Touches, Awake
<1>3. Settled BY <1>0, <1>1, SettledOwn DEF FlagsSame
<1> QED BY <1>2, <1>3, SAwake

LEMMA DiskRwS ==
  ASSUME HInv, BInv, WInv, SInv, NEW h \in Harts, DiskRw(h), UNCHANGED <<cons, uart, todo>>
  PROVE  SInv'
<1>0. Cardinality(disk.free) \in Nat BY FreeCount DEF WInv
<1>1. PICK p \in Procs : \E f : Works(h, p, f, "rw") /\ (Publishes(p, f) \/ Retries(p, f))
  BY BDiskRw
<1>2. PICK f : Works(h, p, f, "rw") /\ (Publishes(p, f) \/ Retries(p, f)) BY <1>1
<1>3. p = hart[h].proc /\ p # None /\ f = Frame(h) /\ f.i \in Bufs
  BY <1>2, HartsAssumption, Zenon DEF Works
<1>4. CASE Publishes(p, f)
  <2>1. PICK idx : /\ Cardinality(disk.free) >= 3 /\ buf' = [buf EXCEPT ![f.i].disk = TRUE]
                   /\ JobSet(p, NewJob(f, idx[1]))
    BY <1>4 DEF Publishes
  <2>2. PICK d, g : d = idx[1] /\ g = NewJob(f, d) OBVIOUS
  <2>3. g.at = "wait" /\ g.i = f.i /\ g.head = d /\ JobSet(p, g) BY <2>1, <2>2 DEF NewJob
  <2>4. Waits(p, f.i, d)' BY <2>3, JobSetIs
  <2>5. buf'[f.i].disk = TRUE /\ \A j \in Bufs : j # f.i => buf'[j] = buf[j]
    <3>1. BufType /\ f.i \in Bufs BY <1>3 DEF BInv
    <3> QED BY <2>1, <3>1, SetDisk
  <2>6. \A j \in Bufs : buf'[j].owner = buf[j].owner
    <3>1. Untaken BY <2>1, BufTouch DEF BInv
    <3> QED BY <3>1 DEF Untaken
  <2>7. Settled
    <3>1. FreeOK BY <1>0, <2>1 DEF FreeOK
    <3>2. LocksOK BY <2>6 DEF LocksOK
    <3>3. DisksOK BY <2>5 DEF DisksOK
    <3> QED BY <3>1, <3>2, <3>3, SettledBy
  <2>8. PICK c : c = <<"buf", f.i>> OBVIOUS
  <2>9. \E fs : Sleep(h, c, "vdisk", proc, fs)
    <3>1. ~(Cardinality(disk.free) < 3) BY <1>0, <2>1
    <3>2. \E i, w : Publish(h, f.i, w, i) BY <1>3, <3>1 DEF DiskRw
    <3> QED BY <2>8, <3>2 DEF Publish
  <2>10. Drowses(p, c) BY <1>3, <2>9, SleepsOn
  <2>11. WaitsOn(p, c)' BY <1>3, <2>4, <2>5, <2>8 DEF WaitsOn
  <2> QED BY <1>3, <2>3, <2>7, <2>10, <2>11, SDrowse DEF Touches
<1>5. CASE Retries(p, f)
  <2>1. Cardinality(disk.free) < 3 /\ UNCHANGED <<buf, disk>> /\ JobSet(p, f) BY <1>5 DEF Retries
  <2>2. PICK c : c = <<"free">> OBVIOUS
  <2>3. \E ps, fs : Sleep(h, c, "vdisk", ps, fs) /\ (ps = proc \/ \E x : ps = Woken(proc, x))
    <3>1. ~(Cardinality(disk.free) >= 3) BY <1>0, <2>1
    <3>2. Sleep(h, c, "vdisk", IF disk.free = {} THEN proc ELSE Woken(proc, <<"free">>), <<f>>)
      BY <1>3, <2>2, <3>1 DEF DiskRw
    <3>3. PICK ps : ps = IF disk.free = {} THEN proc ELSE Woken(proc, <<"free">>) OBVIOUS
    <3> QED BY <3>2, <3>3
  <2>4. Drowses(p, c) BY <1>3, <2>3, SleepsOn
  <2>5. WaitsOn(p, c)' BY <2>1, <2>2 DEF WaitsOn
  <2>6. Settled BY <2>1, Undisturbed
  <2> QED BY <1>3, <2>1, <2>4, <2>5, <2>6, SDrowse DEF Touches
<1> QED BY <1>2, <1>4, <1>5

LEMMA RwDoneS ==
  ASSUME HInv, BInv, WInv, SInv, NEW h \in Harts, RwDone(h), UNCHANGED <<cons, uart, todo>>
  PROVE  SInv'
<1>1. PICK p \in Procs : \E f : Works(h, p, f, "wait") /\ (Keeps(p, f) \/ Frees(h, p, f) \/ FreesTwice(f))
  BY BRwDone
<1>2. PICK f : Works(h, p, f, "wait") /\ (Keeps(p, f) \/ Frees(h, p, f) \/ FreesTwice(f)) BY <1>1
<1>3. p = hart[h].proc /\ p # None /\ f = Frame(h) /\ f.i \in Bufs /\ IsJob(stack[p]) /\ JobOf(p) = f /\ f.at = "wait"
  BY <1>2, HartsAssumption, Zenon DEF Works
<1>4. CASE Keeps(p, f)
  <2>1. buf[f.i].disk /\ UNCHANGED <<buf, disk>> /\ JobSet(p, f) BY <1>4 DEF Keeps
  <2>2. PICK c, d : c = <<"buf", f.i>> /\ d = f.head OBVIOUS
  <2>3. Waits(p, f.i, d)' BY <1>3, <2>1, <2>2, JobSetIs
  <2>4. \E fs : Sleep(h, c, "vdisk", proc, fs) BY <1>3, <2>1, <2>2 DEF RwDone
  <2>5. Drowses(p, c) BY <1>3, <2>4, SleepsOn
  <2>6. WaitsOn(p, c)' BY <1>3, <2>1, <2>2, <2>3 DEF WaitsOn
  <2>7. Settled BY <2>1, Undisturbed
  <2> QED BY <1>3, <2>1, <2>5, <2>6, <2>7, SDrowse DEF Touches
<1>5. CASE Frees(h, p, f)
  <2>1. JobGone(p) /\ proc' = Woken(proc, <<"free">>) /\ buf' = [buf EXCEPT ![f.i].valid = TRUE]
    BY <1>5 DEF Frees
  <2>2. PICK c : c = <<"free">> /\ proc' = Woken(proc, c) BY <2>1
  <2>3. FreeOK BY <2>2, CalmWoken DEF FreeOK
  <2>4. PICK r : r = [buf[f.i] EXCEPT !.valid = TRUE] OBVIOUS
  <2>5. r.disk = buf[f.i].disk /\ r.owner = buf[f.i].owner
    <3>1. BufRec(buf[f.i]) BY <1>3 DEF BInv, BufType
    <3>2. PICK v \in BOOLEAN : v = TRUE /\ r = [buf[f.i] EXCEPT !.valid = v] BY <2>4
    <3>3. Rec(r, buf[f.i].blk, v, buf[f.i].disk, buf[f.i].refcnt, buf[f.i].owner)
      BY <3>1, <3>2, SetFields
    <3> QED BY <3>3, RecIs
  <2>6. \A j \in Bufs : buf'[j].disk = buf[j].disk /\ buf'[j].owner = buf[j].owner
    <3>1. buf' = [buf EXCEPT ![f.i] = r] BY <2>1, <2>4
    <3> QED BY <1>3, <2>5, <3>1 DEF BInv, BufType
  <2>7. Settled
    <3>1. LocksOK /\ DisksOK BY <2>6 DEF LocksOK, DisksOK
    <3> QED BY <2>3, <3>1, SettledBy
  <2> QED BY <1>3, <2>1, <2>2, <2>7, SAwake DEF Touches, Awake
<1>6. ~FreesTwice(f) BY <1>2, NeverFreedTwice DEF WInv
<1> QED BY <1>2, <1>4, <1>5, <1>6

LEMMA AckS ==
  ASSUME HInv, BInv, SInv, NEW h \in Harts, Ack(h), UNCHANGED <<cons, uart, todo>>
  PROVE  SInv'
<1>1. JobsSame /\ UNCHANGED <<buf, disk, proc>> BY BAck, SMTT(30)
<1> QED BY <1>1, CalmSame, Undisturbed, SJobs

LEMMA DrainS ==
  ASSUME HInv, BInv, WInv, SInv, NEW h \in Harts, Drain(h), UNCHANGED <<cons, uart, todo>>
  PROVE  SInv'
<1>1. /\ JobsSame /\ UNCHANGED dev
      /\ \/ Returned(h)
         \/ /\ disk.usedIdx # dev.usedIdx /\ UNCHANGED plic
            /\ \E r : r = disk.info[dev.used[disk.usedIdx % NUM]] /\ (Stopped(r) \/ Drained(r))
  BY BDrain
<1>2. CASE Returned(h)
  <2>1. UNCHANGED <<buf, disk, proc>> BY <1>2 DEF Returned
  <2> QED BY <1>1, <2>1, CalmSame, Undisturbed, SJobs
<1>3. ASSUME NEW r, r = disk.info[dev.used[disk.usedIdx % NUM]], disk.usedIdx # dev.usedIdx, Stopped(r) \/ Drained(r)
      PROVE  SInv'
  <2>1. r = disk.info[Oldest] BY <1>3 DEF Oldest
  <2>2. Drained(r) /\ r.i \in Bufs /\ \A j \in Bufs : j # r.i => buf'[j] = buf[j]
    <3>1. Drained(r) BY <1>3, <2>1, NeverStopped DEF WInv
    <3> QED BY <1>1, <1>3, <2>1, <3>1, DDrained DEF WInv
  <2>3. PICK c : c = <<"buf", r.i>> /\ proc' = Woken(proc, c) BY <2>2 DEF Drained, Finished
  <2>4. (\A q \in Procs : Calm(q)) /\ Deserted(c) BY <2>3, CalmWoken
  <2>5. disk'.free = disk.free
    <3>1. PICK v : disk' = [disk EXCEPT !.usedIdx = v] BY <2>2 DEF Drained, Finished
    <3> QED BY <3>1 DEF WInv, DInv, DiskRec
  <2>6. \A j \in Bufs : buf'[j].owner = buf[j].owner
    <3>1. PICK v \in BOOLEAN : v = FALSE /\ buf' = [buf EXCEPT ![r.i].disk = v]
      BY <2>2 DEF Drained, Finished
    <3>2. Untaken BY <3>1, BufTouch DEF BInv
    <3> QED BY <3>2 DEF Untaken
  <2>7. DisksOK BY <2>2, <2>3, <2>4 DEF DisksOK
  <2>8. Settled
    <3>1. FreeOK /\ LocksOK BY <2>5, <2>6 DEF FreeOK, LocksOK
    <3> QED BY <2>7, <3>1, SettledBy
  <2> QED BY <1>1, <2>4, <2>8, SJobs
<1> QED BY <1>1, <1>2, <1>3

LEMMA CacheSleeps ==
  ASSUME HInv, BInv, WInv, SInv, NEW h \in Harts, CacheStep(h), UNCHANGED <<cons, uart, todo>>
  PROVE  SInv'
BY AcquireSleepS, DerefS, DiskRwS, RwDoneS, AckS, DrainS DEF CacheStep

-----------------------------------------------------------------------------
(* The steps of the console and of the UART.                               *)
LEMMA TxSameOK == ASSUME TxSame PROVE TxOK
BY DEF TxSame, TxOK, TxFull

LEMMA SettledTty ==
  ASSUME UNCHANGED <<buf, disk>>, LineOK, TxOK
  PROVE  Settled
BY DEF Settled, FreeOK, LocksOK, DisksOK

LEMMA TtySleeps ==
  ASSUME HInv, TInv, SInv, UNCHANGED <<buf, disk>>, JobsSame, LineOK, TxOK, UNCHANGED proc \/ \E c : proc' = Woken(proc, c)
  PROVE  SInv'
<1>1. \A q \in Procs : Calm(q) BY CalmSame, CalmWoken
<1> QED BY <1>1, SettledTty, SJobs

LEMMA ConsoleReadS ==
  ASSUME HInv, TInv, SInv, NEW h \in Harts, ConsoleRead(h), UNCHANGED <<buf, disk>>
  PROVE  SInv'
<1>1. JobsSame BY ConsoleSame DEF ConsoleStep
<1>2. stack[Cur(h)] # <<>> /\ Head(stack[Cur(h)]).at = "consoleread" BY Zenon DEF ConsoleRead, At, Runs
<1>3. PICK p \in Procs : p = hart[h].proc /\ p # None BY <1>2, CallTop, HartsAssumption DEF CallAts
<1>4. TxOK BY UartAlike, TxSameOK DEF ConsoleRead
<1>5. CASE UNCHANGED proc
  <2>1. LineOK
    <3>1. CASE cons.r = cons.w
      <4>1. UNCHANGED cons BY <3>1 DEF ConsoleRead
      <4> QED BY <4>1 DEF LineOK
    <3> QED BY <3>1 DEF LineOK
  <2> QED BY <1>1, <1>4, <1>5, <2>1, TtySleeps
<1>6. CASE cons.r = cons.w /\ UNCHANGED cons /\ \E fs : Sleep(h, <<"line">>, "cons", proc, fs)
  <2>1. PICK c : c = <<"line">> OBVIOUS
  <2>2. \E fs : Sleep(h, c, "cons", proc, fs) BY <1>6, <2>1
  <2>3. Drowses(p, c) BY <1>3, <2>2, SleepsOn
  <2>4. WaitsOn(p, c)' BY <1>6, <2>1 DEF WaitsOn
  <2>5. Settled BY <1>4, <1>6, SettledTty DEF LineOK
  <2> QED BY <1>1, <1>3, <2>3, <2>4, <2>5, SDrowse DEF Touches
<1> QED BY <1>5, <1>6 DEF ConsoleRead

LEMMA UartPutcS ==
  ASSUME HInv, TInv, SInv, NEW h \in Harts, UartPutc(h), UNCHANGED <<buf, disk>>
  PROVE  SInv'
<1>1. JobsSame BY ConsoleSame DEF ConsoleStep
<1>2. stack[Cur(h)] # <<>> /\ Head(stack[Cur(h)]).at = "putc" BY Zenon DEF UartPutc, At, Runs
<1>3. PICK p \in Procs : p = hart[h].proc /\ p # None BY <1>2, CallTop, HartsAssumption DEF CallAts
<1>4. LineOK BY DEF UartPutc, LineOK
<1>5. CASE TxFull /\ UNCHANGED uart /\ \E fs : Sleep(h, <<"tx">>, "uart", proc, fs)
  <2>1. PICK c : c = <<"tx">> OBVIOUS
  <2>2. \E fs : Sleep(h, c, "uart", proc, fs) BY <1>5, <2>1
  <2>3. Drowses(p, c) BY <1>3, <2>2, SleepsOn
  <2>4. WaitsOn(p, c)' BY <1>5, <2>1 DEF WaitsOn, TxFull
  <2>5. Settled BY <1>4, <1>5, SettledTty DEF TxOK, TxFull
  <2> QED BY <1>1, <1>3, <2>3, <2>4, <2>5, SDrowse DEF Touches
<1>6. CASE ~TxFull /\ proc' = IF Idle THEN Woken(proc, <<"tx">>) ELSE proc
  <2>1. TxOK BY <1>6 DEF TxOK
  <2>2. UNCHANGED proc \/ \E c : proc' = Woken(proc, c) BY <1>6
  <2> QED BY <1>1, <1>4, <2>1, <2>2, TtySleeps
<1> QED BY <1>5, <1>6 DEF UartPutc

LEMMA UartIntrS ==
  ASSUME HInv, TInv, SInv, NEW h \in Harts, UartIntr(h), UNCHANGED <<buf, disk>>
  PROVE  SInv'
<1>1. JobsSame BY ConsoleSame DEF ConsoleStep
<1>2. LineOK /\ TxOK BY ReceivedSame, TxSameOK DEF UartIntr, LineOK
<1>3. UNCHANGED proc BY DEF UartIntr, Acquire, Panic
<1> QED BY <1>1, <1>2, <1>3, TtySleeps

LEMMA UartDoneS ==
  ASSUME HInv, TInv, SInv, NEW h \in Harts, UartDone(h)
  PROVE  SInv'
<1>1. JobsSame /\ UNCHANGED <<buf, disk, cons>> BY ConsoleSame DEF UartDone, UartIntrStart
<1>2. LineOK BY <1>1 DEF LineOK
<1>3. uart' = UartStart(uart) /\ proc' = IF Sends THEN Woken(proc, <<"tx">>) ELSE proc
  BY DEF UartDone, UartIntrStart
<1>4. CASE Sends
  <2>1. PICK c : c = <<"tx">> /\ proc' = Woken(proc, c) BY <1>3, <1>4
  <2>2. TxOK BY <2>1, CalmWoken DEF TxOK
  <2> QED BY <1>1, <1>2, <2>1, <2>2, TtySleeps
<1>5. CASE ~Sends
  <2>1. UNCHANGED <<uart, proc>> BY <1>3, <1>5 DEF Sends, Idle, UartStart
  <2>2. TxOK BY <2>1 DEF TxOK, TxFull
  <2> QED BY <1>1, <1>2, <2>1, <2>2, TtySleeps
<1> QED BY <1>4, <1>5

LEMMA EditorS ==
  ASSUME HInv, EInv, TInv, SInv, NEW h \in Harts, KillLine(h) \/ Backspace(h) \/ Character(h), UNCHANGED <<buf, disk>>
  PROVE  SInv'
<1>1. JobsSame BY ConsoleSame DEF ConsoleStep
<1>2. TxOK
  <2>1. UNCHANGED uart \/ \E c : Echo(c) BY DEF KillLine, Backspace, Character
  <2> QED BY <2>1, UartAlike, EchoSame, TxSameOK
<1>3. PICK g, r, w, e, took : cons = [ring |-> g, r |-> r, w |-> w, e |-> e, taken |-> took]
  BY DEF EInv, ConsoleRec
<1>4. CASE UNCHANGED <<cons, proc>> BY <1>1, <1>2, <1>4, TtySleeps DEF LineOK
<1>5. CASE cons' = Erased /\ UNCHANGED proc
  <2>1. PICK x : cons' = [cons EXCEPT !.e = x] BY <1>5 DEF Erased
  <2>2. LineOK BY <1>3, <2>1 DEF LineOK
  <2> QED BY <1>1, <1>2, <1>5, <2>2, TtySleeps
<1>6. KillLine(h) \/ Backspace(h) => (UNCHANGED <<cons, proc>>) \/ (cons' = Erased /\ UNCHANGED proc)
  BY DEF KillLine, Backspace
<1>7. CASE Character(h)
  <2>1. PICK c : \/ UNCHANGED <<cons, proc>>
                 \/ /\ cons' = IF EndsLine(c) THEN [Stored(c) EXCEPT !.w = (cons.e + 1) % EditMod] ELSE Stored(c)
                    /\ proc' = IF EndsLine(c) THEN Woken(proc, <<"line">>) ELSE proc
    BY <1>7 DEF Character
  <2>2. CASE EndsLine(c) /\ proc' = Woken(proc, <<"line">>)
    <3>1. PICK d : d = <<"line">> /\ proc' = Woken(proc, d) BY <2>2
    <3>2. LineOK BY <3>1, CalmWoken DEF LineOK
    <3> QED BY <1>1, <1>2, <3>1, <3>2, TtySleeps
  <2>3. CASE cons' = Stored(c) /\ UNCHANGED proc
    <3>1. PICK k, x : k = [g EXCEPT ![Slot(e)] = c] /\ x = (e + 1) % EditMod OBVIOUS
    <3>2. cons' = [cons EXCEPT !.ring[Slot(e)] = c, !.e = x] BY <1>3, <2>3, <3>1 DEF Stored
    <3>3. cons' = [ring |-> k, r |-> r, w |-> w, e |-> x, taken |-> took] BY <1>3, <3>1, <3>2
    <3>4. LineOK BY <1>3, <3>3 DEF LineOK
    <3> QED BY <1>1, <1>2, <2>3, <3>4, TtySleeps
  <2> QED BY <1>4, <2>1, <2>2, <2>3
<1> QED BY <1>4, <1>5, <1>6, <1>7

LEMMA ConsoleSleeps ==
  ASSUME HInv, EInv, TInv, SInv, NEW h \in Harts, ConsoleStep(h), UNCHANGED <<buf, disk>>
  PROVE  SInv'
BY ConsoleReadS, UartPutcS, UartIntrS, EditorS DEF ConsoleStep

-----------------------------------------------------------------------------
(* Calls.                                                                  *)
LEMMA KillCalm ==
  ASSUME HInv, NEW h, CallKill(h)
  PROVE  \A q \in Procs : Calm(q)
<1>1. PICK p : proc' = [proc EXCEPT ![p].killed = TRUE, ![p].chan = IF proc[p].state = "SLEEPING" THEN None ELSE @,
                                    ![p].state = IF @ = "SLEEPING" THEN "RUNNABLE" ELSE @]
  BY Zenon DEF CallKill
<1>2. proc = [q \in Procs |-> proc[q]] /\ \A q \in Procs : ProcRec(proc[q]) BY Zenon DEF HInv, HType
<1>3. CASE p \notin Procs
  <2>1. UNCHANGED proc BY <1>1, <1>2, <1>3
  <2> QED BY <2>1, CalmSame
<1>4. CASE p \in Procs
  <2>1. PICK e : e = proc[p] /\ e = [state |-> e.state, chan |-> e.chan, killed |-> e.killed]
    BY <1>2, <1>4 DEF ProcRec
  <2>2. PICK v : v = [e EXCEPT !.killed = TRUE, !.chan = IF proc[p].state = "SLEEPING" THEN None ELSE @,
                               !.state = IF @ = "SLEEPING" THEN "RUNNABLE" ELSE @]
    OBVIOUS
  <2>3. v = [state |-> IF e.state = "SLEEPING" THEN "RUNNABLE" ELSE e.state,
             chan |-> IF proc[p].state = "SLEEPING" THEN None ELSE e.chan, killed |-> TRUE]
    BY <2>1, <2>2
  <2>4. v.state = "SLEEPING" => e.state = "SLEEPING" /\ v.chan = e.chan BY <2>1, <2>3
  <2>5. proc' = [proc EXCEPT ![p] = v] BY <1>1, <1>2, <1>4, <2>1, <2>2, Zenon
  <2>6. proc'[p] = v /\ \A q \in Procs : q # p => proc'[q] = proc[q] BY ONLY <1>2, <1>4, <2>5
  <2> QED BY ONLY <2>1, <2>4, <2>6 DEF Calm
<1> QED BY <1>3, <1>4, Zenon

(* A process that was at no call starts one.                               *)
LEMMA SStarts ==
  ASSUME SInv, Settled, NEW p \in Procs, stack[p] = <<>>, \E f : JobSet(p, f), \A q \in Procs : Calm(q)
  PROVE  SInv'
<1>1. \A q \in Procs : q # p => WaitsStay(q) BY KeptWaits, SMTT(30)
<1>2. WaitsStay(p) BY EmptyStack, NoJobs DEF WaitsStay, Waits, Has
<1>3. None \notin Procs BY HartsAssumption
<1> QED BY <1>1, <1>2, <1>3, SStep

(* consoleread(), uartputc() and sleep() have no job for the disk.          *)
LEMMA PlainJobs ==
  ASSUME HInv, NEW h \in Harts, CallRead(h) \/ CallWrite(h) \/ CallSleep(h)
  PROVE  JobsSame
<1>1. PICK f, lk : f.at \notin JobAts /\ Begin(h, lk, f)
  <2>1. CASE CallRead(h)
    <3>1. PICK f : f = [at |-> "consoleread", n |-> Call(h).n, target |-> Call(h).n] /\ Begin(h, "cons", f)
      BY <2>1 DEF CallRead
    <3>2. f.at \notin JobAts BY <3>1 DEF JobAts
    <3> QED BY <3>1, <3>2
  <2>2. CASE CallWrite(h)
    <3>1. PICK f : f = [at |-> "putc", c |-> Call(h).c] /\ Begin(h, "uart", f)
      BY <2>2 DEF CallWrite
    <3>2. f.at \notin JobAts BY <3>1 DEF JobAts
    <3> QED BY <3>1, <3>2
  <2>3. CASE CallSleep(h)
    <3>1. PICK f : f = [at |-> "sleep", n |-> Call(h).n, since |-> None] /\ Begin(h, "ticks", f)
      BY <2>3 DEF CallSleep
    <3>2. f.at \notin JobAts BY <3>1 DEF JobAts
    <3> QED BY <3>1, <3>2
  <2> QED BY <2>1, <2>2, <2>3
<1>2. hart[h].proc # None /\ stack[hart[h].proc] = <<>>
  BY Zenon DEF CallRead, CallWrite, CallSleep, Ready
<1> QED BY <1>1, <1>2, BeginJob

LEMMA CallsSleep ==
  ASSUME HInv, BInv, SInv, NEW h \in Harts, Calls(h)
  PROVE  SInv'
<1>1. UNCHANGED <<disk, cons, uart>>
  BY Zenon DEF Calls, CallBread, CallModify, CallBwrite, CallBrelse, CallPin, CallRead, CallWrite, CallSleep,
         CallKill, CallReturn, Exit, driver
<1>2. ASSUME UNCHANGED buf PROVE Settled BY <1>1, <1>2, Undisturbed
<1>3. CASE CallBread(h)
  <2>1. UNCHANGED proc BY <1>3 DEF CallBread, Panic, NoChange
  <2>2. CASE panic' = "bget" /\ UNCHANGED <<hart, lock, proc, stack, ticks, buf>>
    BY <1>2, <2>1, <2>2, StackStays, CalmSame, SJobs
  <2>3. CASE /\ \E p \in Procs : \E f : JobSet(p, f) /\ f.at = "acquiresleep" /\ stack[p] = <<>>
             /\ \A j \in Bufs : buf'[j].owner = buf[j].owner /\ buf'[j].disk = buf[j].disk
    <3>1. Settled BY <1>1, <2>3, SettledOwn DEF FlagsSame
    <3> QED BY <2>1, <2>3, <3>1, CalmSame, SStarts
  <2> QED BY <1>3, <2>2, <2>3, BCallBread
<1>4. CASE CallModify(h)
  <2>1. JobsSame /\ UNCHANGED proc BY <1>4, StackStays DEF CallModify, NoChange
  <2>2. PICK i, v : buf' = [buf EXCEPT ![i].data = v] BY <1>4 DEF CallModify
  <2>3. FlagsSame /\ Untaken BY <2>2, DataTouched, BufTouch DEF BInv
  <2>4. Settled BY <1>1, <2>3, SettledOwn DEF Untaken
  <2> QED BY <2>1, <2>4, CalmSame, SJobs
<1>5. CASE CallBwrite(h)
  <2>1. UNCHANGED <<buf, proc>> BY <1>5 DEF CallBwrite, driver, Begin
  <2>2. PICK p \in Procs : \E i \in Bufs : \E f :
            JobSet(p, f) /\ f.at = "rw" /\ f.i = i /\ f.write \in BOOLEAN /\ buf[i].owner = p /\ stack[p] = <<>>
    BY <1>5, BCallBwrite
  <2> QED BY <1>2, <2>1, <2>2, CalmSame, SStarts
<1>6. CASE CallBrelse(h)
  <2>1. PICK p \in Procs, i \in Bufs : \E f :
            /\ JobSet(p, f) /\ f.at = "deref" /\ buf[i].owner = p /\ stack[p] = <<>>
            /\ \A j \in Bufs : buf'[j].disk = buf[j].disk /\ (j # i => buf'[j].owner = buf[j].owner)
            /\ proc' = Woken(proc, <<"lock", i>>)
    BY <1>6, BCallBrelse
  <2>2. PICK c : c = <<"lock", i>> /\ proc' = Woken(proc, c) BY <2>1
  <2>3. (\A q \in Procs : Calm(q)) /\ Deserted(c) BY <2>2, CalmWoken
  <2>4. Settled
    <3>1. FreeOK BY <1>1 DEF FreeOK
    <3>2. LocksOK BY <2>1, <2>2, <2>3 DEF LocksOK
    <3>3. DisksOK BY <2>1 DEF DisksOK
    <3> QED BY <1>1, <3>1, <3>2, <3>3, SettledBy
  <2> QED BY <2>1, <2>3, <2>4, SStarts
<1>7. CASE CallPin(h)
  <2>1. UNCHANGED proc /\ JobsSame BY <1>7, BCallPin, StackStays DEF CallPin, NoChange
  <2>2. Settled BY <1>1, <1>7, BCallPin, SettledOwn DEF FlagsSame
  <2> QED BY <2>1, <2>2, CalmSame, SJobs
<1>8. CASE CallRead(h) \/ CallWrite(h) \/ CallSleep(h)
  <2>1. UNCHANGED buf BY <1>8 DEF CallRead, CallWrite, CallSleep, driver
  <2>2. JobsSame BY <1>8, PlainJobs
  <2>3. UNCHANGED proc BY <1>8 DEF CallRead, CallWrite, CallSleep, Begin
  <2> QED BY <1>2, <2>1, <2>2, <2>3, CalmSame, SJobs
<1>9. CASE CallKill(h)
  <2>1. UNCHANGED <<buf, stack>> BY <1>9 DEF CallKill, driver
  <2> QED BY <1>2, <1>9, <2>1, KillCalm, StackStays, SJobs
<1>10. CASE CallReturn(h)
  <2>1. UNCHANGED <<buf, stack, proc>> BY <1>10 DEF CallReturn, driver
  <2> QED BY <1>2, <2>1, CalmSame, StackStays, SJobs
<1>11. CASE Exit(h)
  <2>1. UNCHANGED <<buf, stack>> /\ hart[h].proc # None /\ proc' = [proc EXCEPT ![hart[h].proc].state = "ZOMBIE"]
    BY <1>11, Zenon DEF Exit, driver
  <2>2. PICK p \in Procs : p = hart[h].proc BY <2>1, RunsAwake
  <2>3. PICK s : s = "ZOMBIE" /\ proc' = [proc EXCEPT ![p].state = s] BY <2>1, <2>2
  <2>4. (\A q \in Procs : q # p => Calm(q)) /\ proc'[p].state = s BY <2>3, SetProc
  <2>5. JobsSame BY <2>1, StackStays
  <2>6. proc'[p].state # "SLEEPING" BY <2>3, <2>4
  <2> QED BY <1>2, <2>1, <2>4, <2>5, <2>6, SOwn
<1> QED BY <1>3, <1>4, <1>5, <1>6, <1>7, <1>8, <1>9, <1>10, <1>11 DEF Calls

LEMMA DiskDoneS ==
  ASSUME HInv, BInv, DInv, SInv, NEW d, DiskDone(d)
  PROVE  SInv'
<1>1. UNCHANGED <<proc, cons, uart>> /\ disk' = [disk EXCEPT !.info[d].status = 0]
  BY Zenon DEF DiskDone, DeviceDone
<1>2. JobsSame /\ FlagsSame BY BDeviceDone, DAnswered
<1>3. disk'.free = disk.free
  <2>1. PICK v : v = [disk.info EXCEPT ![d].status = 0] OBVIOUS
  <2>2. disk' = [disk EXCEPT !.info = v] BY <1>1, <2>1
  <2> QED BY <2>2 DEF DInv, DiskRec
<1>4. \A j \in Bufs : buf'[j].owner = buf[j].owner
  <2>1. UNCHANGED buf \/ \E i, v : buf' = [buf EXCEPT ![i].data = v]
    <3>1. PICK r : buf' = IF r.write THEN buf ELSE [buf EXCEPT ![r.i].data = dev.blocks[buf[r.i].blk]]
      BY Zenon DEF DiskDone, DeviceDone
    <3>2. CASE r.write BY <3>1, <3>2
    <3>3. CASE ~r.write BY <3>1, <3>3
    <3> QED BY <3>2, <3>3
  <2>2. Untaken BY <2>1, BufSame, BufTouch DEF BInv
  <2> QED BY <2>2 DEF Untaken
<1>5. Settled BY <1>1, <1>2, <1>3, <1>4, SettledOwn
<1> QED BY <1>1, <1>2, <1>5, CalmSame, SJobs

LEMMA SNext ==
  ASSUME HInv, EInv, BInv, WInv, TInv, SInv, [Next]_vars
  PROVE  SInv'
<1>1. CASE UNCHANGED <<proc, stack, buf, disk, cons, uart>>
  BY <1>1, StackStays, CalmSame, Undisturbed, SJobs
<1>2. ASSUME NEW h \in Harts, HartStep(h), UNCHANGED <<driver, todo>> PROVE SInv'
  BY <1>2, HartSleeps
<1>3. ASSUME NEW h \in Harts, CacheStep(h), UNCHANGED <<cons, uart, todo>> PROVE SInv'
  BY <1>3, CacheSleeps
<1>4. ASSUME NEW h \in Harts, ConsoleStep(h), UNCHANGED <<buf, disk>> PROVE SInv'
  BY <1>4, ConsoleSleeps
<1>5. ASSUME NEW h \in Harts, Calls(h) PROVE SInv' BY <1>5, CallsSleep
<1>6. ASSUME NEW h \in Harts, External(h) PROVE SInv'
  <2>1. UNCHANGED <<buf, disk, cons, proc>> /\ (UNCHANGED uart \/ uart' = Received)
    BY <1>6 DEF External
  <2>2. LineOK /\ TxOK BY <2>1, UartAlike, ReceivedSame, TxSameOK DEF LineOK
  <2> QED BY <1>6, <2>1, <2>2, ExternalSame, TtySleeps
<1>7. ASSUME NEW h \in Harts, UartDone(h) PROVE SInv' BY <1>7, UartDoneS
<1>8. CASE KeyPress \/ Transmitted
  <2>1. UNCHANGED <<proc, stack, buf, disk, cons>> BY <1>8, Zenon DEF KeyPress, Transmitted
  <2>2. PICK g : uart' = [uart EXCEPT !.rx = g] \/ uart' = [uart EXCEPT !.fifo = g]
    <3>1. CASE KeyPress
      <4>1. PICK x : uart' = [uart EXCEPT !.rx = x] BY <3>1, Zenon DEF KeyPress, TInv, UartIs
      <4> QED BY <4>1
    <3>2. CASE Transmitted BY <3>2, Zenon DEF Transmitted
    <3> QED BY <1>8, <3>1, <3>2
  <2>3. uart'.r = uart.r /\ uart'.w = uart.w BY <2>2, UartSet DEF TInv
  <2>4. LineOK /\ TxOK BY <2>1, <2>3 DEF LineOK, TxOK, TxFull
  <2> QED BY <2>1, <2>4, StackStays, TtySleeps
<1>9. ASSUME NEW d, DiskDone(d) PROVE SInv' BY <1>9, DiskDoneS DEF WInv
<1>10. CASE UNCHANGED vars BY <1>1, <1>10 DEF vars
<1>11. CASE Next BY <1>2, <1>3, <1>4, <1>5, <1>6, <1>7, <1>8, <1>9, <1>10, <1>11 DEF Next, Idling
<1> QED BY <1>10, <1>11

LEMMA InitSleep == ASSUME Init PROVE SInv
<1>1. proc = [p \in Procs |-> [state |-> "RUNNABLE", chan |-> None, killed |-> FALSE]]
  <2>1. PICK wl : HartsInit(wl.harts, wl.preemptions) BY DEF Init
  <2> QED BY <2>1, Zenon DEF HartsInit
<1>2. \A p \in Procs : proc[p].state # "SLEEPING" BY <1>1, Zenon
<1> QED BY <1>2 DEF SInv

(* What sleepers wait for will come.                                       *)
LEMMA FullNotEmpty ==
  ASSUME UartIs(uart), TxFull
  PROVE  uart.w # uart.r
<1>1. PICK n, r : n = UART_TX_BUF_SIZE /\ r = uart.r /\ n \in Nat \ {0} /\ TxMod = 2 * n /\ r \in 0..(2 * n - 1)
  BY TxSizes DEF UartIs
<1>2. PICK m \in Nat \ {0} : m = 2 * n BY <1>1
<1>3. r \in Nat /\ r < m /\ r + n \in Nat BY <1>1, <1>2
<1>4. (r + n) % m # r
  <2>1. CASE r + n < m
    <3>1. (r + n) % m = r + n BY <1>3, <2>1, ModIs
    <3> QED BY <1>1, <1>3, <3>1
  <2>2. CASE m <= r + n
    <3>1. r + n < 2 * m BY <1>1, <1>2, <1>3
    <3>2. (r + n) % m = (r + n) - m BY <1>3, <2>2, <3>1, ModIs
    <3> QED BY <1>1, <1>2, <1>3, <3>2
  <2> QED BY <1>1, <1>2, <1>3, <2>1, <2>2
<1>5. uart.w = (r + n) % m BY <1>1, <1>2 DEF TxFull
<1> QED BY <1>1, <1>4, <1>5

LEMMA WaitsAwaited ==
  ASSUME DInv, PInv, TInv, NEW p \in Procs, NEW c, WaitsOn(p, c)
  PROVE  Awaited(c)
<1>1. CASE c = <<"free">> /\ Cardinality(disk.free) < 3
  <2>1. c[1] = "free" BY <1>1
  <2> QED BY <1>1, <2>1 DEF Awaited
<1>2. CASE c = <<"line">> /\ cons.r = cons.w
  <2>1. c[1] = "line" BY <1>2
  <2> QED BY <1>2, <2>1 DEF Awaited
<1>3. CASE c = <<"tx">> /\ TxFull
  <2>1. c[1] = "tx" BY <1>3
  <2>2. uart.w # uart.r BY <1>3, FullNotEmpty DEF TInv
  <2>3. ~Idle \/ "uart" \in plic.pending \cup plic.serving BY <2>2 DEF TInv, UartLine
  <2> QED BY <1>3, <2>1, <2>3 DEF Awaited
<1>4. CASE c = <<"ticks">>
  <2>1. c[1] = "ticks" BY <1>4
  <2> QED BY <2>1 DEF Awaited
<1>5. ASSUME NEW i \in Bufs, c = <<"lock", i>>, buf[i].owner # None PROVE Awaited(c)
  <2>1. c[1] = "lock" /\ c[2] = i BY <1>5
  <2> QED BY <1>5, <2>1 DEF Awaited
<1>6. ASSUME NEW i \in Bufs, c = <<"buf", i>>, buf[i].disk, NEW d, Waits(p, i, d) PROVE Awaited(c)
  <2>1. c[1] = "buf" /\ c[2] = i BY <1>6
  <2>2. d \in Descs /\ disk.info[d] # None /\ disk.info[d].i = i /\ InFlight(d) BY <1>6, AskedFacts
  <2>3. d \in dev.told \/ disk.usedIdx # dev.usedIdx
    <3>1. ASSUME IsUsed(d), disk.usedIdx = dev.usedIdx PROVE FALSE
      <4>1. UsedCount = 0 BY <3>1, DInvType, NoneUsed DEF UsedCount
      <4> QED BY <3>1, <4>1 DEF IsUsed
    <3> QED BY <2>2, <3>1 DEF InFlight
  <2>4. Completes(i) BY <2>2, <2>3 DEF Completes, PInv
  <2> QED BY <1>6, <2>1, <2>4 DEF Awaited
<1> QED BY <1>1, <1>2, <1>3, <1>4, <1>5, <1>6 DEF WaitsOn

LEMMA ServedNext ==
  ASSUME HInv, EInv, Served, [Next]_vars
  PROVE  Served'
<1>1. CASE panic = ""
  <2>1. BInv /\ WInv /\ DInv /\ PInv /\ TInv /\ SInv BY <1>1, Zenon DEF Served, WInv
  <2>2. BInv' \/ panic' = "bget" BY <2>1, BNext
  <2>3. WInv' BY <2>1, WNext
  <2>4. PInv' BY <2>1, PNext
  <2>5. TInv' BY <2>1, TNext
  <2>6. SInv' BY <2>1, SNext
  <2> QED BY <2>2, <2>3, <2>4, <2>5, <2>6, Zenon DEF Served
<1>2. CASE panic # ""
  <2>1. UNCHANGED vars BY <1>2, Running, Zenon
  <2>2. panic' # "" BY <1>2, <2>1, Zenon DEF vars
  <2>3. WInv'
    <3>1. UNCHANGED <<stack, buf, disk, dev>> BY <2>1 DEF vars
    <3> QED BY <3>1, StackStays, WQuiet, Zenon DEF FlagsSame, Served
  <2>4. PInv'
    <3>1. UNCHANGED <<hart, stack, disk, dev, plic>> BY <2>1 DEF vars
    <3>2. \A g \in Harts : (Serves(g)' <=> Serves(g)) /\ (Acks(g)' <=> Acks(g))
      BY <3>1 DEF Serves, Acks, Cur
    <3> QED BY <3>1, <3>2, PAlike, PQuiet, Zenon DEF Served
  <2>5. TInv' BY <2>1, TNext, Zenon DEF Served
  <2>6. SInv'
    <3>1. UNCHANGED <<proc, stack, buf, disk, cons, uart>> BY <2>1 DEF vars
    <3> QED BY <3>1, StackStays, CalmSame, Undisturbed, SJobs, Zenon DEF Served
  <2> QED BY <2>2, <2>3, <2>4, <2>5, <2>6, Zenon DEF Served
<1> QED BY <1>1, <1>2, Zenon

LEMMA ServedInit == Init => HInv /\ EInv /\ Served
<1>1. ASSUME Init PROVE HInv /\ EInv /\ Served
  BY <1>1, InitBuffers, InitRings, InitHolds, InitEdits, InitPlic, InitUart, InitSleep, Zenon DEF Served
<1> QED BY <1>1

LEMMA ServedAwaits == ASSUME Served PROVE SleepersAwaited
BY WaitsAwaited, Zenon DEF Served, WInv, SInv, SleepersAwaited

(* Whoever sleeps, in acquiresleep(), virtio_disk_rw(), consoleread(),     *)
(* uartputc() or sleep(), is going to be woken up: what it waits for has   *)
(* not happened, and the interrupt that will make it happen is pending or  *)
(* being served, or the device has the request.  The wakeup cannot come    *)
(* between the test and the sleep, on another hart, or in a handler that   *)
(* preempts the caller (sleep() at virtio_disk.c:232, 285, uart.c:98), for *)
(* any number of harts, processes, buffers and descriptors.                *)
THEOREM SleepersAlwaysAwaited == Spec => []SleepersAwaited
<1>1. (HInv /\ EInv /\ Served) /\ [Next]_vars => (HInv /\ EInv /\ Served)'
  BY NextKeeps, NextEdits, ServedNext
<1>2. (HInv /\ EInv /\ Served) => SleepersAwaited BY ServedAwaits
<1> QED BY <1>1, <1>2, ServedInit, PTL DEF Spec
=============================================================================
