-------------------------- MODULE CowMemory_proofs --------------------------
(***************************************************************************)
(* Proofs about CowMemory for every number of processes, frames, pages and *)
(* harts and for every set of calls. The inductive invariant says which    *)
(* pages of every page table are present at every step (Layout), who works *)
(* on whose page table (Workers), and what an operation holds (CallState). *)
(***************************************************************************)
EXTENDS CowMemory, FiniteSetTheorems, SequenceTheorems, TLAPS

\* The pages of a process' own table while it is alive.
OwnPage(p, v) ==
  \/ v < sz[p]
  \/ op[p] = "grow" /\ v < va[p]
  \/ op[p] \in {"growfail", "shrink"} /\ va[p] <= v /\ v < end[p]

UnusedLayout == \A p \in Procs, v \in VPages : pst[p] = "UNUSED" => ~Mapped(p, v)

LiveLayout == \A p \in Procs, v \in VPages :
  pst[p] \in {"LIVE", "PANIC"} => (Mapped(p, v) <=> OwnPage(p, v))

ZombieLayout == \A p \in Procs, v \in VPages :
  pst[p] = "ZOMBIE" /\ (\A q \in Procs : op[q] = "reap" => who[q] # p)
  => (Mapped(p, v) <=> v < sz[p])

\* The table of a child that is being built, cleared or reaped.
ChildLayout == \A p \in Procs, v \in VPages :
  /\ op[p] = "fork" => (Mapped(who[p], v) <=> v < va[p])
  /\ op[p] \in {"forkfail", "reap"} =>
       (Mapped(who[p], v) <=> va[p] <= v /\ v < end[p])

Layout == UnusedLayout /\ LiveLayout /\ ZombieLayout /\ ChildLayout

Workers ==
  /\ \A p \in Procs :
       /\ pst[p] \in {"UNUSED", "USED", "ZOMBIE"} => op[p] = "none"
       /\ op[p] \in {"fork", "forkfail"} => pst[who[p]] = "USED"
       /\ op[p] = "reap" => pst[who[p]] = "ZOMBIE" /\ parent[who[p]] = p
       /\ op[p] \notin {"fork", "forkfail", "reap"} => who[p] = p
  /\ \A p, q \in Procs :
       op[p] \in {"fork", "forkfail"} /\ op[q] \in {"fork", "forkfail"}
       /\ who[p] = who[q] => p = q

InHand == {"newref", "install", "decref", "count", "push"}

CallState == \A p \in Procs :
  /\ op[p] = "none" <=> pc[p] = "user"
  /\ pc[p] \in {"kalloc", "newref", "install"} => op[p] \in {"fault", "copyout", "grow"}
  /\ pc[p] = "write" => op[p] = "copyout"
  /\ pc[p] = "copy" <=> op[p] = "fork"
  /\ pc[p] = "decref" => op[p] \in {"fault", "copyout", "growfail"}
  /\ op[p] \in {"fault", "copyout"} => va[p] < sz[p] /\ pc[p] # "unmap"
  /\ op[p] = "grow" => sz[p] <= va[p] /\ va[p] < end[p]
                       /\ pc[p] \in {"kalloc", "newref", "install"}
  /\ op[p] = "growfail" => sz[p] <= va[p]
  /\ op[p] = "shrink" => sz[p] <= va[p]
  /\ op[p] = "fork" => end[p] = sz[p] /\ va[p] <= end[p]
  /\ pc[p] \in InHand => pg[p] \in Frames

IInv == TypeOK /\ Layout /\ Workers /\ CallState

-----------------------------------------------------------------------------
(* Facts about the constant sets.                                          *)

LEMMA PageFact == \A v \in VPages : v \in Nat /\ v < MaxPages /\ v + 1 \in 0..MaxPages
BY CowAssumption DEF VPages

LEMMA PageIntro == \A v \in Nat : v < MaxPages => v \in VPages
BY CowAssumption DEF VPages

LEMMA FrameFact == NoFrame \notin Frames /\ Frames \subseteq Nat
BY CowAssumption DEF Frames, NoFrame

LEMMA PteFact ==
  /\ NoPte \in PTE /\ NoPte.pa = NoFrame
  /\ \A f \in Frames, b \in BOOLEAN, c \in BOOLEAN : [pa |-> f, w |-> b, cow |-> c] \in PTE
  /\ \A e \in PTE : e.pa \in Frames \cup {NoFrame}
BY DEF NoPte, PTE

LEMMA FlagFact == \A e \in PTE :
  /\ MarkCow(e) \in PTE /\ MarkCow(e).pa = e.pa
  /\ ChildPte(e) \in PTE /\ ChildPte(e).pa = e.pa
BY DEF MarkCow, ChildPte, PTE

-----------------------------------------------------------------------------
(* What a step of p does to the call state, entry by entry.                *)

Others(p) == \A q \in Procs : q # p =>
  /\ pc'[q] = pc[q] /\ op'[q] = op[q] /\ who'[q] = who[q]
  /\ va'[q] = va[q] /\ end'[q] = end[q] /\ pg'[q] = pg[q]

Call(p, label, o, w, first, last) ==
  /\ Others(p)
  /\ pc'[p] = label /\ op'[p] = o /\ who'[p] = w /\ va'[p] = first /\ end'[p] = last

LEMMA EnterFact ==
  ASSUME TypeOK, NEW p \in Procs, NEW label, NEW o, NEW w, NEW first, NEW last,
         Enter(p, label, o, w, first, last)
  PROVE  Call(p, label, o, w, first, last) /\ pg' = pg
BY DEF TypeOK, Enter, Call, Others

LEMMA ReturnFact ==
  ASSUME TypeOK, NEW p \in Procs, Return(p)
  PROVE  Call(p, "user", "none", p, 0, 0) /\ pg'[p] = NoFrame
BY DEF TypeOK, Return, Call, Others

-----------------------------------------------------------------------------
(* Steps that leave every page table's set of present pages as it is.      *)

SameProcs == pst' = pst /\ sz' = sz /\ parent' = parent

SamePages == \A q \in Procs, v \in VPages : Mapped(q, v)' <=> Mapped(q, v)

QuietOps == {"none", "fault", "copyout"}

LEMMA QuietStep ==
  ASSUME NEW p \in Procs, TypeOK, Layout, Workers, SameProcs, SamePages, Others(p),
         \/ op'[p] = op[p] /\ who'[p] = who[p] /\ va'[p] = va[p] /\ end'[p] = end[p]
         \/ op[p] \in QuietOps /\ op'[p] \in QuietOps /\ who'[p] = p /\ pst[p] = "LIVE"
  PROVE  Layout' /\ Workers'
<1>1. \A q \in Procs : who[q] \in Procs
  BY DEF TypeOK
<1>2. UnusedLayout'
  BY DEF Layout, UnusedLayout, SameProcs, SamePages
<1>3. LiveLayout'
  BY DEF Layout, LiveLayout, OwnPage, SameProcs, SamePages, Others, QuietOps
<1>4. ZombieLayout'
  BY DEF Layout, ZombieLayout, SameProcs, SamePages, Others, QuietOps
<1>5. ChildLayout'
  <2>1. \A q \in Procs : q # p => who'[q] \in Procs  BY <1>1 DEF Others
  <2>2. CASE op'[p] = op[p] /\ who'[p] = who[p] /\ va'[p] = va[p] /\ end'[p] = end[p]
    BY <1>1, <2>2 DEF Layout, ChildLayout, SamePages, Others
  <2>3. CASE op'[p] \in QuietOps
    BY <1>1, <2>3 DEF Layout, ChildLayout, SamePages, Others, QuietOps
  <2> QED  BY <2>2, <2>3
<1>6. Workers'
  BY <1>1 DEF Workers, SameProcs, Others, QuietOps
<1> QED  BY <1>2, <1>3, <1>4, <1>5, <1>6 DEF Layout

LEMMA SamePte == ASSUME pte' = pte PROVE SamePages
BY DEF SamePages, Mapped

LEMMA StoreStep ==
  ASSUME NEW p \in Procs, NEW v \in VPages, NEW x \in Values,
         TypeOK, Layout, Workers, CallState, Store(p, v, x)
  PROVE  IInv'
<1>1. UNCHANGED <<refCount, freelist, pst, parent, sz, pte, pc, op, who, va, end, pg>>
  BY DEF Store, procVars, callVars
<1>2. data' \in [Frames -> Contents]
  BY DEF Store, TypeOK, Contents
<1>3. TypeOK'
  BY <1>1, <1>2 DEF TypeOK
<1>4. Layout' /\ Workers'
  BY <1>1, SamePte, QuietStep DEF SameProcs, Others
<1>5. CallState'
  BY <1>1 DEF CallState
<1> QED  BY <1>3, <1>4, <1>5 DEF IInv

LEMMA StoreFaultStep ==
  ASSUME NEW p \in Procs, NEW v \in VPages,
         TypeOK, Layout, Workers, CallState, StoreFault(p, v) \/ Copyout(p, v)
  PROVE  IInv'
<1> DEFINE o == op'[p]
<1>1. /\ UNCHANGED <<refCount, freelist, data, pst, parent, sz, pte, pg>>
      /\ pst[p] = "LIVE" /\ pc[p] = "user" /\ v < sz[p]
  BY DEF StoreFault, Copyout, memVars, procVars, InUser, MayRun, Enter
<1>2. \E label \in {"kalloc", "write"}, call \in {"fault", "copyout"} :
        /\ Enter(p, label, call, p, v, v)
        /\ label = "write" => call = "copyout"
  BY DEF StoreFault, Copyout
<1>3. PICK label \in {"kalloc", "write"}, call \in {"fault", "copyout"} :
        /\ Enter(p, label, call, p, v, v)
        /\ label = "write" => call = "copyout"
  BY <1>2
<1>4. Call(p, label, call, p, v, v)
  BY <1>3, EnterFact
<1>5. TypeOK'
  <2>1. v \in 0..MaxPages  BY PageFact, CowAssumption
  <2> QED  BY <1>1, <1>3, <2>1 DEF TypeOK, Enter
<1>6. op[p] = "none"
  BY <1>1 DEF CallState
<1>7. Layout' /\ Workers'
  BY <1>1, <1>4, <1>6, SamePte, QuietStep DEF SameProcs, Call, QuietOps
<1>8. CallState'
  BY <1>1, <1>3, <1>4 DEF CallState, Call, Others, InHand
<1> QED  BY <1>5, <1>7, <1>8 DEF IInv

LEMMA CopyoutWriteStep ==
  ASSUME NEW p \in Procs, NEW x \in Values,
         TypeOK, Layout, Workers, CallState, CopyoutWrite(p, x)
  PROVE  IInv'
<1>1. /\ UNCHANGED <<refCount, freelist, pst, parent, sz, pte>>
      /\ pst[p] = "LIVE" /\ pc[p] = "write" /\ op[p] = "copyout"
  BY DEF CopyoutWrite, procVars, InKernel, MayRun, CallState
<1>2. Call(p, "user", "none", p, 0, 0) /\ pg'[p] = NoFrame /\ Return(p)
  BY ReturnFact DEF CopyoutWrite
<1>3. data' \in [Frames -> Contents]
  BY DEF CopyoutWrite, TypeOK, Contents
<1>4. TypeOK'
  BY <1>1, <1>2, <1>3, CowAssumption DEF TypeOK, Return
<1>5. Layout' /\ Workers'
  BY <1>1, <1>2, SamePte, QuietStep DEF SameProcs, Call, QuietOps
<1>6. CallState'
  BY <1>1, <1>2 DEF CallState, Call, Others, InHand
<1> QED  BY <1>4, <1>5, <1>6 DEF IInv

LEMMA KallocPopStep ==
  ASSUME NEW p \in Procs, TypeOK, Layout, Workers, CallState, KallocPop(p)
  PROVE  IInv'
<1>1. /\ UNCHANGED <<refCount, pst, parent, sz, pte, op, who, va, end>>
      /\ pc[p] = "kalloc" /\ freelist # <<>> /\ freelist' = Tail(freelist)
      /\ pc' = [pc EXCEPT ![p] = "newref"] /\ pg' = [pg EXCEPT ![p] = Head(freelist)]
      /\ data' = [data EXCEPT ![Head(freelist)] = Junk]
  BY DEF KallocPop, procVars, InKernel, Goto
<1>2. Head(freelist) \in Frames /\ Tail(freelist) \in Seq(Frames)
  BY <1>1 DEF TypeOK
<1>3. data' \in [Frames -> Contents]
  BY <1>1, <1>2 DEF TypeOK, Contents
<1>4. Others(p) /\ pc'[p] = "newref" /\ pg'[p] \in Frames
  BY <1>1, <1>2 DEF Others, TypeOK
<1>5. TypeOK'
  BY <1>1, <1>2, <1>3 DEF TypeOK
<1>6. Layout' /\ Workers'
  BY <1>1, <1>4, SamePte, QuietStep DEF SameProcs
<1>7. CallState'
  BY <1>1, <1>4 DEF CallState, Others, InHand
<1> QED  BY <1>5, <1>6, <1>7 DEF IInv

LEMMA KallocIncrefStep ==
  ASSUME NEW p \in Procs, TypeOK, Layout, Workers, CallState, KallocIncref(p)
  PROVE  IInv'
<1>1. /\ UNCHANGED <<freelist, data, pst, parent, sz, pte, op, who, va, end, pg>>
      /\ pc[p] = "newref" /\ pc' = [pc EXCEPT ![p] = "install"] /\ pg[p] \in Frames
      /\ refCount' = [refCount EXCEPT ![pg[p]] = @ + 1]
  BY DEF KallocIncref, procVars, InKernel, Goto, CallState, InHand
<1>2. Others(p) /\ pc'[p] = "install"
  BY <1>1 DEF Others, TypeOK
<1>3. TypeOK'
  <2>1. refCount' \in [Frames -> Int]  BY <1>1 DEF TypeOK
  <2> QED  BY <1>1, <2>1 DEF TypeOK
<1>4. Layout' /\ Workers'
  BY <1>1, <1>2, SamePte, QuietStep DEF SameProcs
<1>5. CallState'
  BY <1>1, <1>2 DEF CallState, Others, InHand
<1> QED  BY <1>3, <1>4, <1>5 DEF IInv

LEMMA KfreeDecrefStep ==
  ASSUME NEW p \in Procs, TypeOK, Layout, Workers, CallState, KfreeDecref(p)
  PROVE  IInv'
<1>1. /\ UNCHANGED <<freelist, data, pst, parent, sz, pte, op, who, va, end, pg>>
      /\ pc[p] = "decref" /\ pc' = [pc EXCEPT ![p] = "count"] /\ pg[p] \in Frames
      /\ refCount' = [refCount EXCEPT ![pg[p]] = @ - 1]
  BY DEF KfreeDecref, procVars, InKernel, Goto, CallState, InHand
<1>2. Others(p) /\ pc'[p] = "count"
  BY <1>1 DEF Others, TypeOK
<1>3. TypeOK'
  <2>1. refCount' \in [Frames -> Int]  BY <1>1 DEF TypeOK
  <2> QED  BY <1>1, <2>1 DEF TypeOK
<1>4. Layout' /\ Workers'
  BY <1>1, <1>2, SamePte, QuietStep DEF SameProcs
<1>5. CallState'
  BY <1>1, <1>2 DEF CallState, Others, InHand
<1> QED  BY <1>3, <1>4, <1>5 DEF IInv

LEMMA KfreeLastStep ==
  ASSUME NEW p \in Procs, TypeOK, Layout, Workers, CallState, KfreeLast(p)
  PROVE  IInv'
<1>1. /\ UNCHANGED <<refCount, freelist, data, pst, parent, sz, pte, op, who, va, end, pg>>
      /\ pc[p] = "count" /\ pc' = [pc EXCEPT ![p] = "push"]
  BY DEF KfreeLast, memVars, procVars, InKernel, Goto
<1>2. Others(p) /\ pc'[p] = "push"
  BY <1>1 DEF Others, TypeOK
<1>3. TypeOK'
  BY <1>1 DEF TypeOK
<1>4. Layout' /\ Workers'
  BY <1>1, <1>2, SamePte, QuietStep DEF SameProcs
<1>5. CallState'
  BY <1>1, <1>2 DEF CallState, Others, InHand
<1> QED  BY <1>3, <1>4, <1>5 DEF IInv

\* The end of kfree() and what its caller does next.
LEMMA AfterKfreeStep ==
  ASSUME NEW p \in Procs, TypeOK, Layout, Workers, CallState, AfterKfree(p),
         SameProcs, pte' = pte, refCount' = refCount, pst[p] = "LIVE",
         pc[p] \in {"count", "push"},
         freelist' \in Seq(Frames), data' \in [Frames -> Contents]
  PROVE  IInv'
<1>1. CASE op[p] = "fault" /\ Return(p)
  <2>1. Call(p, "user", "none", p, 0, 0)  BY <1>1, ReturnFact
  <2>2. TypeOK'  BY <1>1, CowAssumption DEF TypeOK, Return, SameProcs
  <2>3. Layout' /\ Workers'
    BY <1>1, <2>1, SamePte, QuietStep DEF Call, QuietOps
  <2>4. CallState'  BY <2>1 DEF CallState, Call, Others, InHand, SameProcs
  <2> QED  BY <2>2, <2>3, <2>4 DEF IInv
<1>2. CASE \E label \in {"write", "unmap"} :
             /\ Goto(p, label) /\ pg' = [pg EXCEPT ![p] = NoFrame]
             /\ UNCHANGED <<op, who, va, end>>
             /\ label = "write" <=> op[p] = "copyout"
             /\ op[p] # "fault"
  <2>1. PICK label \in {"write", "unmap"} :
             /\ pc' = [pc EXCEPT ![p] = label] /\ pg' = [pg EXCEPT ![p] = NoFrame]
             /\ UNCHANGED <<op, who, va, end>>
             /\ label = "write" <=> op[p] = "copyout"
             /\ op[p] # "fault"
    BY <1>2 DEF Goto
  <2>2. Others(p) /\ pc'[p] = label  BY <2>1 DEF Others, TypeOK
  <2>3. TypeOK'  BY <2>1 DEF TypeOK, SameProcs
  <2>4. Layout' /\ Workers'  BY <2>1, <2>2, SamePte, QuietStep
  <2>5. CallState'  BY <2>1, <2>2 DEF CallState, Others, InHand, SameProcs
  <2> QED  BY <2>3, <2>4, <2>5 DEF IInv
<1> QED  BY <1>1, <1>2 DEF AfterKfree

LEMMA KfreeEndStep ==
  ASSUME NEW p \in Procs, TypeOK, Layout, Workers, CallState,
         KfreeShared(p) \/ KfreePush(p)
  PROVE  IInv'
<1>1. AfterKfree(p) /\ SameProcs /\ pte' = pte /\ refCount' = refCount /\ pst[p] = "LIVE"
      /\ pc[p] \in {"count", "push"}
  BY DEF KfreeShared, KfreePush, memVars, procVars, SameProcs, InKernel, MayRun
<1>2. pg[p] \in Frames
  BY <1>1 DEF CallState, InHand
<1>3. freelist' \in Seq(Frames) /\ data' \in [Frames -> Contents]
  <2>1. CASE KfreeShared(p)  BY <2>1 DEF KfreeShared, memVars, TypeOK
  <2>2. CASE KfreePush(p)
    <3>1. <<pg[p]>> \o freelist \in Seq(Frames)  BY <1>2 DEF TypeOK
    <3> QED  BY <2>2, <3>1, <1>2 DEF KfreePush, TypeOK, Contents
  <2> QED  BY <2>1, <2>2
<1> QED  BY <1>1, <1>3, AfterKfreeStep

LEMMA ExitStep ==
  ASSUME NEW p \in Procs, TypeOK, Layout, Workers, CallState,
         ExitEffect(p), pst[p] = "LIVE",
         op[p] \in {"none", "fault", "copyout"}
  PROVE  IInv'
<1>1. TypeOK'
  BY CowAssumption, SMTT(30) DEF TypeOK, ExitEffect, Return
<1>2. Call(p, "user", "none", p, 0, 0)
  BY ReturnFact DEF ExitEffect
<1>3. /\ \A q \in Procs : pst'[q] = IF q = p THEN "ZOMBIE" ELSE pst[q]
      /\ \A q \in Procs : parent'[q] = IF parent[q] = p THEN InitProc ELSE parent[q]
      /\ sz' = sz /\ pte' = pte
  BY DEF ExitEffect, TypeOK
<1>4. \A q \in Procs, v \in VPages : Mapped(q, v)' <=> Mapped(q, v)
  BY <1>3 DEF Mapped
<1>5. UnusedLayout'
  BY <1>3, <1>4 DEF Layout, UnusedLayout
<1>6. LiveLayout'
  BY <1>2, <1>3, <1>4 DEF Layout, LiveLayout, OwnPage, Call, Others
<1>7. ZombieLayout'
  BY <1>2, <1>3, <1>4 DEF Layout, LiveLayout, ZombieLayout, OwnPage, Call, Others, Workers
<1>8. ChildLayout'
  BY <1>2, <1>3, <1>4, <1>1 DEF Layout, ChildLayout, Call, Others, TypeOK
<1>9. Workers'
  <2>1. who \in [Procs -> Procs]  BY DEF TypeOK
  <2> QED  BY <1>2, <1>3, <2>1 DEF Workers, Call, Others
<1>10. CallState'
  BY <1>2, <1>3 DEF CallState, Call, Others, InHand
<1> QED  BY <1>1, <1>5, <1>6, <1>7, <1>8, <1>9, <1>10 DEF IInv, Layout

LEMMA CopyPageStep ==
  ASSUME NEW p \in Procs, TypeOK, Layout, Workers, CallState, CopyPage(p)
  PROVE  IInv'
<1> DEFINE c == who[p]
           i == va[p]
           f == pte[p][i].pa
<1>1. /\ pc[p] = "copy" /\ op[p] = "fork" /\ pst[p] = "LIVE" /\ pst[c] = "USED"
      /\ c \in Procs /\ c # p /\ i \in Nat /\ i < end[p] /\ end[p] = sz[p] /\ sz[p] \in 0..MaxPages
  BY DEF CopyPage, InKernel, MayRun, Workers, CallState, TypeOK
<1>t. pte \in [Procs -> [VPages -> PTE]]
  BY DEF TypeOK
<1>2. i \in VPages /\ i + 1 \in 0..MaxPages
  BY <1>1, PageIntro, PageFact, CowAssumption
<1>3. f \in Frames
  <2>1. OwnPage(p, i)  BY <1>1 DEF OwnPage
  <2> QED  BY <1>1, <1>2, <2>1, PteFact DEF Layout, LiveLayout, Mapped, TypeOK
<1>4. /\ Others(p) /\ pc' = pc /\ op' = op /\ who' = who /\ end' = end /\ pg' = pg
      /\ va' \in [Procs -> 0..MaxPages] /\ va'[p] = i + 1
      /\ pst' = pst /\ sz' = sz /\ parent' = parent /\ freelist' = freelist /\ data' = data
  BY <1>1, <1>2 DEF CopyPage, Others, TypeOK, procVars
<1>5. refCount' \in [Frames -> Int]
  BY <1>3 DEF CopyPage, TypeOK
<1>6. /\ pte' \in [Procs -> [VPages -> PTE]]
      /\ \A q \in Procs, v \in VPages :
           pte'[q][v] = IF v # i THEN pte[q][v]
                        ELSE IF q = p THEN MarkCow(pte[p][i])
                        ELSE IF q = c THEN ChildPte(pte[p][i]) ELSE pte[q][v]
  <2>1. pte' = [pte EXCEPT ![p][i] = MarkCow(pte[p][i]), ![c][i] = ChildPte(pte[p][i])]
    BY DEF CopyPage
  <2> QED  BY <1>1, <1>2, <1>t, <2>1, FlagFact
<1>7. TypeOK'
  BY <1>4, <1>5, <1>6 DEF TypeOK
<1>8. \A q \in Procs, v \in VPages :
        Mapped(q, v)' <=> (Mapped(q, v) \/ (q = c /\ v = i))
  BY <1>1, <1>2, <1>3, <1>6, <1>t, FlagFact, FrameFact DEF Mapped
<1>9. UnusedLayout'
  BY <1>1, <1>4, <1>8 DEF Layout, UnusedLayout
<1>10. LiveLayout'
  BY <1>1, <1>4, <1>8 DEF Layout, LiveLayout, OwnPage, Others
<1>11. ZombieLayout'
  BY <1>1, <1>4, <1>8 DEF Layout, ZombieLayout
<1>12. ChildLayout'
  <2>1. \A v \in VPages : v \in Nat  BY PageFact
  <2>2. \A q \in Procs : who[q] \in Procs  BY DEF TypeOK
  <2> QED  BY <1>1, <1>2, <1>4, <1>8, <2>1, <2>2 DEF Layout, ChildLayout, Others, Workers
<1>13. Workers'
  BY <1>4 DEF Workers
<1>14. CallState'
  BY <1>1, <1>4 DEF CallState, Others, InHand
<1> QED  BY <1>7, <1>9, <1>10, <1>11, <1>12, <1>13, <1>14 DEF IInv, Layout

-----------------------------------------------------------------------------
(* kalloc() fails, and the page goes into the page table.                  *)

LEMMA KallocFailsStep ==
  ASSUME NEW p \in Procs, TypeOK, Layout, Workers, CallState, KallocFails(p)
  PROVE  IInv'
<1>1. pst[p] = "LIVE" /\ pc[p] = "kalloc" /\ op[p] \in {"fault", "copyout", "grow"}
  BY DEF KallocFails, InKernel, MayRun, CallState
<1>2. CASE op[p] = "fault" /\ ExitEffect(p)
  BY <1>1, <1>2, ExitStep
<1>3. CASE /\ pst' = [pst EXCEPT ![p] = "PANIC"]
           /\ UNCHANGED <<refCount, freelist, data, parent, sz, pte, pc, op, who, va, end, pg>>
  <2>1. \A q \in Procs : pst'[q] = IF q = p THEN "PANIC" ELSE pst[q]
    BY <1>3 DEF TypeOK
  <2>2. TypeOK'
    BY <1>3 DEF TypeOK
  <2>3. SamePages
    BY <1>3, SamePte
  <2>4. UnusedLayout' /\ LiveLayout'
    BY <1>1, <1>3, <2>1, <2>3 DEF Layout, UnusedLayout, LiveLayout, SamePages, OwnPage
  <2>5. ZombieLayout' /\ ChildLayout'
    BY <1>1, <1>3, <2>1, <2>3 DEF Layout, ZombieLayout, ChildLayout, SamePages, TypeOK
  <2>6. Workers'
    <3>1. \A q \in Procs : who[q] \in Procs  BY DEF TypeOK
    <3> QED  BY <1>1, <1>3, <2>1, <3>1 DEF Workers
  <2>7. CallState'
    BY <1>3 DEF CallState
  <2> QED  BY <2>2, <2>4, <2>5, <2>6, <2>7 DEF IInv, Layout
<1>4. CASE op[p] = "copyout" /\ Return(p)
           /\ UNCHANGED <<refCount, freelist, data, pst, parent, sz, pte>>
  <2>1. Call(p, "user", "none", p, 0, 0)  BY <1>4, ReturnFact
  <2>2. TypeOK'  BY <1>4, CowAssumption DEF TypeOK, Return
  <2>3. Layout' /\ Workers'
    BY <1>1, <1>4, <2>1, SamePte, QuietStep DEF Call, QuietOps, SameProcs
  <2>4. CallState'  BY <1>4, <2>1 DEF CallState, Call, Others, InHand
  <2> QED  BY <2>2, <2>3, <2>4 DEF IInv
<1>5. CASE op[p] = "grow" /\ Enter(p, "unmap", "growfail", p, sz[p], va[p])
           /\ UNCHANGED <<refCount, freelist, data, pst, parent, sz, pte>>
  <2>1. Call(p, "unmap", "growfail", p, sz[p], va[p]) /\ pg' = pg
    BY <1>5, EnterFact
  <2>2. TypeOK'
    BY <1>5 DEF TypeOK, Enter
  <2>3. SamePages /\ SameProcs
    BY <1>5, SamePte DEF SameProcs
  <2>4. sz[p] \in Nat /\ va[p] \in Nat /\ sz[p] <= va[p]
    BY <1>5 DEF CallState, TypeOK
  <2>5. \A v \in VPages : v \in Nat
    BY PageFact
  <2>6. UnusedLayout' /\ LiveLayout'
    BY <1>5, <2>1, <2>3, <2>4, <2>5
       DEF Layout, UnusedLayout, LiveLayout, OwnPage, SamePages, SameProcs, Call, Others
  <2>7. ZombieLayout' /\ ChildLayout'
    <3>1. \A q \in Procs : who[q] \in Procs  BY DEF TypeOK
    <3> QED  BY <1>1, <1>5, <2>1, <2>3, <3>1
             DEF Layout, ZombieLayout, ChildLayout, SamePages, SameProcs, Call, Others
  <2>8. Workers'
    <3>1. \A q \in Procs : who[q] \in Procs  BY DEF TypeOK
    <3> QED  BY <1>1, <1>5, <2>1, <2>3, <3>1 DEF Workers, SameProcs, Call, Others
  <2>9. CallState'
    BY <1>5, <2>1, <2>3, <2>4 DEF CallState, SameProcs, Call, Others, InHand
  <2> QED  BY <2>2, <2>6, <2>7, <2>8, <2>9 DEF IInv, Layout
<1> QED  BY <1>2, <1>3, <1>4, <1>5 DEF KallocFails, memVars, procVars, callVars

LEMMA InstallCopyStep ==
  ASSUME NEW p \in Procs, TypeOK, Layout, Workers, CallState, InstallCopy(p)
  PROVE  IInv'
<1> DEFINE i == va[p]
           old == pte[p][i].pa
           new == [pa |-> pg[p], w |-> TRUE, cow |-> FALSE]
<1>1. /\ pst[p] = "LIVE" /\ pc[p] = "install" /\ op[p] \in {"fault", "copyout"}
      /\ pg[p] \in Frames /\ i < sz[p]
      /\ UNCHANGED <<refCount, freelist, pst, parent, sz, op, who, va, end>>
      /\ pc' = [pc EXCEPT ![p] = "decref"] /\ pg' = [pg EXCEPT ![p] = old]
      /\ pte' = [pte EXCEPT ![p][i] = new]
      /\ data' = [data EXCEPT ![pg[p]] = data[old]]
  BY DEF InstallCopy, InKernel, MayRun, CallState, InHand, procVars, Goto
<1>t. pte \in [Procs -> [VPages -> PTE]] /\ i \in Nat /\ sz[p] \in 0..MaxPages
  BY DEF TypeOK
<1>2. i \in VPages
  BY <1>1, <1>t, PageIntro, CowAssumption
<1>3. old \in Frames /\ Mapped(p, i)
  <2>1. OwnPage(p, i)  BY <1>1 DEF OwnPage
  <2> QED  BY <1>1, <1>2, <2>1, <1>t, PteFact DEF Layout, LiveLayout, Mapped
<1>4. new \in PTE /\ new.pa # NoFrame
  BY <1>1, PteFact, FrameFact
<1>5. /\ pte' \in [Procs -> [VPages -> PTE]]
      /\ \A q \in Procs, v \in VPages :
           pte'[q][v] = IF q = p /\ v = i THEN new ELSE pte[q][v]
  BY <1>1, <1>2, <1>t, <1>4
<1>6. SamePages
  BY <1>3, <1>4, <1>5 DEF SamePages, Mapped
<1>7. data' \in [Frames -> Contents]
  BY <1>1, <1>3 DEF TypeOK
<1>8. Others(p) /\ pc'[p] = "decref" /\ pg'[p] \in Frames
  BY <1>1, <1>3 DEF Others, TypeOK
<1>9. TypeOK'
  BY <1>1, <1>3, <1>5, <1>7 DEF TypeOK
<1>10. Layout' /\ Workers'
  BY <1>1, <1>6, <1>8, QuietStep DEF SameProcs
<1>11. CallState'
  BY <1>1, <1>8 DEF CallState, Others, InHand
<1> QED  BY <1>9, <1>10, <1>11 DEF IInv

LEMMA InstallGrowStep ==
  ASSUME NEW p \in Procs, TypeOK, Layout, Workers, CallState, InstallGrow(p)
  PROVE  IInv'
<1> DEFINE i == va[p]
           new == [pa |-> pg[p], w |-> TRUE, cow |-> FALSE]
<1>1. /\ pst[p] = "LIVE" /\ pc[p] = "install" /\ op[p] = "grow" /\ who[p] = p
      /\ pg[p] \in Frames /\ sz[p] <= i /\ i < end[p]
  BY DEF InstallGrow, InKernel, MayRun, CallState, InHand, Workers
<1>t. /\ pte \in [Procs -> [VPages -> PTE]] /\ i \in Nat /\ sz[p] \in 0..MaxPages
      /\ end[p] \in 0..MaxPages /\ \A q \in Procs : who[q] \in Procs
      /\ \A v \in VPages : v \in Nat /\ v < MaxPages
  BY PageFact DEF TypeOK
<1>2. i \in VPages /\ i + 1 \in 0..MaxPages
  BY <1>1, <1>t, PageIntro, CowAssumption
<1>3. new \in PTE /\ new.pa # NoFrame
  BY <1>1, PteFact, FrameFact
<1>4. data' \in [Frames -> Contents] /\ UNCHANGED <<refCount, freelist, pst, parent, who>>
  <2>1. data' = [data EXCEPT ![pg[p]] = Zero]  BY DEF InstallGrow
  <2> QED  BY <1>1, <2>1 DEF InstallGrow, TypeOK, Contents, procVars
<1>5. CASE \* the page is mapped
           /\ pte' = [pte EXCEPT ![p][i] = new]
           /\ pg' = [pg EXCEPT ![p] = NoFrame]
           /\ IF i + 1 = end[p]
              THEN /\ sz' = [sz EXCEPT ![p] = end[p]]
                   /\ pc' = [pc EXCEPT ![p] = "user"]
                   /\ op' = [op EXCEPT ![p] = "none"]
                   /\ va' = [va EXCEPT ![p] = 0]
                   /\ end' = [end EXCEPT ![p] = 0]
              ELSE /\ va' = [va EXCEPT ![p] = i + 1]
                   /\ pc' = [pc EXCEPT ![p] = "kalloc"]
                   /\ UNCHANGED <<sz, op, end>>
  <2>1. /\ pte' \in [Procs -> [VPages -> PTE]]
        /\ \A q \in Procs, v \in VPages :
             pte'[q][v] = IF q = p /\ v = i THEN new ELSE pte[q][v]
    BY <1>5, <1>2, <1>t, <1>3
  <2>2. \A q \in Procs, v \in VPages : Mapped(q, v)' <=> Mapped(q, v) \/ (q = p /\ v = i)
    BY <1>3, <2>1 DEF Mapped
  <2>3. /\ Others(p) /\ \A q \in Procs : q # p => sz'[q] = sz[q]
        /\ IF i + 1 = end[p]
           THEN sz'[p] = end[p] /\ pc'[p] = "user" /\ op'[p] = "none"
           ELSE sz'[p] = sz[p] /\ pc'[p] = "kalloc" /\ op'[p] = "grow"
                /\ va'[p] = i + 1 /\ end'[p] = end[p]
    BY <1>1, <1>4, <1>5 DEF Others, TypeOK
  <2>4. TypeOK'
    <3>1. CASE i + 1 = end[p]
      <4>1. sz' = [sz EXCEPT ![p] = end[p]] /\ pc' = [pc EXCEPT ![p] = "user"]
            /\ op' = [op EXCEPT ![p] = "none"] /\ va' = [va EXCEPT ![p] = 0]
            /\ end' = [end EXCEPT ![p] = 0]
        BY <1>5, <3>1
      <4>2. sz' \in [Procs -> 0..MaxPages]  BY <4>1, <1>t DEF TypeOK
      <4>3. pg' \in [Procs -> Frames \cup {NoFrame}]  BY <1>5 DEF TypeOK
      <4>4. va' \in [Procs -> 0..MaxPages] /\ end' \in [Procs -> 0..MaxPages]
        BY <4>1, CowAssumption DEF TypeOK
      <4> QED  BY <1>4, <2>1, <4>1, <4>2, <4>3, <4>4 DEF TypeOK
    <3>2. CASE i + 1 # end[p]
      <4>1. va' = [va EXCEPT ![p] = i + 1] /\ pc' = [pc EXCEPT ![p] = "kalloc"]
            /\ UNCHANGED <<sz, op, end>>
        BY <1>5, <3>2
      <4> QED  BY <1>4, <1>5, <1>2, <2>1, <4>1 DEF TypeOK
    <3> QED  BY <3>1, <3>2
  <2>5. UnusedLayout'
    BY <1>1, <1>4, <2>2 DEF Layout, UnusedLayout
  <2>6. LiveLayout'
    <3> SUFFICES ASSUME NEW q \in Procs, NEW v \in VPages, pst[q] \in {"LIVE", "PANIC"}
                 PROVE  Mapped(q, v)' <=> OwnPage(q, v)'
      BY <1>4 DEF LiveLayout
    <3>1. Mapped(q, v) <=> OwnPage(q, v)  BY DEF Layout, LiveLayout
    <3>2. CASE q # p  BY <1>1, <2>2, <2>3, <3>1, <3>2 DEF OwnPage, Others
    <3>3. CASE q = p /\ i + 1 = end[p]
      BY <1>1, <1>t, <2>2, <2>3, <3>1, <3>3 DEF OwnPage
    <3>4. CASE q = p /\ i + 1 # end[p]
      BY <1>1, <1>t, <2>2, <2>3, <3>1, <3>4 DEF OwnPage
    <3> QED  BY <3>2, <3>3, <3>4
  <2>7. ZombieLayout'
    BY <1>1, <1>4, <2>2, <2>3 DEF Layout, ZombieLayout, Others
  <2>8. ChildLayout'
    BY <1>1, <1>4, <1>t, <2>2, <2>3 DEF Layout, ChildLayout, Others, Workers
  <2>9. Workers'
    BY <1>1, <1>4, <1>t, <2>3 DEF Workers, Others
  <2>10. CallState'
    BY <1>1, <1>4, <1>t, <2>3 DEF CallState, Others, InHand
  <2> QED  BY <2>4, <2>5, <2>6, <2>7, <2>8, <2>9, <2>10 DEF IInv, Layout
<1>6. CASE \* mappages() fails
           /\ pc' = [pc EXCEPT ![p] = "decref"]
           /\ op' = [op EXCEPT ![p] = "growfail"]
           /\ end' = [end EXCEPT ![p] = i]
           /\ va' = [va EXCEPT ![p] = sz[p]]
           /\ UNCHANGED <<sz, pte, pg>>
  <2>1. Others(p) /\ pc'[p] = "decref" /\ op'[p] = "growfail" /\ end'[p] = i /\ va'[p] = sz[p]
    BY <1>4, <1>6 DEF Others, TypeOK
  <2>2. TypeOK'
    BY <1>4, <1>6 DEF TypeOK
  <2>3. SamePages
    BY <1>6, SamePte
  <2>4. UnusedLayout'
    BY <1>4, <2>3 DEF Layout, UnusedLayout, SamePages
  <2>5. LiveLayout'
    BY <1>1, <1>4, <1>6, <1>t, <2>1, <2>3 DEF Layout, LiveLayout, OwnPage, Others, SamePages
  <2>6. ZombieLayout'
    BY <1>1, <1>4, <1>6, <2>1, <2>3 DEF Layout, ZombieLayout, Others, SamePages
  <2>7. ChildLayout'
    BY <1>1, <1>4, <1>t, <2>1, <2>3 DEF Layout, ChildLayout, Others, SamePages
  <2>8. Workers'
    BY <1>1, <1>4, <1>t, <2>1 DEF Workers, Others
  <2>9. CallState'
    BY <1>1, <1>6, <1>4, <1>t, <2>1 DEF CallState, Others, InHand
  <2> QED  BY <2>2, <2>4, <2>5, <2>6, <2>7, <2>8, <2>9 DEF IInv, Layout
<1> QED  BY <1>5, <1>6 DEF InstallGrow, Goto, procVars

-----------------------------------------------------------------------------
(* uvmunmap() and the system calls.                                        *)

LEMMA UnmapStep ==
  ASSUME NEW p \in Procs, TypeOK, Layout, Workers, CallState, Unmap(p)
  PROVE  IInv'
<1> DEFINE c == who[p]
           i == va[p]
           f == pte[c][i].pa
<1>1. /\ pst[p] = "LIVE" /\ pc[p] = "unmap" /\ i < end[p]
      /\ op[p] \in {"growfail", "shrink", "forkfail", "reap"}
      /\ UNCHANGED <<freelist, data, pst, parent, sz, op, who, end>>
      /\ pc' = [pc EXCEPT ![p] = "count"] /\ pg' = [pg EXCEPT ![p] = f]
      /\ va' = [va EXCEPT ![p] = i + 1]
      /\ pte' = [pte EXCEPT ![c][i] = NoPte]
      /\ refCount' = [refCount EXCEPT ![f] = @ - 1]
  <2>1. op[p] \in {"growfail", "shrink", "forkfail", "reap"}
    BY DEF Unmap, InKernel, CallState, TypeOK
  <2> QED  BY <2>1 DEF Unmap, InKernel, MayRun, procVars, Goto
<1>t. /\ pte \in [Procs -> [VPages -> PTE]] /\ i \in Nat /\ end[p] \in 0..MaxPages
      /\ \A q \in Procs : who[q] \in Procs
      /\ \A v \in VPages : v \in Nat /\ v < MaxPages
  BY PageFact DEF TypeOK
<1>2. i \in VPages /\ i + 1 \in 0..MaxPages
  BY <1>1, <1>t, PageIntro, CowAssumption
<1>3. Mapped(c, i)
  <2>1. CASE op[p] \in {"growfail", "shrink"}
    <3>1. c = p /\ OwnPage(p, i)  BY <1>1, <1>t, <2>1 DEF Workers, OwnPage
    <3> QED  BY <1>1, <1>2, <3>1 DEF Layout, LiveLayout
  <2>2. CASE op[p] \in {"forkfail", "reap"}
    BY <1>1, <1>2, <1>t, <2>2 DEF Layout, ChildLayout
  <2> QED  BY <1>1, <2>1, <2>2
<1>4. f \in Frames
  BY <1>2, <1>3, <1>t, PteFact DEF Mapped
<1>5. /\ pte' \in [Procs -> [VPages -> PTE]]
      /\ \A q \in Procs, v \in VPages :
           pte'[q][v] = IF q = c /\ v = i THEN NoPte ELSE pte[q][v]
  BY <1>1, <1>2, <1>t, PteFact
<1>6. \A q \in Procs, v \in VPages : Mapped(q, v)' <=> Mapped(q, v) /\ ~(q = c /\ v = i)
  BY <1>5, PteFact DEF Mapped
<1>7. Others(p) /\ pc'[p] = "count" /\ pg'[p] \in Frames /\ va'[p] = i + 1
  BY <1>1, <1>4 DEF Others, TypeOK
<1>8. TypeOK'
  <2>1. refCount' \in [Frames -> Int]  BY <1>1, <1>4 DEF TypeOK
  <2>2. va' \in [Procs -> 0..MaxPages]  BY <1>1, <1>2 DEF TypeOK
  <2> QED  BY <1>1, <1>4, <1>5, <2>1, <2>2 DEF TypeOK
<1>9. UnusedLayout'
  BY <1>1, <1>6 DEF Layout, UnusedLayout
<1>10. LiveLayout'
  <2> SUFFICES ASSUME NEW q \in Procs, NEW v \in VPages, pst[q] \in {"LIVE", "PANIC"}
               PROVE  Mapped(q, v)' <=> OwnPage(q, v)'
    BY <1>1 DEF LiveLayout
  <2>1. Mapped(q, v) <=> OwnPage(q, v)  BY DEF Layout, LiveLayout
  <2>2. CASE q # p
    <3>1. q # c  BY <1>1, <2>2 DEF Workers
    <3> QED  BY <1>1, <1>6, <1>7, <2>1, <2>2, <3>1 DEF OwnPage, Others
  <2>3. CASE q = p /\ op[p] \in {"growfail", "shrink"}
    <3>1. c = p  BY <2>3 DEF Workers
    <3>2. sz[p] <= i  BY <2>3 DEF CallState
    <3>3. sz[p] \in Nat /\ v \in Nat  BY <1>t DEF TypeOK
    <3>4. Mapped(p, v) <=> v < sz[p] \/ (i <= v /\ v < end[p])
      BY <2>1, <2>3 DEF OwnPage
    <3>5. OwnPage(p, v)' <=> v < sz[p] \/ (i + 1 <= v /\ v < end[p])
      BY <1>1, <1>7, <2>3 DEF OwnPage
    <3>6. Mapped(p, v)' <=> Mapped(p, v) /\ v # i
      BY <1>6, <3>1
    <3> QED  BY <1>t, <2>3, <3>2, <3>3, <3>4, <3>5, <3>6
  <2>4. CASE q = p /\ op[p] \in {"forkfail", "reap"}
    <3>1. c # p  BY <1>1, <2>4 DEF Workers
    <3> QED  BY <1>1, <1>6, <1>7, <2>1, <2>4, <3>1 DEF OwnPage
  <2> QED  BY <1>1, <2>2, <2>3, <2>4
<1>11. ZombieLayout'
  BY <1>1, <1>6 DEF Layout, ZombieLayout, Workers
<1>12. ChildLayout'
  <2> SUFFICES ASSUME NEW q \in Procs, NEW v \in VPages
               PROVE  /\ op[q] = "fork" => (Mapped(who[q], v)' <=> v < va'[q])
                      /\ op[q] \in {"forkfail", "reap"} =>
                           (Mapped(who[q], v)' <=> va'[q] <= v /\ v < end[q])
    BY <1>1 DEF ChildLayout, Mapped
  <2>1. /\ op[q] = "fork" => (Mapped(who[q], v) <=> v < va[q])
        /\ op[q] \in {"forkfail", "reap"} =>
             (Mapped(who[q], v) <=> va[q] <= v /\ v < end[q])
    BY DEF Layout, ChildLayout
  <2>2. CASE q = p
    BY <1>1, <1>6, <1>7, <1>t, <2>1, <2>2
  <2>3. CASE q # p /\ op[q] \in {"fork", "forkfail", "reap"}
    <3>1. who[q] # c  BY <1>1, <2>3 DEF Workers
    <3> QED  BY <1>6, <1>7, <1>t, <2>1, <2>3, <3>1 DEF Others
  <2> QED  BY <2>2, <2>3
<1>13. Workers'
  BY <1>1 DEF Workers
<1>14. CallState'
  BY <1>1, <1>7, <1>t DEF CallState, Others, InHand, TypeOK
<1> QED  BY <1>8, <1>9, <1>10, <1>11, <1>12, <1>13, <1>14 DEF IInv, Layout

LEMMA UnmapDoneStep ==
  ASSUME NEW p \in Procs, TypeOK, Layout, Workers, CallState, UnmapDone(p)
  PROVE  IInv'
<1> DEFINE c == who[p]
<1>1. /\ pst[p] = "LIVE" /\ pc[p] = "unmap" /\ va[p] >= end[p]
      /\ op[p] \in {"growfail", "shrink", "forkfail", "reap"}
      /\ UNCHANGED <<refCount, freelist, data, pte>>
  <2>1. op[p] \in {"growfail", "shrink", "forkfail", "reap"}
    BY DEF UnmapDone, InKernel, CallState, TypeOK
  <2> QED  BY <2>1 DEF UnmapDone, InKernel, MayRun, memVars
<1>2. Return(p) /\ Call(p, "user", "none", p, 0, 0)
  BY ReturnFact DEF UnmapDone
<1>3. SamePages
  BY <1>1, SamePte
<1>t. /\ \A q \in Procs : who[q] \in Procs /\ sz[q] \in Nat /\ va[q] \in Nat /\ end[q] \in Nat
      /\ \A v \in VPages : v \in Nat /\ v < MaxPages
  BY PageFact DEF TypeOK
<1>4. CASE op[p] \in {"growfail", "shrink"}
  <2>1. UNCHANGED <<pst, parent, sz>>
    BY <1>4 DEF UnmapDone, procVars
  <2>2. TypeOK'
    BY <1>1, <1>2, <2>1, CowAssumption DEF TypeOK, Return
  <2>3. UnusedLayout' /\ ZombieLayout' /\ ChildLayout'
    BY <1>1, <1>2, <1>3, <1>4, <1>t, <2>1
       DEF Layout, UnusedLayout, ZombieLayout, ChildLayout, SamePages, Call, Others
  <2>4. LiveLayout'
    BY <1>1, <1>2, <1>3, <1>4, <1>t, <2>1
       DEF Layout, LiveLayout, OwnPage, SamePages, Call, Others
  <2>5. Workers'
    BY <1>1, <1>2, <1>t, <2>1 DEF Workers, Call, Others
  <2>6. CallState'
    BY <1>2, <2>1 DEF CallState, Call, Others, InHand
  <2> QED  BY <2>2, <2>3, <2>4, <2>5, <2>6 DEF IInv, Layout
<1>5. CASE op[p] \in {"forkfail", "reap"}
  <2>1. /\ pst' = [pst EXCEPT ![c] = "UNUSED"] /\ sz' = [sz EXCEPT ![c] = 0]
        /\ parent' = [parent EXCEPT ![c] = InitProc]
    BY <1>5 DEF UnmapDone
  <2>2. TypeOK'
    <3>1. pst' \in [Procs -> {"UNUSED", "USED", "LIVE", "ZOMBIE", "PANIC"}]
      BY <1>t, <2>1 DEF TypeOK
    <3>2. sz' \in [Procs -> 0..MaxPages]
      BY <1>t, <2>1, CowAssumption DEF TypeOK
    <3>3. parent' \in [Procs -> Procs]
      BY <1>t, <2>1, CowAssumption DEF TypeOK
    <3>4. /\ va' \in [Procs -> 0..MaxPages] /\ end' \in [Procs -> 0..MaxPages]
          /\ who' \in [Procs -> Procs] /\ pg' \in [Procs -> Frames \cup {NoFrame}]
      BY <1>2, CowAssumption DEF TypeOK, Return
    <3>5. /\ pc' = [pc EXCEPT ![p] = "user"] /\ op' = [op EXCEPT ![p] = "none"]
      BY <1>2 DEF Return
    <3> QED  BY <1>1, <3>1, <3>2, <3>3, <3>4, <3>5 DEF TypeOK
  <2>3. \A q \in Procs : /\ pst'[q] = IF q = c THEN "UNUSED" ELSE pst[q]
                         /\ sz'[q] = IF q = c THEN 0 ELSE sz[q]
                         /\ parent'[q] = IF q = c THEN InitProc ELSE parent[q]
    BY <2>1, <1>t DEF TypeOK
  <2>4. pst[c] \in {"USED", "ZOMBIE"} /\ op[c] = "none" /\ c # p
    BY <1>1, <1>5, <1>t DEF Workers
  <2>5. \A q \in Procs : q # p /\ op[q] \in {"fork", "forkfail", "reap"} => who[q] # c
    BY <1>1, <1>5, <1>t DEF Workers
  <2>6. UnusedLayout'
    BY <1>1, <1>3, <1>5, <1>t, <2>3 DEF Layout, UnusedLayout, ChildLayout, SamePages
  <2>7. LiveLayout'
    BY <1>2, <1>3, <1>5, <2>3, <2>4 DEF Layout, LiveLayout, OwnPage, SamePages, Call, Others
  <2>8. ZombieLayout'
    BY <1>2, <1>3, <1>5, <1>t, <2>3, <2>4
       DEF Layout, ZombieLayout, SamePages, Call, Others
  <2>9. ChildLayout'
    BY <1>2, <1>3, <1>t DEF Layout, ChildLayout, SamePages, Call, Others
  <2>10. Workers'
    BY <1>1, <1>2, <1>t, <2>3, <2>4, <2>5 DEF Workers, Call, Others
  <2>11. CallState'
    <3>1. sz'[p] = sz[p] /\ \A q \in Procs : op[q] # "none" => sz'[q] = sz[q]
      BY <2>3, <2>4
    <3> QED  BY <1>2, <2>3, <3>1 DEF CallState, Call, Others, InHand
  <2> QED  BY <2>2, <2>6, <2>7, <2>8, <2>9, <2>10, <2>11 DEF IInv, Layout
<1> QED  BY <1>1, <1>4, <1>5

LEMMA ForkStep ==
  ASSUME NEW p \in Procs, NEW c \in Procs, TypeOK, Layout, Workers, CallState, Fork(p, c)
  PROVE  IInv'
<1>1. /\ pst[p] = "LIVE" /\ pc[p] = "user" /\ op[p] = "none" /\ pst[c] = "UNUSED" /\ c # p
      /\ op[c] = "none"
      /\ UNCHANGED <<refCount, freelist, data, parent, sz, pte, pg>>
      /\ pst' = [pst EXCEPT ![c] = "USED"]
      /\ Enter(p, "copy", "fork", c, 0, sz[p])
  BY DEF Fork, InUser, MayRun, memVars, CallState, Workers, Enter
<1>2. Call(p, "copy", "fork", c, 0, sz[p])
  BY <1>1, EnterFact
<1>3. \A q \in Procs : pst'[q] = IF q = c THEN "USED" ELSE pst[q]
  BY <1>1 DEF TypeOK
<1>4. SamePages
  BY <1>1, SamePte
<1>t. /\ \A q \in Procs : who[q] \in Procs
      /\ \A v \in VPages : v \in Nat /\ v < MaxPages
  BY PageFact DEF TypeOK
<1>5. TypeOK'
  BY <1>1, CowAssumption DEF TypeOK, Enter
<1>6. UnusedLayout'
  BY <1>3, <1>4 DEF Layout, UnusedLayout, SamePages
<1>7. LiveLayout'
  BY <1>1, <1>2, <1>3, <1>4 DEF Layout, LiveLayout, OwnPage, SamePages, Call, Others
<1>8. ZombieLayout'
  BY <1>1, <1>2, <1>3, <1>4 DEF Layout, ZombieLayout, SamePages, Call, Others
<1>9. ChildLayout'
  <2> SUFFICES ASSUME NEW q \in Procs, NEW v \in VPages
               PROVE  /\ op'[q] = "fork" => (Mapped(who[q], v)' <=> v < va'[q])
                      /\ op'[q] \in {"forkfail", "reap"} =>
                           (Mapped(who[q], v)' <=> va'[q] <= v /\ v < end'[q])
    BY DEF ChildLayout, Mapped
  <2>1. CASE q = p
    BY <1>1, <1>2, <1>4, <1>t, <2>1 DEF Layout, UnusedLayout, SamePages, Mapped, Call
  <2>2. CASE q # p
    <3>1. op'[q] = op[q] /\ who'[q] = who[q] /\ va'[q] = va[q] /\ end'[q] = end[q]
      BY <1>2, <2>2 DEF Call, Others
    <3>2. Mapped(who[q], v)' <=> Mapped(who[q], v)
      BY <1>1, <3>1 DEF Mapped
    <3> QED  BY <3>1, <3>2 DEF Layout, ChildLayout
  <2> QED  BY <2>1, <2>2
<1>10. Workers'
  BY <1>1, <1>2, <1>3, <1>t DEF Workers, Call, Others
<1>11. CallState'
  <2>1. sz[p] \in Nat  BY DEF TypeOK
  <2> QED  BY <1>1, <1>2, <2>1 DEF CallState, Call, Others, InHand
<1> QED  BY <1>5, <1>6, <1>7, <1>8, <1>9, <1>10, <1>11 DEF IInv, Layout

LEMMA CopyPageFailsStep ==
  ASSUME NEW p \in Procs, TypeOK, Layout, Workers, CallState, CopyPageFails(p)
  PROVE  IInv'
<1> DEFINE c == who[p]
           i == va[p]
<1>1. /\ pst[p] = "LIVE" /\ pc[p] = "copy" /\ op[p] = "fork" /\ i < end[p] /\ end[p] = sz[p]
      /\ UNCHANGED <<refCount, freelist, data, pst, parent, sz, pg>>
      /\ pte' = [pte EXCEPT ![p][i] = MarkCow(pte[p][i])]
      /\ Enter(p, "unmap", "forkfail", c, 0, i)
  BY DEF CopyPageFails, InKernel, MayRun, memVars, procVars, CallState, Enter
<1>2. Call(p, "unmap", "forkfail", c, 0, i)
  BY <1>1, EnterFact
<1>t. /\ pte \in [Procs -> [VPages -> PTE]] /\ i \in Nat /\ sz[p] \in 0..MaxPages
      /\ \A q \in Procs : who[q] \in Procs
      /\ \A v \in VPages : v \in Nat /\ v < MaxPages
  BY PageFact DEF TypeOK
<1>3. i \in VPages
  BY <1>1, <1>t, PageIntro, CowAssumption
<1>4. /\ pte' \in [Procs -> [VPages -> PTE]]
      /\ \A q \in Procs, v \in VPages :
           pte'[q][v] = IF q = p /\ v = i THEN MarkCow(pte[p][i]) ELSE pte[q][v]
  BY <1>1, <1>3, <1>t, FlagFact
<1>5. SamePages
  BY <1>3, <1>4, <1>t, FlagFact DEF SamePages, Mapped
<1>6. TypeOK'
  <2>1. /\ va' \in [Procs -> 0..MaxPages] /\ end' \in [Procs -> 0..MaxPages]
        /\ who' \in [Procs -> Procs]
    BY <1>1, <1>t, CowAssumption DEF TypeOK, Enter
  <2>2. pc' = [pc EXCEPT ![p] = "unmap"] /\ op' = [op EXCEPT ![p] = "forkfail"]
    BY <1>1 DEF Enter
  <2> QED  BY <1>1, <1>4, <2>1, <2>2 DEF TypeOK
<1>7. UnusedLayout' /\ ZombieLayout'
  BY <1>1, <1>2, <1>5 DEF Layout, UnusedLayout, ZombieLayout, SamePages, Call, Others
<1>8. LiveLayout'
  BY <1>1, <1>2, <1>5 DEF Layout, LiveLayout, OwnPage, SamePages, Call, Others
<1>9. ChildLayout'
  <2> SUFFICES ASSUME NEW q \in Procs, NEW v \in VPages
               PROVE  /\ op'[q] = "fork" => (Mapped(who[q], v)' <=> v < va'[q])
                      /\ op'[q] \in {"forkfail", "reap"} =>
                           (Mapped(who[q], v)' <=> va'[q] <= v /\ v < end'[q])
    BY DEF ChildLayout, Mapped
  <2>1. CASE q = p
    BY <1>1, <1>2, <1>5, <1>t, <2>1 DEF Layout, ChildLayout, SamePages, Call
  <2>2. CASE q # p
    BY <1>2, <1>5, <1>t, <2>2 DEF Layout, ChildLayout, SamePages, Call, Others
  <2> QED  BY <2>1, <2>2
<1>10. Workers'
  BY <1>1, <1>2, <1>t DEF Workers, Call, Others
<1>11. CallState'
  BY <1>1, <1>2 DEF CallState, Call, Others, InHand
<1> QED  BY <1>6, <1>7, <1>8, <1>9, <1>10, <1>11 DEF IInv, Layout

LEMMA ForkDoneStep ==
  ASSUME NEW p \in Procs, TypeOK, Layout, Workers, CallState, ForkDone(p)
  PROVE  IInv'
<1> DEFINE c == who[p]
<1>1. /\ pst[p] = "LIVE" /\ pc[p] = "copy" /\ op[p] = "fork" /\ va[p] >= end[p]
      /\ end[p] = sz[p] /\ pst[c] = "USED" /\ c # p /\ op[c] = "none"
      /\ UNCHANGED <<refCount, freelist, data, pte>>
      /\ pst' = [pst EXCEPT ![c] = "LIVE"] /\ sz' = [sz EXCEPT ![c] = sz[p]]
      /\ parent' = [parent EXCEPT ![c] = p]
      /\ Return(p)
  BY DEF ForkDone, InKernel, MayRun, memVars, CallState, Workers, TypeOK
<1>2. Call(p, "user", "none", p, 0, 0)
  BY <1>1, ReturnFact
<1>3. SamePages
  BY <1>1, SamePte
<1>t. /\ \A q \in Procs : who[q] \in Procs /\ sz[q] \in Nat /\ va[q] \in Nat /\ end[q] \in Nat
      /\ \A v \in VPages : v \in Nat /\ v < MaxPages
  BY PageFact DEF TypeOK
<1>4. \A q \in Procs : /\ pst'[q] = IF q = c THEN "LIVE" ELSE pst[q]
                       /\ sz'[q] = IF q = c THEN sz[p] ELSE sz[q]
                       /\ parent'[q] = IF q = c THEN p ELSE parent[q]
  BY <1>1, <1>t DEF TypeOK
<1>5. TypeOK'
  <2>1. pst' \in [Procs -> {"UNUSED", "USED", "LIVE", "ZOMBIE", "PANIC"}]
    BY <1>1, <1>t DEF TypeOK
  <2>2. sz' \in [Procs -> 0..MaxPages] /\ parent' \in [Procs -> Procs]
    BY <1>1, <1>t DEF TypeOK
  <2>3. /\ va' \in [Procs -> 0..MaxPages] /\ end' \in [Procs -> 0..MaxPages]
        /\ who' \in [Procs -> Procs] /\ pg' \in [Procs -> Frames \cup {NoFrame}]
    BY <1>1, CowAssumption DEF TypeOK, Return
  <2>4. pc' = [pc EXCEPT ![p] = "user"] /\ op' = [op EXCEPT ![p] = "none"]
    BY <1>1 DEF Return
  <2> QED  BY <1>1, <2>1, <2>2, <2>3, <2>4 DEF TypeOK
<1>6. \A q \in Procs : q # p /\ op[q] \in {"fork", "forkfail", "reap"} => who[q] # c
  BY <1>1, <1>t DEF Workers
<1>7. UnusedLayout' /\ ZombieLayout'
  BY <1>1, <1>2, <1>3, <1>4 DEF Layout, UnusedLayout, ZombieLayout, SamePages, Call, Others
<1>8. LiveLayout'
  <2> SUFFICES ASSUME NEW q \in Procs, NEW v \in VPages, pst'[q] \in {"LIVE", "PANIC"}
               PROVE  Mapped(q, v)' <=> OwnPage(q, v)'
    BY DEF LiveLayout
  <2>1. CASE q = c
    <3>1. Mapped(c, v) <=> v < va[p]  BY <1>1 DEF Layout, ChildLayout
    <3>2. OwnPage(q, v)' <=> v < sz[p]
      BY <1>1, <1>2, <1>4, <1>t, <2>1 DEF OwnPage, Call, Others
    <3>3. va[p] = sz[p]  BY <1>1, <1>t DEF CallState
    <3> QED  BY <1>3, <1>t, <2>1, <3>1, <3>2, <3>3 DEF SamePages
  <2>2. CASE q # c
    BY <1>1, <1>2, <1>3, <1>4, <2>2 DEF Layout, LiveLayout, OwnPage, SamePages, Call, Others
  <2> QED  BY <2>1, <2>2
<1>9. ChildLayout'
  BY <1>2, <1>3, <1>t DEF Layout, ChildLayout, SamePages, Call, Others
<1>10. Workers'
  BY <1>1, <1>2, <1>4, <1>6, <1>t DEF Workers, Call, Others
<1>11. CallState'
  <2>1. \A q \in Procs : op[q] # "none" => sz'[q] = sz[q]
    BY <1>1, <1>4
  <2> QED  BY <1>2, <2>1 DEF CallState, Call, Others, InHand
<1> QED  BY <1>5, <1>7, <1>8, <1>9, <1>10, <1>11 DEF IInv, Layout

LEMMA WaitStep ==
  ASSUME NEW p \in Procs, NEW c \in Procs, TypeOK, Layout, Workers, CallState, Wait(p, c)
  PROVE  IInv'
<1>1. /\ pst[p] = "LIVE" /\ pc[p] = "user" /\ op[p] = "none"
      /\ pst[c] = "ZOMBIE" /\ parent[c] = p /\ op[c] = "none" /\ c # p
      /\ UNCHANGED <<refCount, freelist, data, pst, parent, sz, pte, pg>>
      /\ Enter(p, "unmap", "reap", c, 0, sz[c])
  BY DEF Wait, InUser, MayRun, memVars, procVars, CallState, Workers, Enter
<1>2. Call(p, "unmap", "reap", c, 0, sz[c])
  BY <1>1, EnterFact
<1>3. SamePages
  BY <1>1, SamePte
<1>t. /\ \A q \in Procs : who[q] \in Procs
      /\ \A v \in VPages : v \in Nat /\ 0 <= v
  BY PageFact DEF TypeOK
<1>4. TypeOK'
  BY <1>1, CowAssumption DEF TypeOK, Enter
<1>5. \A q \in Procs : op[q] = "reap" => who[q] # c
  BY <1>1, <1>t DEF Workers
<1>6. UnusedLayout'
  BY <1>1, <1>3 DEF Layout, UnusedLayout, SamePages
<1>7. LiveLayout'
  BY <1>1, <1>2, <1>3 DEF Layout, LiveLayout, OwnPage, SamePages, Call, Others
<1>8. ZombieLayout'
  BY <1>1, <1>2, <1>3 DEF Layout, ZombieLayout, SamePages, Call, Others
<1>9. ChildLayout'
  <2> SUFFICES ASSUME NEW q \in Procs, NEW v \in VPages
               PROVE  /\ op'[q] = "fork" => (Mapped(who[q], v)' <=> v < va'[q])
                      /\ op'[q] \in {"forkfail", "reap"} =>
                           (Mapped(who[q], v)' <=> va'[q] <= v /\ v < end'[q])
    BY DEF ChildLayout, Mapped
  <2>1. CASE q = p
    BY <1>1, <1>2, <1>3, <1>5, <1>t, <2>1 DEF Layout, ZombieLayout, SamePages, Call
  <2>2. CASE q # p
    BY <1>2, <1>3, <1>t, <2>2 DEF Layout, ChildLayout, SamePages, Call, Others
  <2> QED  BY <2>1, <2>2
<1>10. Workers'
  BY <1>1, <1>2, <1>5, <1>t DEF Workers, Call, Others
<1>11. CallState'
  BY <1>1, <1>2 DEF CallState, Call, Others, InHand
<1> QED  BY <1>4, <1>6, <1>7, <1>8, <1>9, <1>10, <1>11 DEF IInv, Layout

LEMMA GrowStep ==
  ASSUME NEW p \in Procs, NEW n \in 0..MaxPages, TypeOK, Layout, Workers, CallState, Grow(p, n)
  PROVE  IInv'
<1>1. /\ pst[p] = "LIVE" /\ pc[p] = "user" /\ op[p] = "none" /\ sz[p] < n
      /\ UNCHANGED <<refCount, freelist, data, pst, parent, sz, pte, pg>>
      /\ Enter(p, "kalloc", "grow", p, sz[p], n)
  BY DEF Grow, InUser, MayRun, memVars, procVars, CallState, Enter
<1>2. Call(p, "kalloc", "grow", p, sz[p], n)
  BY <1>1, EnterFact
<1>3. SamePages
  BY <1>1, SamePte
<1>t. /\ \A q \in Procs : who[q] \in Procs /\ sz[q] \in Nat
  BY DEF TypeOK
<1>4. TypeOK'
  BY <1>1 DEF TypeOK, Enter
<1>5. UnusedLayout' /\ ZombieLayout'
  BY <1>1, <1>2, <1>3 DEF Layout, UnusedLayout, ZombieLayout, SamePages, Call, Others
<1>6. LiveLayout'
  BY <1>1, <1>2, <1>3 DEF Layout, LiveLayout, OwnPage, SamePages, Call, Others
<1>7. ChildLayout'
  BY <1>2, <1>3, <1>t DEF Layout, ChildLayout, SamePages, Call, Others
<1>8. Workers'
  BY <1>1, <1>2, <1>t DEF Workers, Call, Others
<1>9. CallState'
  BY <1>1, <1>2, <1>t DEF CallState, Call, Others, InHand
<1> QED  BY <1>4, <1>5, <1>6, <1>7, <1>8, <1>9 DEF IInv, Layout

LEMMA ShrinkStep ==
  ASSUME NEW p \in Procs, NEW n \in 0..MaxPages, TypeOK, Layout, Workers, CallState, Shrink(p, n)
  PROVE  IInv'
<1>1. /\ pst[p] = "LIVE" /\ pc[p] = "user" /\ op[p] = "none" /\ n < sz[p]
      /\ UNCHANGED <<refCount, freelist, data, pst, parent, pte, pg>>
      /\ sz' = [sz EXCEPT ![p] = n]
      /\ Enter(p, "unmap", "shrink", p, n, sz[p])
  BY DEF Shrink, InUser, MayRun, memVars, procVars, CallState, Enter
<1>2. Call(p, "unmap", "shrink", p, n, sz[p])
  BY <1>1, EnterFact
<1>3. SamePages
  BY <1>1, SamePte
<1>t. /\ n \in Nat /\ \A q \in Procs : who[q] \in Procs /\ sz[q] \in Nat
      /\ \A v \in VPages : v \in Nat
      /\ \A q \in Procs : sz'[q] = IF q = p THEN n ELSE sz[q]
  BY <1>1, PageFact DEF TypeOK
<1>4. TypeOK'
  <2>1. sz' \in [Procs -> 0..MaxPages]  BY <1>1 DEF TypeOK
  <2> QED  BY <1>1, <2>1 DEF TypeOK, Enter
<1>5. UnusedLayout' /\ ZombieLayout'
  BY <1>1, <1>2, <1>3, <1>t DEF Layout, UnusedLayout, ZombieLayout, SamePages, Call, Others
<1>6. LiveLayout'
  <2> SUFFICES ASSUME NEW q \in Procs, NEW v \in VPages, pst[q] \in {"LIVE", "PANIC"}
               PROVE  Mapped(q, v)' <=> OwnPage(q, v)'
    BY <1>1 DEF LiveLayout
  <2>1. CASE q # p
    BY <1>2, <1>3, <1>t, <2>1 DEF Layout, LiveLayout, OwnPage, SamePages, Call, Others
  <2>2. CASE q = p
    BY <1>1, <1>2, <1>3, <1>t, <2>2 DEF Layout, LiveLayout, OwnPage, SamePages, Call
  <2> QED  BY <2>1, <2>2
<1>7. ChildLayout'
  BY <1>2, <1>3, <1>t DEF Layout, ChildLayout, SamePages, Call, Others
<1>8. Workers'
  BY <1>1, <1>2, <1>t DEF Workers, Call, Others
<1>9. CallState'
  <2>1. \A q \in Procs : q # p => sz'[q] = sz[q]  BY <1>t
  <2>2. sz'[p] = n  BY <1>t
  <2> QED  BY <1>1, <1>2, <1>t, <2>1, <2>2 DEF CallState, Call, Others, InHand
<1> QED  BY <1>4, <1>5, <1>6, <1>7, <1>8, <1>9 DEF IInv, Layout

-----------------------------------------------------------------------------
(* The induction.                                                          *)

LEMMA InitIInv == Init => IInv
<1> SUFFICES ASSUME Init PROVE IInv
  OBVIOUS
<1>1. TypeOK
  <2>1. refCount \in [Frames -> Int] /\ data \in [Frames -> Contents]
    BY DEF Init, Contents
  <2>2. freelist \in Seq(Frames)
    <3>1. NumFrames - InitSize \in Nat  BY CowAssumption
    <3>2. \A i \in 1..(NumFrames - InitSize) : InitSize + i \in Frames
      BY CowAssumption DEF Frames
    <3> DEFINE n == NumFrames - InitSize
               s == [i \in 1..n |-> InitSize + i]
    <3>3. s \in [1..n -> Frames]  BY <3>2
    <3> HIDE DEF n, s
    <3>4. s \in Seq(Frames)  BY <3>1, <3>3, SeqDef DEF n
    <3> QED  BY <3>4 DEF Init, n, s
  <2>3. sz \in [Procs -> 0..MaxPages] /\ parent \in [Procs -> Procs]
    BY CowAssumption DEF Init
  <2>4. pte \in [Procs -> [VPages -> PTE]]
    <3>1. \A v \in VPages : v < InitSize => v + 1 \in Frames
      BY PageFact, CowAssumption DEF Frames
    <3>2. \A v \in VPages : v < InitSize =>
            [pa |-> v + 1, w |-> v \notin TextPages, cow |-> FALSE] \in PTE
      BY <3>1, PteFact
    <3> QED  BY <3>2, PteFact DEF Init
  <2>5. /\ pst \in [Procs -> {"UNUSED", "USED", "LIVE", "ZOMBIE", "PANIC"}]
        /\ va \in [Procs -> 0..MaxPages] /\ end \in [Procs -> 0..MaxPages]
        /\ who \in [Procs -> Procs] /\ pg \in [Procs -> Frames \cup {NoFrame}]
    BY CowAssumption DEF Init
  <2>6. pc = [p \in Procs |-> "user"] /\ op = [p \in Procs |-> "none"]
    BY DEF Init
  <2> QED  BY <2>1, <2>2, <2>3, <2>4, <2>5, <2>6 DEF TypeOK
<1>2. \A p \in Procs, v \in VPages : Mapped(p, v) <=> p = InitProc /\ v < InitSize
  BY PageFact, CowAssumption, PteFact DEF Init, Mapped, NoFrame
<1>3. \A p \in Procs : /\ pst[p] = IF p = InitProc THEN "LIVE" ELSE "UNUSED"
                       /\ pc[p] = "user" /\ op[p] = "none" /\ who[p] = p
                       /\ sz[p] = IF p = InitProc THEN InitSize ELSE 0
  BY DEF Init
<1>4. Layout
  BY <1>2, <1>3 DEF Layout, UnusedLayout, LiveLayout, ZombieLayout, ChildLayout, OwnPage
<1>5. Workers /\ CallState
  BY <1>3 DEF Workers, CallState, InHand
<1> QED  BY <1>1, <1>4, <1>5 DEF IInv

LEMMA StepIInv == IInv /\ [Next]_vars => IInv'
<1> SUFFICES ASSUME IInv, [Next]_vars PROVE IInv'
  OBVIOUS
<1>0. TypeOK /\ Layout /\ Workers /\ CallState
  BY DEF IInv
<1>1. CASE UNCHANGED vars
  BY <1>1 DEF IInv, TypeOK, Layout, UnusedLayout, LiveLayout, ZombieLayout, ChildLayout,
              OwnPage, Mapped, Workers, CallState, vars
<1>2. ASSUME NEW p \in Procs, Step(p) PROVE IInv'
  <2>1. ASSUME NEW v \in VPages, NEW x \in Values, Store(p, v, x) PROVE IInv'
    BY <1>0, <2>1, StoreStep
  <2>2. ASSUME NEW v \in VPages, StoreFault(p, v) \/ Copyout(p, v) PROVE IInv'
    BY <1>0, <2>2, StoreFaultStep
  <2>3. ASSUME NEW v \in VPages, StoreKilled(p, v) PROVE IInv'
    <3>1. ExitEffect(p) /\ pst[p] = "LIVE" /\ op[p] = "none"
      BY <1>0, <2>3 DEF StoreKilled, InUser, MayRun, CallState
    <3> QED  BY <1>0, <3>1, ExitStep
  <2>4. ASSUME NEW x \in Values, CopyoutWrite(p, x) PROVE IInv'
    BY <1>0, <2>4, CopyoutWriteStep
  <2>5. CASE KallocPop(p)  BY <1>0, <2>5, KallocPopStep
  <2>6. CASE KallocIncref(p)  BY <1>0, <2>6, KallocIncrefStep
  <2>7. CASE KallocFails(p)  BY <1>0, <2>7, KallocFailsStep
  <2>8. CASE InstallCopy(p)  BY <1>0, <2>8, InstallCopyStep
  <2>9. CASE InstallGrow(p)  BY <1>0, <2>9, InstallGrowStep
  <2>10. CASE KfreeDecref(p)  BY <1>0, <2>10, KfreeDecrefStep
  <2>11. CASE KfreeShared(p) \/ KfreePush(p)  BY <1>0, <2>11, KfreeEndStep
  <2>12. CASE KfreeLast(p)  BY <1>0, <2>12, KfreeLastStep
  <2>13. CASE Unmap(p)  BY <1>0, <2>13, UnmapStep
  <2>14. CASE UnmapDone(p)  BY <1>0, <2>14, UnmapDoneStep
  <2>15. ASSUME NEW c \in Procs, Fork(p, c) PROVE IInv'  BY <1>0, <2>15, ForkStep
  <2>16. ASSUME NEW c \in Procs, Wait(p, c) PROVE IInv'  BY <1>0, <2>16, WaitStep
  <2>17. CASE CopyPage(p)  BY <1>0, <2>17, CopyPageStep
  <2>18. CASE CopyPageFails(p)  BY <1>0, <2>18, CopyPageFailsStep
  <2>19. CASE ForkDone(p)  BY <1>0, <2>19, ForkDoneStep
  <2>20. CASE Exit(p)
    <3>1. ExitEffect(p) /\ pst[p] = "LIVE" /\ op[p] = "none"
      BY <1>0, <2>20 DEF Exit, InUser, MayRun, CallState
    <3> QED  BY <1>0, <3>1, ExitStep
  <2>21. ASSUME NEW n \in 0..MaxPages, Grow(p, n) PROVE IInv'  BY <1>0, <2>21, GrowStep
  <2>22. ASSUME NEW n \in 0..MaxPages, Shrink(p, n) PROVE IInv'  BY <1>0, <2>22, ShrinkStep
  <2> QED  BY <1>2, <2>1, <2>2, <2>3, <2>4, <2>5, <2>6, <2>7, <2>8, <2>9, <2>10, <2>11,
              <2>12, <2>13, <2>14, <2>15, <2>16, <2>17, <2>18, <2>19, <2>20, <2>21, <2>22
           DEF Step
<1> QED  BY <1>1, <1>2 DEF Next

\* The layout of the page tables, the processes at work on them and the state of
\* every kernel operation keep the inductive invariant, for every program.
THEOREM Inductive == Spec => []IInv
BY InitIInv, StepIInv, PTL DEF Spec

\* Every variable keeps its type in every behaviour.
THEOREM TypeCorrect == Spec => []TypeOK
<1>1. IInv => TypeOK  BY DEF IInv
<1> QED  BY <1>1, Inductive, PTL

\* uvmunmap(), uvmcopy() and mappages() never reach their panics, whatever the
\* processes do and however many there are.
THEOREM PanicFree == Spec => []NoPagingPanic
<1>1. IInv => NoPagingPanic
  <2> SUFFICES ASSUME IInv, NEW p \in Procs
               PROVE  /\ pc[p] = "unmap" /\ va[p] < end[p] => Mapped(who[p], va[p])
                      /\ pc[p] = "copy" /\ va[p] < end[p] =>
                           Mapped(p, va[p]) /\ ~Mapped(who[p], va[p])
                      /\ pc[p] = "install" => (Mapped(p, va[p]) <=> op[p] # "grow")
    BY DEF NoPagingPanic
  <2>0. Layout /\ Workers /\ CallState  BY DEF IInv
  <2>1. /\ va[p] \in Nat /\ end[p] \in 0..MaxPages /\ sz[p] \in 0..MaxPages /\ who[p] \in Procs
        /\ pst[p] \in {"UNUSED", "USED", "LIVE", "ZOMBIE", "PANIC"}
        /\ op[p] \in {"none", "fault", "copyout", "grow", "growfail", "shrink",
                      "fork", "forkfail", "reap"}
    BY DEF IInv, TypeOK
  <2>2. pc[p] # "user" => pst[p] \in {"LIVE", "PANIC"}
    BY <2>0, <2>1 DEF Workers, CallState
  <2>3. va[p] < end[p] \/ va[p] < sz[p] => va[p] \in VPages
    BY <2>1, PageIntro, CowAssumption
  <2>4. ASSUME pc[p] = "unmap", va[p] < end[p] PROVE Mapped(who[p], va[p])
    <3>1. op[p] \in {"growfail", "shrink", "forkfail", "reap"}
      BY <2>0, <2>1, <2>4 DEF CallState
    <3>2. CASE op[p] \in {"growfail", "shrink"}
      <4>1. who[p] = p /\ OwnPage(p, va[p])
        BY <2>0, <2>1, <2>4, <3>2 DEF Workers, OwnPage
      <4> QED  BY <2>0, <2>2, <2>3, <2>4, <4>1 DEF Layout, LiveLayout
    <3>3. CASE op[p] \in {"forkfail", "reap"}
      BY <2>0, <2>1, <2>3, <2>4, <3>3 DEF Layout, ChildLayout
    <3> QED  BY <3>1, <3>2, <3>3
  <2>5. ASSUME pc[p] = "copy", va[p] < end[p]
        PROVE  Mapped(p, va[p]) /\ ~Mapped(who[p], va[p])
    <3>1. op[p] = "fork" /\ end[p] = sz[p]  BY <2>0, <2>5 DEF CallState
    <3>2. OwnPage(p, va[p])  BY <2>5, <3>1 DEF OwnPage
    <3>3. Mapped(p, va[p])
      BY <2>0, <2>2, <2>3, <2>5, <3>2 DEF Layout, LiveLayout
    <3>4. ~Mapped(who[p], va[p])
      BY <2>0, <2>1, <2>3, <2>5, <3>1 DEF Layout, ChildLayout
    <3> QED  BY <3>3, <3>4
  <2>6. ASSUME pc[p] = "install" PROVE Mapped(p, va[p]) <=> op[p] # "grow"
    <3>1. op[p] \in {"fault", "copyout", "grow"}  BY <2>0, <2>6 DEF CallState
    <3>2. CASE op[p] \in {"fault", "copyout"}
      <4>1. va[p] < sz[p]  BY <2>0, <3>2 DEF CallState
      <4>2. OwnPage(p, va[p])  BY <4>1 DEF OwnPage
      <4> QED  BY <2>0, <2>2, <2>3, <2>6, <3>2, <4>1, <4>2 DEF Layout, LiveLayout
    <3>3. CASE op[p] = "grow"
      <4>1. sz[p] <= va[p] /\ va[p] < end[p]  BY <2>0, <3>3 DEF CallState
      <4>2. ~OwnPage(p, va[p])  BY <2>1, <3>3, <4>1 DEF OwnPage
      <4> QED  BY <2>0, <2>2, <2>3, <2>6, <3>3, <4>1, <4>2 DEF Layout, LiveLayout
    <3> QED  BY <3>1, <3>2, <3>3
  <2> QED  BY <2>4, <2>5, <2>6
<1> QED  BY <1>1, Inductive, PTL

-----------------------------------------------------------------------------
(* The reference counts. A token is a place that may name a frame: a PTE,  *)
(* or the hand of a process.                                               *)

Tokens == Procs \X (0..MaxPages)

Hand(q) == IF HoldsInHand(q) THEN pg[q] ELSE NoFrame

LEMMA TokenFact ==
  /\ \A t \in Tokens : \E q \in Procs : t = <<q, MaxPages>> \/ \E v \in VPages : t = <<q, v>>
  /\ \A q \in Procs : <<q, MaxPages>> \in Tokens /\ RefersTo(<<q, MaxPages>>) = Hand(q)
  /\ \A q \in Procs, v \in VPages : <<q, v>> \in Tokens /\ RefersTo(<<q, v>>) = pte[q][v].pa
<1>1. \A t \in Tokens : t \in Procs \X (0..MaxPages) /\ t = <<t[1], t[2]>>
  BY DEF Tokens
<1>2. \A v \in 0..MaxPages : v = MaxPages \/ v \in VPages
  BY PageIntro, CowAssumption
<1>3. \A v \in VPages : v \in 0..MaxPages /\ v # MaxPages
  BY PageFact, CowAssumption
<1>4. MaxPages \in 0..MaxPages
  BY CowAssumption
<1>5. \A t \in Tokens : t[1] \in Procs /\ t[2] \in 0..MaxPages
  BY DEF Tokens
<1>6. \A t \in Tokens : \E q \in Procs : t = <<q, MaxPages>> \/ \E v \in VPages : t = <<q, v>>
  <2> SUFFICES ASSUME NEW t \in Tokens
               PROVE  \E q \in Procs : t = <<q, MaxPages>> \/ \E v \in VPages : t = <<q, v>>
    OBVIOUS
  <2>1. t[2] = MaxPages \/ t[2] \in VPages  BY <1>2, <1>5
  <2> QED  BY <1>1, <1>5, <2>1
<1>7. \A q \in Procs : <<q, MaxPages>> \in Tokens /\ RefersTo(<<q, MaxPages>>) = Hand(q)
  BY <1>4 DEF Tokens, RefersTo, Hand
<1>8. \A q \in Procs, v \in VPages : <<q, v>> \in Tokens /\ RefersTo(<<q, v>>) = pte[q][v].pa
  BY <1>3 DEF Tokens, RefersTo
<1> QED  BY <1>6, <1>7, <1>8

LEMMA RefsFinite ==
  \A f : /\ IsFiniteSet(Refs(f)) /\ Cardinality(Refs(f)) \in Nat
         /\ \A t : t \in Refs(f) <=> t \in Tokens /\ RefersTo(t) = f
<1>1. IsFiniteSet(Tokens)
  <2>1. IsFiniteSet(0..MaxPages)  BY FS_Interval, CowAssumption
  <2> QED  BY <2>1, FS_Product, CowAssumption DEF Tokens
<1>2. \A f : Refs(f) = {t \in Tokens : RefersTo(t) = f}
  BY DEF Refs, Tokens
<1>3. \A f : IsFiniteSet(Refs(f))
  <2> TAKE f
  <2>1. Refs(f) \subseteq Tokens  BY <1>2
  <2> QED  BY <1>1, <2>1, FS_Subset
<1> QED  BY <1>2, <1>3, FS_CardinalityType

\* No token changes.
LEMMA RefsSame ==
  ASSUME RefCountExact, refCount' = refCount,
         \A t \in Tokens : RefersTo(t)' = RefersTo(t)
  PROVE  RefCountExact'
<1>1. \A f : Refs(f)' = Refs(f)
  BY DEF Refs, Tokens
<1> QED  BY <1>1 DEF RefCountExact

\* One token comes to name f, and f's count goes up.
LEMMA RefsGain ==
  ASSUME TypeOK, RefCountExact, NEW u \in Tokens, NEW f \in Frames,
         RefersTo(u) = NoFrame, RefersTo(u)' = f,
         \A t \in Tokens : t # u => RefersTo(t)' = RefersTo(t),
         refCount' = [refCount EXCEPT ![f] = @ + 1]
  PROVE  RefCountExact'
<1>1. \A g \in Frames : Refs(g)' = IF g = f THEN Refs(g) \cup {u} ELSE Refs(g)
  BY FrameFact DEF Refs, Tokens
<1>2. u \notin Refs(f)
  BY FrameFact, RefsFinite
<1>3. Cardinality(Refs(f) \cup {u}) = Cardinality(Refs(f)) + 1
  BY <1>2, RefsFinite, FS_AddElement
<1>4. \A g \in Frames : refCount'[g] = IF g = f THEN refCount[g] + 1 ELSE refCount[g]
  BY DEF TypeOK
<1> QED  BY <1>1, <1>3, <1>4 DEF RefCountExact

\* One token that named f is cleared, and f's count goes down.
LEMMA RefsLose ==
  ASSUME TypeOK, RefCountExact, NEW u \in Tokens, NEW f \in Frames,
         RefersTo(u) = f, RefersTo(u)' = NoFrame,
         \A t \in Tokens : t # u => RefersTo(t)' = RefersTo(t),
         refCount' = [refCount EXCEPT ![f] = @ - 1]
  PROVE  RefCountExact'
<1>1. \A g \in Frames : Refs(g)' = IF g = f THEN Refs(g) \ {u} ELSE Refs(g)
  BY FrameFact DEF Refs, Tokens
<1>2. u \in Refs(f)
  BY RefsFinite
<1>3. Cardinality(Refs(f) \ {u}) = Cardinality(Refs(f)) - 1
  BY <1>2, RefsFinite, FS_RemoveElement
<1>4. \A g \in Frames : refCount'[g] = IF g = f THEN refCount[g] - 1 ELSE refCount[g]
  BY DEF TypeOK
<1> QED  BY <1>1, <1>3, <1>4 DEF RefCountExact

\* Two tokens exchange what they name.
LEMMA RefsSwap ==
  ASSUME RefCountExact, refCount' = refCount, NEW u \in Tokens, NEW w \in Tokens, u # w,
         RefersTo(u)' = RefersTo(w), RefersTo(w)' = RefersTo(u),
         \A t \in Tokens : t # u /\ t # w => RefersTo(t)' = RefersTo(t)
  PROVE  RefCountExact'
<1> SUFFICES ASSUME NEW f \in Frames PROVE Cardinality(Refs(f)') = Cardinality(Refs(f))
  BY DEF RefCountExact
<1>0. \A t : t \in Refs(f)' <=> t \in Tokens /\ RefersTo(t)' = f
  BY DEF Refs, Tokens
<1>1. CASE RefersTo(u) = RefersTo(w)
  <2>1. Refs(f)' = Refs(f)  BY <1>0, <1>1, RefsFinite
  <2> QED  BY <2>1
<1>2. ASSUME NEW a \in {u, w}, NEW b \in {u, w}, a # b, RefersTo(a) = f, RefersTo(b) # f
      PROVE  Cardinality(Refs(f)') = Cardinality(Refs(f))
  <2>1. Refs(f)' = (Refs(f) \ {a}) \cup {b}
    BY <1>0, <1>2, RefsFinite
  <2>2. a \in Refs(f) /\ b \notin Refs(f) \ {a}
    BY <1>2, RefsFinite
  <2>3. IsFiniteSet(Refs(f) \ {a}) /\ Cardinality(Refs(f) \ {a}) = Cardinality(Refs(f)) - 1
    BY <2>2, RefsFinite, FS_RemoveElement
  <2>4. Cardinality((Refs(f) \ {a}) \cup {b}) = Cardinality(Refs(f) \ {a}) + 1
    BY <2>2, <2>3, FS_AddElement
  <2> QED  BY <2>1, <2>3, <2>4, RefsFinite
<1>3. CASE RefersTo(u) # f /\ RefersTo(w) # f
  <2>1. Refs(f)' = Refs(f)  BY <1>0, <1>3, RefsFinite
  <2> QED  BY <2>1
<1> QED  BY <1>1, <1>2, <1>3

\* A step that moves no page and empties no hand.
LEMMA RefsQuiet ==
  ASSUME RefCountExact, refCount' = refCount,
         \A q \in Procs, v \in VPages : pte'[q][v].pa = pte[q][v].pa,
         \A q \in Procs : Hand(q)' = Hand(q)
  PROVE  RefCountExact'
<1>1. \A t \in Tokens : RefersTo(t)' = RefersTo(t)
  <2> SUFFICES ASSUME NEW t \in Tokens PROVE RefersTo(t)' = RefersTo(t)
    OBVIOUS
  <2>1. PICK q \in Procs : t = <<q, MaxPages>> \/ \E v \in VPages : t = <<q, v>>
    BY TokenFact
  <2>2. CASE t = <<q, MaxPages>>
    <3>1. RefersTo(<<q, MaxPages>>)' = Hand(q)'  BY DEF RefersTo, Hand, HoldsInHand
    <3> QED  BY <2>2, <3>1, TokenFact
  <2>3. ASSUME NEW v \in VPages, t = <<q, v>> PROVE RefersTo(t)' = RefersTo(t)
    <3>1. v # MaxPages  BY PageFact, CowAssumption
    <3>2. RefersTo(<<q, v>>)' = pte'[q][v].pa  BY <3>1 DEF RefersTo
    <3> QED  BY <2>3, <3>2, TokenFact
  <2> QED  BY <2>1, <2>2, <2>3
<1> QED  BY <1>1, RefsSame

\* One kind of change, seen from the tables and the hands.
LEMMA RefsHand ==
  ASSUME NEW p \in Procs, NEW t \in Tokens, t # <<p, MaxPages>>,
         \A q \in Procs, v \in VPages : pte'[q][v].pa = pte[q][v].pa,
         \A q \in Procs : q # p => Hand(q)' = Hand(q)
  PROVE  RefersTo(t)' = RefersTo(t)
<1>1. PICK q \in Procs : t = <<q, MaxPages>> \/ \E v \in VPages : t = <<q, v>>
  BY TokenFact
<1>2. CASE t = <<q, MaxPages>>
  <2>1. RefersTo(<<q, MaxPages>>)' = Hand(q)'  BY DEF RefersTo, Hand, HoldsInHand
  <2> QED  BY <1>2, <2>1, TokenFact
<1>3. ASSUME NEW v \in VPages, t = <<q, v>> PROVE RefersTo(t)' = RefersTo(t)
  <2>1. v # MaxPages  BY PageFact, CowAssumption
  <2>2. RefersTo(<<q, v>>)' = pte'[q][v].pa  BY <2>1 DEF RefersTo
  <2> QED  BY <1>3, <2>2, TokenFact
<1> QED  BY <1>1, <1>2, <1>3

LEMMA RefsPage ==
  ASSUME NEW c \in Procs, NEW i \in VPages, NEW t \in Tokens, t # <<c, i>>,
         \A q \in Procs, v \in VPages :
           ~(q = c /\ v = i) => pte'[q][v].pa = pte[q][v].pa,
         \A q \in Procs : t = <<q, MaxPages>> => Hand(q)' = Hand(q)
  PROVE  RefersTo(t)' = RefersTo(t)
<1>1. PICK q \in Procs : t = <<q, MaxPages>> \/ \E v \in VPages : t = <<q, v>>
  BY TokenFact
<1>2. CASE t = <<q, MaxPages>>
  <2>1. RefersTo(<<q, MaxPages>>)' = Hand(q)'  BY DEF RefersTo, Hand, HoldsInHand
  <2> QED  BY <1>2, <2>1, TokenFact
<1>3. ASSUME NEW v \in VPages, t = <<q, v>> PROVE RefersTo(t)' = RefersTo(t)
  <2>1. v # MaxPages  BY PageFact, CowAssumption
  <2>2. RefersTo(<<q, v>>)' = pte'[q][v].pa  BY <2>1 DEF RefersTo
  <2> QED  BY <1>3, <2>2, TokenFact
<1> QED  BY <1>1, <1>2, <1>3

LEMMA NewTokens ==
  /\ \A q \in Procs : RefersTo(<<q, MaxPages>>)' = Hand(q)'
  /\ \A q \in Procs, v \in VPages : RefersTo(<<q, v>>)' = pte'[q][v].pa
<1>1. \A v \in VPages : v # MaxPages  BY PageFact, CowAssumption
<1> QED  BY <1>1 DEF RefersTo, Hand, HoldsInHand

\* A process whose step begins or ends outside "install" and "decref".
LEMMA EmptyHand ==
  ASSUME NEW p \in Procs, RefCountExact, refCount' = refCount, pte' = pte,
         Others(p), pc[p] \notin {"install", "decref"}, pc'[p] \notin {"install", "decref"}
  PROVE  RefCountExact'
<1>1. \A q \in Procs : Hand(q)' = Hand(q)
  BY DEF Hand, HoldsInHand, Others
<1> QED  BY <1>1, RefsQuiet

LEMMA RefsKallocIncref ==
  ASSUME NEW p \in Procs, IInv, RefCountExact, KallocIncref(p)
  PROVE  RefCountExact'
<1> DEFINE f == pg[p]
<1>1. /\ pc[p] = "newref" /\ pc'[p] = "install" /\ f \in Frames /\ pg' = pg /\ Others(p)
      /\ refCount' = [refCount EXCEPT ![f] = @ + 1] /\ pte' = pte
  BY DEF KallocIncref, InKernel, Goto, IInv, TypeOK, CallState, InHand, Others
<1>2. Hand(p) = NoFrame /\ Hand(p)' = f /\ \A q \in Procs : q # p => Hand(q)' = Hand(q)
  BY <1>1 DEF Hand, HoldsInHand, Others
<1>3. \A t \in Tokens : t # <<p, MaxPages>> => RefersTo(t)' = RefersTo(t)
  BY <1>1, <1>2, RefsHand
<1> QED  BY <1>1, <1>2, <1>3, TokenFact, NewTokens, RefsGain DEF IInv

LEMMA RefsKfreeDecref ==
  ASSUME NEW p \in Procs, IInv, RefCountExact, KfreeDecref(p)
  PROVE  RefCountExact'
<1> DEFINE f == pg[p]
<1>1. /\ pc[p] = "decref" /\ pc'[p] = "count" /\ f \in Frames /\ pg' = pg /\ Others(p)
      /\ refCount' = [refCount EXCEPT ![f] = @ - 1] /\ pte' = pte
  BY DEF KfreeDecref, InKernel, Goto, IInv, TypeOK, CallState, InHand, Others
<1>2. Hand(p) = f /\ Hand(p)' = NoFrame /\ \A q \in Procs : q # p => Hand(q)' = Hand(q)
  BY <1>1 DEF Hand, HoldsInHand, Others
<1>3. \A t \in Tokens : t # <<p, MaxPages>> => RefersTo(t)' = RefersTo(t)
  BY <1>1, <1>2, RefsHand
<1> QED  BY <1>1, <1>2, <1>3, TokenFact, NewTokens, RefsLose DEF IInv

\* The hand and a PTE exchange their frames.
LEMMA RefsInstall ==
  ASSUME NEW p \in Procs, NEW i \in VPages, RefCountExact, refCount' = refCount,
         \A q \in Procs, v \in VPages :
           pte'[q][v].pa = IF q = p /\ v = i THEN Hand(p) ELSE pte[q][v].pa,
         Hand(p)' = pte[p][i].pa,
         \A q \in Procs : q # p => Hand(q)' = Hand(q)
  PROVE  RefCountExact'
<1> DEFINE u == <<p, i>>
           w == <<p, MaxPages>>
<1>1. u \in Tokens /\ w \in Tokens /\ u # w
  BY TokenFact, PageFact, CowAssumption
<1>2. RefersTo(u) = pte[p][i].pa /\ RefersTo(w) = Hand(p)
  BY TokenFact
<1>3. RefersTo(u)' = Hand(p) /\ RefersTo(w)' = pte[p][i].pa
  BY NewTokens
<1>4. \A t \in Tokens : t # u /\ t # w => RefersTo(t)' = RefersTo(t)
  BY RefsPage
<1> HIDE DEF u, w
<1> QED  BY <1>1, <1>2, <1>3, <1>4, RefsSwap

LEMMA RefsInstallCopy ==
  ASSUME NEW p \in Procs, IInv, RefCountExact, InstallCopy(p)
  PROVE  RefCountExact'
<1> DEFINE i == va[p]
           old == pte[p][i].pa
           new == [pa |-> pg[p], w |-> TRUE, cow |-> FALSE]
<1>1. /\ pc[p] = "install" /\ pc'[p] = "decref" /\ pg'[p] = old /\ Others(p)
      /\ refCount' = refCount /\ i < sz[p] /\ pte' = [pte EXCEPT ![p][i] = new]
  BY DEF InstallCopy, InKernel, Goto, IInv, TypeOK, CallState, Others
<1>2. i \in Nat /\ sz[p] \in 0..MaxPages /\ pte \in [Procs -> [VPages -> PTE]]
  BY DEF IInv, TypeOK
<1>3. i \in VPages
  BY <1>1, <1>2, PageIntro, CowAssumption
<1>4. \A q \in Procs, v \in VPages :
        pte'[q][v].pa = IF q = p /\ v = i THEN pg[p] ELSE pte[q][v].pa
  BY <1>1, <1>2, <1>3
<1>5. Hand(p) = pg[p] /\ Hand(p)' = old /\ \A q \in Procs : q # p => Hand(q)' = Hand(q)
  BY <1>1 DEF Hand, HoldsInHand, Others
<1> QED  BY <1>1, <1>3, <1>4, <1>5, RefsInstall

LEMMA RefsInstallGrow ==
  ASSUME NEW p \in Procs, IInv, RefCountExact, InstallGrow(p)
  PROVE  RefCountExact'
<1> DEFINE i == va[p]
           new == [pa |-> pg[p], w |-> TRUE, cow |-> FALSE]
<1>1. /\ pc[p] = "install" /\ refCount' = refCount /\ sz[p] <= i /\ i < end[p]
      /\ pst[p] = "LIVE" /\ op[p] = "grow"
  BY DEF InstallGrow, InKernel, MayRun, IInv, CallState
<1>2. /\ i \in Nat /\ end[p] \in 0..MaxPages /\ pte \in [Procs -> [VPages -> PTE]]
      /\ sz[p] \in Nat /\ DOMAIN pc = Procs
  BY DEF IInv, TypeOK
<1>3. i \in VPages
  BY <1>1, <1>2, PageIntro, CowAssumption
<1>4. Hand(p) = pg[p] /\ pte[p][i].pa = NoFrame
  <2>1. ~OwnPage(p, i)  BY <1>1, <1>2 DEF OwnPage
  <2>2. Layout  BY DEF IInv
  <2> QED  BY <1>1, <1>3, <2>1, <2>2 DEF Hand, HoldsInHand, Layout, LiveLayout, Mapped
<1>5. CASE pte' = [pte EXCEPT ![p][i] = new]
           /\ (\/ pc' = [pc EXCEPT ![p] = "user"] \/ pc' = [pc EXCEPT ![p] = "kalloc"])
           /\ pg' = [pg EXCEPT ![p] = NoFrame]
  <2>1. \A q \in Procs, v \in VPages :
          pte'[q][v].pa = IF q = p /\ v = i THEN pg[p] ELSE pte[q][v].pa
    BY <1>2, <1>3, <1>5
  <2>2. Hand(p)' = NoFrame  BY <1>2, <1>5 DEF Hand, HoldsInHand
  <2>3. \A q \in Procs : q # p => pc'[q] = pc[q] /\ pg'[q] = pg[q]
    BY <1>5 DEF IInv, TypeOK
  <2>4. \A q \in Procs : q # p => Hand(q)' = Hand(q)
    BY <2>3 DEF Hand, HoldsInHand
  <2> QED  BY <1>1, <1>3, <1>4, <2>1, <2>2, <2>4, RefsInstall
<1>6. CASE pte' = pte /\ pc' = [pc EXCEPT ![p] = "decref"] /\ pg' = pg
  <2>1. pc'[p] = "decref" /\ \A q \in Procs : q # p => pc'[q] = pc[q]
    BY <1>2, <1>6
  <2>2. \A q \in Procs : Hand(q)' = Hand(q)
    BY <1>1, <1>6, <2>1 DEF Hand, HoldsInHand
  <2> QED  BY <1>1, <1>6, <2>2, RefsQuiet
<1> QED  BY <1>5, <1>6 DEF InstallGrow, Goto

LEMMA RefsUnmapPage ==
  ASSUME NEW c \in Procs, NEW i \in VPages, NEW f \in Frames, TypeOK, RefCountExact,
         pte[c][i].pa = f,
         refCount' = [refCount EXCEPT ![f] = @ - 1],
         \A q \in Procs, v \in VPages :
           pte'[q][v].pa = IF q = c /\ v = i THEN NoFrame ELSE pte[q][v].pa,
         \A q \in Procs : Hand(q)' = Hand(q)
  PROVE  RefCountExact'
<1>1. <<c, i>> \in Tokens /\ RefersTo(<<c, i>>) = f /\ RefersTo(<<c, i>>)' = NoFrame
  BY TokenFact, NewTokens
<1>2. \A t \in Tokens : t # <<c, i>> => RefersTo(t)' = RefersTo(t)
  BY RefsPage
<1> QED  BY <1>1, <1>2, RefsLose

LEMMA RefsCopyOne ==
  ASSUME NEW c \in Procs, NEW i \in VPages, NEW f \in Frames, TypeOK, RefCountExact,
         pte[c][i].pa = NoFrame,
         refCount' = [refCount EXCEPT ![f] = @ + 1],
         \A q \in Procs, v \in VPages :
           pte'[q][v].pa = IF q = c /\ v = i THEN f ELSE pte[q][v].pa,
         \A q \in Procs : Hand(q)' = Hand(q)
  PROVE  RefCountExact'
<1>1. <<c, i>> \in Tokens /\ RefersTo(<<c, i>>) = NoFrame /\ RefersTo(<<c, i>>)' = f
  BY TokenFact, NewTokens
<1>2. \A t \in Tokens : t # <<c, i>> => RefersTo(t)' = RefersTo(t)
  BY RefsPage
<1> QED  BY <1>1, <1>2, RefsGain

LEMMA RefsUnmap ==
  ASSUME NEW p \in Procs, IInv, NoPagingPanic, RefCountExact, Unmap(p)
  PROVE  RefCountExact'
<1> DEFINE c == who[p]
           i == va[p]
           f == pte[c][i].pa
<1>1. /\ pc[p] = "unmap" /\ i < end[p] /\ pc' = [pc EXCEPT ![p] = "count"]
      /\ pg' = [pg EXCEPT ![p] = f]
      /\ pte' = [pte EXCEPT ![c][i] = NoPte]
      /\ refCount' = [refCount EXCEPT ![f] = @ - 1]
  BY DEF Unmap, InKernel, Goto
<1>2. /\ i \in Nat /\ end[p] \in 0..MaxPages /\ pte \in [Procs -> [VPages -> PTE]]
      /\ c \in Procs /\ DOMAIN pc = Procs /\ pg \in [Procs -> Frames \cup {NoFrame}]
  BY DEF IInv, TypeOK
<1>3. i \in VPages
  BY <1>1, <1>2, PageIntro, CowAssumption
<1>4. f \in Frames
  <2>1. Mapped(c, i)  BY <1>1 DEF NoPagingPanic
  <2> QED  BY <1>2, <1>3, <2>1, PteFact DEF Mapped
<1>5. \A q \in Procs, v \in VPages :
        pte'[q][v].pa = IF q = c /\ v = i THEN NoFrame ELSE pte[q][v].pa
  BY <1>1, <1>2, <1>3, PteFact
<1>6. pc'[p] = "count" /\ \A q \in Procs : q # p => pc'[q] = pc[q] /\ pg'[q] = pg[q]
  BY <1>1, <1>2
<1>7. \A q \in Procs : Hand(q)' = Hand(q)
  BY <1>1, <1>6 DEF Hand, HoldsInHand
<1>8. TypeOK
  BY DEF IInv
<1>9. refCount' = [refCount EXCEPT ![f] = @ - 1] /\ pte[c][i].pa = f
  BY <1>1
<1> HIDE DEF c, i, f
<1> QED  BY <1>2, <1>3, <1>4, <1>5, <1>7, <1>8, <1>9, RefsUnmapPage

LEMMA RefsCopyPage ==
  ASSUME NEW p \in Procs, IInv, NoPagingPanic, RefCountExact, CopyPage(p)
  PROVE  RefCountExact'
<1> DEFINE c == who[p]
           i == va[p]
           f == pte[p][i].pa
<1>1. /\ pc[p] = "copy" /\ i < end[p] /\ pc' = pc /\ pg' = pg
      /\ pte' = [pte EXCEPT ![p][i] = MarkCow(pte[p][i]), ![c][i] = ChildPte(pte[p][i])]
      /\ refCount' = [refCount EXCEPT ![f] = @ + 1]
  BY DEF CopyPage, InKernel
<1>2. /\ i \in Nat /\ end[p] \in 0..MaxPages /\ pte \in [Procs -> [VPages -> PTE]]
      /\ c \in Procs
  BY DEF IInv, TypeOK
<1>3. i \in VPages
  BY <1>1, <1>2, PageIntro, CowAssumption
<1>4. f \in Frames /\ pte[c][i].pa = NoFrame
  <2>1. Mapped(p, i) /\ ~Mapped(c, i)  BY <1>1 DEF NoPagingPanic
  <2> QED  BY <1>2, <1>3, <2>1, PteFact DEF Mapped
<1>5. c # p
  BY <1>4, FrameFact
<1>6. \A q \in Procs, v \in VPages :
        pte'[q][v].pa = IF q = c /\ v = i THEN f ELSE pte[q][v].pa
  BY <1>1, <1>2, <1>3, <1>5, FlagFact
<1>7. \A q \in Procs : Hand(q)' = Hand(q)
  BY <1>1 DEF Hand, HoldsInHand
<1>8. TypeOK
  BY DEF IInv
<1>9. refCount' = [refCount EXCEPT ![f] = @ + 1]
  BY <1>1
<1> HIDE DEF c, i, f
<1> QED  BY <1>2, <1>3, <1>4, <1>6, <1>7, <1>8, <1>9, RefsCopyOne

LEMMA StepRefs ==
  ASSUME IInv, NoPagingPanic, RefCountExact, [Next]_vars
  PROVE  RefCountExact'
<1>0. TypeOK /\ CallState
  BY DEF IInv
<1>1. CASE UNCHANGED vars
  BY <1>1, RefsQuiet DEF vars, Hand, HoldsInHand
<1>2. ASSUME NEW p \in Procs, Step(p) PROVE RefCountExact'
  <2>1. ASSUME NEW v \in VPages, NEW x \in Values, Store(p, v, x) PROVE RefCountExact'
    BY <2>1, RefsQuiet DEF Store, callVars, Hand, HoldsInHand
  <2>e. ASSUME NEW label, NEW o, NEW w, NEW first, NEW last, Enter(p, label, o, w, first, last),
               pc[p] \notin {"install", "decref"}, label \notin {"install", "decref"},
               refCount' = refCount, pte' = pte
        PROVE  RefCountExact'
    <3>1. Call(p, label, o, w, first, last)  BY <1>0, <2>e, EnterFact
    <3> QED  BY <2>e, <3>1, EmptyHand DEF Call
  <2>r. ASSUME Return(p), pc[p] \notin {"install", "decref"},
               refCount' = refCount, pte' = pte
        PROVE  RefCountExact'
    <3>1. Call(p, "user", "none", p, 0, 0)  BY <1>0, <2>r, ReturnFact
    <3> QED  BY <2>r, <3>1, EmptyHand DEF Call
  <2>2. ASSUME NEW v \in VPages, StoreFault(p, v) PROVE RefCountExact'
    BY <2>2, <2>e DEF StoreFault, InUser, memVars
  <2>3. ASSUME NEW v \in VPages, StoreKilled(p, v) PROVE RefCountExact'
    BY <2>3, <2>r DEF StoreKilled, InUser, ExitEffect
  <2>4. ASSUME NEW v \in VPages, Copyout(p, v) PROVE RefCountExact'
    BY <2>4, <2>e DEF Copyout, InUser, memVars
  <2>5. ASSUME NEW x \in Values, CopyoutWrite(p, x) PROVE RefCountExact'
    BY <2>5, <2>r DEF CopyoutWrite, InKernel
  <2>6. CASE KallocPop(p)
    <3>1. /\ pc[p] = "kalloc" /\ pc'[p] = "newref" /\ Others(p)
          /\ refCount' = refCount /\ pte' = pte
      BY <1>0, <2>6 DEF KallocPop, InKernel, Goto, Others, TypeOK
    <3> QED  BY <3>1, EmptyHand
  <2>7. CASE KallocIncref(p)  BY <2>7, RefsKallocIncref
  <2>8. CASE KallocFails(p)
    <3>1. pc[p] = "kalloc"  BY <2>8 DEF KallocFails, InKernel
    <3>2. CASE ExitEffect(p)  BY <3>1, <3>2, <2>r DEF ExitEffect
    <3>3. CASE UNCHANGED <<refCount, pte, pc, op, who, va, end, pg>>
      BY <3>3, RefsQuiet DEF Hand, HoldsInHand
    <3>4. CASE Return(p) /\ refCount' = refCount /\ pte' = pte
      BY <3>1, <3>4, <2>r
    <3>5. CASE Enter(p, "unmap", "growfail", p, sz[p], va[p])
               /\ refCount' = refCount /\ pte' = pte
      BY <3>1, <3>5, <2>e
    <3> QED  BY <2>8, <3>2, <3>3, <3>4, <3>5 DEF KallocFails, memVars, callVars
  <2>9. CASE InstallCopy(p)  BY <2>9, RefsInstallCopy
  <2>10. CASE InstallGrow(p)  BY <2>10, RefsInstallGrow
  <2>11. CASE KfreeDecref(p)  BY <2>11, RefsKfreeDecref
  <2>12. CASE KfreeShared(p) \/ KfreePush(p)
    <3>1. /\ pc[p] \in {"count", "push"} /\ refCount' = refCount /\ pte' = pte
          /\ AfterKfree(p)
      BY <2>12 DEF KfreeShared, KfreePush, InKernel, memVars
    <3>2. CASE Return(p)  BY <3>1, <3>2, <2>r
    <3>3. CASE /\ Goto(p, "write") \/ Goto(p, "unmap")
               /\ pg' = [pg EXCEPT ![p] = NoFrame] /\ UNCHANGED <<op, who, va, end>>
      <4>1. Others(p) /\ pc'[p] \in {"write", "unmap"}
        BY <1>0, <3>3 DEF Others, Goto, TypeOK
      <4> QED  BY <3>1, <4>1, EmptyHand
    <3> QED  BY <3>1, <3>2, <3>3 DEF AfterKfree
  <2>13. CASE KfreeLast(p)
    <3>1. /\ pc[p] = "count" /\ pc'[p] = "push" /\ Others(p)
          /\ refCount' = refCount /\ pte' = pte
      BY <1>0, <2>13 DEF KfreeLast, InKernel, Goto, Others, TypeOK, memVars
    <3> QED  BY <3>1, EmptyHand
  <2>14. CASE Unmap(p)  BY <2>14, RefsUnmap
  <2>15. CASE UnmapDone(p)  BY <2>15, <2>r DEF UnmapDone, InKernel, memVars
  <2>16. ASSUME NEW c \in Procs, Fork(p, c) PROVE RefCountExact'
    BY <2>16, <2>e DEF Fork, InUser, memVars
  <2>17. ASSUME NEW c \in Procs, Wait(p, c) PROVE RefCountExact'
    BY <2>17, <2>e DEF Wait, InUser, memVars
  <2>18. CASE CopyPage(p)  BY <2>18, RefsCopyPage
  <2>19. CASE CopyPageFails(p)
    <3>1. /\ pc[p] = "copy" /\ refCount' = refCount
          /\ pte' = [pte EXCEPT ![p][va[p]] = MarkCow(pte[p][va[p]])]
          /\ Enter(p, "unmap", "forkfail", who[p], 0, va[p])
      BY <2>19 DEF CopyPageFails, InKernel, memVars
    <3>2. pte \in [Procs -> [VPages -> PTE]] /\ va[p] \in 0..MaxPages  BY <1>0 DEF TypeOK
    <3>3. \A q \in Procs, v \in VPages : pte'[q][v].pa = pte[q][v].pa
      BY <3>1, <3>2, FlagFact
    <3>4. Call(p, "unmap", "forkfail", who[p], 0, va[p])  BY <1>0, <3>1, EnterFact
    <3>5. \A q \in Procs : Hand(q)' = Hand(q)
      BY <3>1, <3>4 DEF Hand, HoldsInHand, Call, Others
    <3> QED  BY <3>1, <3>3, <3>5, RefsQuiet
  <2>20. CASE ForkDone(p)  BY <2>20, <2>r DEF ForkDone, InKernel, memVars
  <2>21. CASE Exit(p)  BY <2>21, <2>r DEF Exit, InUser, ExitEffect
  <2>22. ASSUME NEW n \in 0..MaxPages, Grow(p, n) PROVE RefCountExact'
    BY <2>22, <2>e DEF Grow, InUser, memVars
  <2>23. ASSUME NEW n \in 0..MaxPages, Shrink(p, n) PROVE RefCountExact'
    BY <2>23, <2>e DEF Shrink, InUser, memVars
  <2> QED  BY <1>2, <2>1, <2>2, <2>3, <2>4, <2>5, <2>6, <2>7, <2>8, <2>9, <2>10, <2>11,
              <2>12, <2>13, <2>14, <2>15, <2>16, <2>17, <2>18, <2>19, <2>20, <2>21, <2>22,
              <2>23
           DEF Step
<1> QED  BY <1>1, <1>2 DEF Next

LEMMA InitRefs == Init => RefCountExact
<1> SUFFICES ASSUME Init, NEW f \in Frames PROVE refCount[f] = Cardinality(Refs(f))
  BY DEF RefCountExact
<1>1. \A q \in Procs : Hand(q) = NoFrame
  BY DEF Init, Hand, HoldsInHand
<1>2. \A q \in Procs, v \in VPages :
        pte[q][v].pa = IF q = InitProc /\ v < InitSize THEN v + 1 ELSE NoFrame
  BY PteFact DEF Init
<1>3. f \in Nat /\ f # 0 /\ f # NoFrame /\ InitSize \in Nat /\ InitSize <= MaxPages
      /\ MaxPages \in Nat
  BY CowAssumption, FrameFact DEF Frames
<1>4. CASE f <= InitSize
  <2>1. f - 1 \in VPages /\ f - 1 < InitSize
    BY <1>3, <1>4, PageIntro
  <2>2. Refs(f) = {<<InitProc, f - 1>>}
    <3>1. <<InitProc, f - 1>> \in Tokens /\ RefersTo(<<InitProc, f - 1>>) = f
      BY <1>2, <1>3, <2>1, TokenFact, CowAssumption
    <3>2. ASSUME NEW t \in Tokens, RefersTo(t) = f PROVE t = <<InitProc, f - 1>>
      <4>1. PICK q \in Procs : t = <<q, MaxPages>> \/ \E v \in VPages : t = <<q, v>>
        BY TokenFact
      <4>2. t # <<q, MaxPages>>  BY <1>1, <1>3, <3>2, TokenFact
      <4>3. PICK v \in VPages : t = <<q, v>>  BY <4>1, <4>2
      <4>4. pte[q][v].pa = f  BY <3>2, <4>3, TokenFact
      <4> QED  BY <1>2, <1>3, <4>3, <4>4, PageFact
    <3> QED  BY <3>1, <3>2, RefsFinite
  <2>3. Cardinality({<<InitProc, f - 1>>}) = 1
    BY FS_Singleton
  <2> QED  BY <1>4, <2>2, <2>3 DEF Init
<1>5. CASE ~(f <= InitSize)
  <2>1. Refs(f) = {}
    <3>1. ASSUME NEW t \in Tokens PROVE RefersTo(t) # f
      <4>1. PICK q \in Procs : t = <<q, MaxPages>> \/ \E v \in VPages : t = <<q, v>>
        BY TokenFact
      <4>2. CASE t = <<q, MaxPages>>  BY <1>1, <1>3, <4>2, TokenFact
      <4>3. ASSUME NEW v \in VPages, t = <<q, v>> PROVE RefersTo(t) # f
        <5>1. pte[q][v].pa = IF q = InitProc /\ v < InitSize THEN v + 1 ELSE NoFrame
          BY <1>2
        <5>2. v \in Nat /\ (v < InitSize => v + 1 # f)  BY <1>3, <1>5, PageFact
        <5>3. pte[q][v].pa # f  BY <1>3, <5>1, <5>2
        <5> QED  BY <4>3, <5>3, TokenFact
      <4> QED  BY <4>1, <4>2, <4>3
    <3> QED  BY <3>1, RefsFinite
  <2> QED  BY <1>5, <2>1, FS_EmptySet DEF Init
<1> QED  BY <1>4, <1>5

\* ref_count[] counts exactly the references to each page at every step, for any
\* number of processes, pages and harts and whatever the programs call.
THEOREM CountsExact == Spec => []RefCountExact
BY InitRefs, StepRefs, Inductive, PanicFree, PTL DEF Spec

-----------------------------------------------------------------------------
(* No page is lost.                                                        *)

OnList(f) == \E i \in 1..Len(freelist) : freelist[i] = f
Passing(q, f) == pc[q] \in {"newref", "count", "push"} /\ pg[q] = f

\* A step that gives no page up.
LEMMA LeakQuiet ==
  ASSUME NEW p \in Procs, NoLeak, refCount' = refCount, freelist' = freelist, Others(p),
         pc[p] \in {"newref", "count", "push"} =>
           pc'[p] \in {"newref", "count", "push"} /\ pg'[p] = pg[p]
  PROVE  NoLeak'
BY DEF NoLeak, Others

LEMMA LeakKallocPop ==
  ASSUME NEW p \in Procs, TypeOK, NoLeak, KallocPop(p)
  PROVE  NoLeak'
<1>1. /\ pc[p] = "kalloc" /\ pc'[p] = "newref" /\ pg'[p] = Head(freelist) /\ Others(p)
      /\ refCount' = refCount /\ freelist' = Tail(freelist) /\ freelist # <<>>
  BY DEF KallocPop, InKernel, Goto, Others, TypeOK
<1> SUFFICES ASSUME NEW f \in Frames, refCount[f] = 0
             PROVE  \/ \E i \in 1..Len(freelist') : freelist'[i] = f
                    \/ \E q \in Procs : pc'[q] \in {"newref", "count", "push"} /\ pg'[q] = f
  BY <1>1 DEF NoLeak
<1>2. CASE \E q \in Procs : Passing(q, f)
  BY <1>1, <1>2 DEF Others, Passing
<1>3. ASSUME NEW i \in 1..Len(freelist), freelist[i] = f
      PROVE  \/ \E j \in 1..Len(freelist') : freelist'[j] = f
             \/ pg'[p] = f
  <2>0. freelist \in Seq(Frames) /\ Len(freelist) \in Nat  BY DEF TypeOK
  <2>1. CASE i = 1  BY <1>1, <1>3, <2>0, <2>1
  <2>2. CASE i # 1
    <3>1. i - 1 \in 1..Len(Tail(freelist)) /\ Tail(freelist)[i - 1] = freelist[i]
      BY <1>1, <2>0, <2>2
    <3> QED  BY <1>1, <1>3, <3>1
  <2> QED  BY <2>1, <2>2
<1> QED  BY <1>1, <1>2, <1>3 DEF NoLeak, Passing

LEMMA LeakKfreePush ==
  ASSUME NEW p \in Procs, TypeOK, NoLeak, freelist' = <<pg[p]>> \o freelist, pg[p] \in Frames,
         refCount' = refCount, Others(p)
  PROVE  NoLeak'
<1> SUFFICES ASSUME NEW f \in Frames, refCount[f] = 0
             PROVE  \/ \E i \in 1..Len(freelist') : freelist'[i] = f
                    \/ \E q \in Procs : pc'[q] \in {"newref", "count", "push"} /\ pg'[q] = f
  BY DEF NoLeak
<1>0. freelist \in Seq(Frames) /\ Len(freelist) \in Nat
  BY DEF TypeOK
<1>1. /\ Len(freelist') = Len(freelist) + 1 /\ freelist'[1] = pg[p]
      /\ \A i \in 1..Len(freelist) : freelist'[i + 1] = freelist[i]
  BY <1>0
<1>2. ASSUME NEW q \in Procs, Passing(q, f)
      PROVE  \/ \E i \in 1..Len(freelist') : freelist'[i] = f
             \/ \E r \in Procs : pc'[r] \in {"newref", "count", "push"} /\ pg'[r] = f
  <2>1. CASE q = p
    <3>1. 1 \in 1..Len(freelist')  BY <1>0, <1>1
    <3> QED  BY <1>1, <1>2, <2>1, <3>1 DEF Passing
  <2>2. CASE q # p  BY <1>2, <2>2 DEF Passing, Others
  <2> QED  BY <2>1, <2>2
<1>3. ASSUME NEW i \in 1..Len(freelist), freelist[i] = f
      PROVE  \E j \in 1..Len(freelist') : freelist'[j] = f
  <2>1. i + 1 \in 1..Len(freelist')  BY <1>0, <1>1
  <2> QED  BY <1>1, <1>3, <2>1
<1> QED  BY <1>2, <1>3 DEF NoLeak, Passing

\* One count changes; the frame it belongs to is still in p's hands if it reached 0.
LEMMA LeakCount ==
  ASSUME NEW p \in Procs, NEW f \in Frames, NoLeak, freelist' = freelist, Others(p),
         \A g \in Frames : g # f => refCount'[g] = refCount[g],
         refCount'[f] = 0 => pc'[p] \in {"newref", "count", "push"} /\ pg'[p] = f,
         pc[p] \in {"newref", "count", "push"} => pg[p] = f
  PROVE  NoLeak'
<1> SUFFICES ASSUME NEW g \in Frames, refCount'[g] = 0
             PROVE  \/ \E i \in 1..Len(freelist) : freelist[i] = g
                    \/ \E q \in Procs : pc'[q] \in {"newref", "count", "push"} /\ pg'[q] = g
  BY DEF NoLeak
<1>1. CASE g = f  BY <1>1
<1>2. CASE g # f
  <2>1. refCount[g] = 0  BY <1>2
  <2> QED  BY <1>2, <2>1 DEF NoLeak, Others
<1> QED  BY <1>1, <1>2

LEMMA StepLeak ==
  ASSUME IInv, NoPagingPanic, RefCountExact, NoLeak, [Next]_vars
  PROVE  NoLeak'
<1>0. TypeOK /\ CallState
  BY DEF IInv
<1>c. \A f \in Frames : refCount[f] \in Nat
  BY RefsFinite DEF RefCountExact
<1>1. CASE UNCHANGED vars
  BY <1>1 DEF vars, NoLeak
<1>2. ASSUME NEW p \in Procs, Step(p) PROVE NoLeak'
  <2>1. ASSUME NEW v \in VPages, NEW x \in Values, Store(p, v, x) PROVE NoLeak'
    BY <2>1 DEF Store, callVars, NoLeak
  <2>e. ASSUME NEW label, NEW o, NEW w, NEW first, NEW last, Enter(p, label, o, w, first, last),
               pc[p] \notin {"newref", "count", "push"},
               refCount' = refCount, freelist' = freelist
        PROVE  NoLeak'
    <3>1. Call(p, label, o, w, first, last)  BY <1>0, <2>e, EnterFact
    <3> QED  BY <2>e, <3>1, LeakQuiet DEF Call
  <2>r. ASSUME Return(p), pc[p] \notin {"newref", "count", "push"},
               refCount' = refCount, freelist' = freelist
        PROVE  NoLeak'
    <3>1. Call(p, "user", "none", p, 0, 0)  BY <1>0, <2>r, ReturnFact
    <3> QED  BY <2>r, <3>1, LeakQuiet DEF Call
  <2>2. ASSUME NEW v \in VPages, StoreFault(p, v) PROVE NoLeak'
    BY <2>2, <2>e DEF StoreFault, InUser, memVars
  <2>3. ASSUME NEW v \in VPages, StoreKilled(p, v) PROVE NoLeak'
    BY <2>3, <2>r DEF StoreKilled, InUser, ExitEffect
  <2>4. ASSUME NEW v \in VPages, Copyout(p, v) PROVE NoLeak'
    BY <2>4, <2>e DEF Copyout, InUser, memVars
  <2>5. ASSUME NEW x \in Values, CopyoutWrite(p, x) PROVE NoLeak'
    BY <2>5, <2>r DEF CopyoutWrite, InKernel
  <2>6. CASE KallocPop(p)  BY <1>0, <2>6, LeakKallocPop
  <2>7. CASE KallocIncref(p)
    <3>1. /\ pc[p] = "newref" /\ pg[p] \in Frames /\ freelist' = freelist /\ Others(p)
          /\ refCount' = [refCount EXCEPT ![pg[p]] = @ + 1]
      BY <1>0, <2>7 DEF KallocIncref, InKernel, Goto, Others, TypeOK, CallState, InHand
    <3>2. refCount'[pg[p]] # 0 /\ \A g \in Frames : g # pg[p] => refCount'[g] = refCount[g]
      BY <1>0, <1>c, <3>1 DEF TypeOK
    <3> QED  BY <3>1, <3>2, LeakCount
  <2>8. CASE KallocFails(p)
    <3>1. pc[p] = "kalloc"  BY <2>8 DEF KallocFails, InKernel
    <3>2. CASE ExitEffect(p)  BY <3>1, <3>2, <2>r DEF ExitEffect
    <3>3. CASE UNCHANGED <<refCount, freelist, pc, op, who, va, end, pg>>
      BY <3>3 DEF NoLeak
    <3>4. CASE Return(p) /\ refCount' = refCount /\ freelist' = freelist
      BY <3>1, <3>4, <2>r
    <3>5. CASE Enter(p, "unmap", "growfail", p, sz[p], va[p])
               /\ refCount' = refCount /\ freelist' = freelist
      BY <3>1, <3>5, <2>e
    <3> QED  BY <2>8, <3>2, <3>3, <3>4, <3>5 DEF KallocFails, memVars, callVars
  <2>9. CASE InstallCopy(p) \/ InstallGrow(p)
    <3>1. /\ pc[p] = "install" /\ Others(p) /\ refCount' = refCount /\ freelist' = freelist
      BY <1>0, <2>9 DEF InstallCopy, InstallGrow, InKernel, Goto, Others, TypeOK
    <3> QED  BY <3>1, LeakQuiet
  <2>10. CASE KfreeDecref(p)
    <3>1. /\ pc[p] = "decref" /\ pc'[p] = "count" /\ pg[p] \in Frames /\ pg' = pg
          /\ freelist' = freelist /\ Others(p)
          /\ refCount' = [refCount EXCEPT ![pg[p]] = @ - 1]
      BY <1>0, <2>10 DEF KfreeDecref, InKernel, Goto, Others, TypeOK, CallState, InHand
    <3>2. \A g \in Frames : g # pg[p] => refCount'[g] = refCount[g]
      BY <3>1 DEF NoLeak
    <3> QED  BY <3>1, <3>2, LeakCount
  <2>11. CASE KfreeShared(p)
    <3>1. /\ pc[p] = "count" /\ refCount[pg[p]] > 0 /\ pg[p] \in Frames
          /\ refCount' = refCount /\ freelist' = freelist /\ AfterKfree(p)
      BY <1>0, <2>11 DEF KfreeShared, InKernel, memVars, CallState, InHand
    <3>2. Others(p)
      BY <1>0, <3>1, ReturnFact DEF AfterKfree, Goto, Others, Call, TypeOK
    <3>3. refCount'[pg[p]] # 0  BY <1>c, <3>1
    <3> QED  BY <3>1, <3>2, <3>3, LeakCount
  <2>12. CASE KfreePush(p)
    <3>1. /\ pg[p] \in Frames /\ AfterKfree(p)
          /\ refCount' = refCount /\ freelist' = <<pg[p]>> \o freelist
      BY <1>0, <2>12 DEF KfreePush, InKernel, CallState, InHand
    <3>2. Others(p)
      BY <1>0, <3>1, ReturnFact DEF AfterKfree, Goto, Others, Call, TypeOK
    <3> QED  BY <1>0, <3>1, <3>2, LeakKfreePush
  <2>13. CASE KfreeLast(p)
    <3>1. /\ pc'[p] = "push" /\ pg' = pg /\ Others(p)
          /\ refCount' = refCount /\ freelist' = freelist
      BY <1>0, <2>13 DEF KfreeLast, InKernel, Goto, Others, TypeOK, memVars
    <3> QED  BY <3>1, LeakQuiet
  <2>14. CASE Unmap(p)
    <3> DEFINE f == pte[who[p]][va[p]].pa
    <3>1. /\ pc[p] = "unmap" /\ va[p] < end[p] /\ pc'[p] = "count" /\ pg'[p] = f
          /\ freelist' = freelist /\ Others(p) /\ refCount' = [refCount EXCEPT ![f] = @ - 1]
      BY <1>0, <2>14 DEF Unmap, InKernel, Goto, Others, TypeOK
    <3>2. f \in Frames
      <4>1. Mapped(who[p], va[p])  BY <3>1 DEF NoPagingPanic
      <4>2. /\ who[p] \in Procs /\ va[p] \in Nat /\ end[p] \in 0..MaxPages
            /\ pte \in [Procs -> [VPages -> PTE]]
        BY <1>0 DEF TypeOK
      <4>3. va[p] \in VPages  BY <3>1, <4>2, PageIntro, CowAssumption
      <4> QED  BY <4>1, <4>2, <4>3, PteFact DEF Mapped
    <3>3. \A g \in Frames : g # f => refCount'[g] = refCount[g]  BY <3>1
    <3> HIDE DEF f
    <3> QED  BY <3>1, <3>2, <3>3, LeakCount
  <2>15. CASE UnmapDone(p)  BY <2>15, <2>r DEF UnmapDone, InKernel, memVars
  <2>16. ASSUME NEW c \in Procs, Fork(p, c) PROVE NoLeak'
    BY <2>16, <2>e DEF Fork, InUser, memVars
  <2>17. ASSUME NEW c \in Procs, Wait(p, c) PROVE NoLeak'
    BY <2>17, <2>e DEF Wait, InUser, memVars
  <2>18. CASE CopyPage(p)
    <3> DEFINE f == pte[p][va[p]].pa
    <3>1. /\ pc[p] = "copy" /\ va[p] < end[p] /\ pc' = pc /\ pg' = pg
          /\ freelist' = freelist /\ Others(p) /\ refCount' = [refCount EXCEPT ![f] = @ + 1]
      BY <1>0, <2>18 DEF CopyPage, InKernel, Others, TypeOK
    <3>2. f \in Frames
      <4>1. Mapped(p, va[p])  BY <3>1 DEF NoPagingPanic
      <4>2. /\ va[p] \in Nat /\ end[p] \in 0..MaxPages /\ pte \in [Procs -> [VPages -> PTE]]
        BY <1>0 DEF TypeOK
      <4>3. va[p] \in VPages  BY <3>1, <4>2, PageIntro, CowAssumption
      <4> QED  BY <4>1, <4>2, <4>3, PteFact DEF Mapped
    <3>3. refCount'[f] # 0 /\ \A g \in Frames : g # f => refCount'[g] = refCount[g]
      BY <1>0, <1>c, <3>1, <3>2 DEF TypeOK
    <3> HIDE DEF f
    <3> QED  BY <3>1, <3>2, <3>3, LeakCount
  <2>19. CASE CopyPageFails(p)  BY <2>19, <2>e DEF CopyPageFails, InKernel, memVars
  <2>20. CASE ForkDone(p)  BY <2>20, <2>r DEF ForkDone, InKernel, memVars
  <2>21. CASE Exit(p)  BY <2>21, <2>r DEF Exit, InUser, ExitEffect
  <2>22. ASSUME NEW n \in 0..MaxPages, Grow(p, n) PROVE NoLeak'
    BY <2>22, <2>e DEF Grow, InUser, memVars
  <2>23. ASSUME NEW n \in 0..MaxPages, Shrink(p, n) PROVE NoLeak'
    BY <2>23, <2>e DEF Shrink, InUser, memVars
  <2> QED  BY <1>2, <2>1, <2>2, <2>3, <2>4, <2>5, <2>6, <2>7, <2>8, <2>9, <2>10, <2>11,
              <2>12, <2>13, <2>14, <2>15, <2>16, <2>17, <2>18, <2>19, <2>20, <2>21, <2>22,
              <2>23
           DEF Step
<1> QED  BY <1>1, <1>2 DEF Next

LEMMA InitLeak == Init => NoLeak
<1> SUFFICES ASSUME Init, NEW f \in Frames, refCount[f] = 0
             PROVE  \E i \in 1..Len(freelist) : freelist[i] = f
  BY DEF NoLeak
<1>1. f \in 1..NumFrames /\ ~(f <= InitSize) /\ InitSize \in Nat /\ NumFrames \in Nat
  BY CowAssumption DEF Init, Frames
<1>2. freelist = [i \in 1..(NumFrames - InitSize) |-> InitSize + i]
  BY DEF Init
<1>3. Len(freelist) = NumFrames - InitSize
  BY <1>1, <1>2
<1>4. f - InitSize \in 1..(NumFrames - InitSize) /\ InitSize + (f - InitSize) = f
  BY <1>1
<1> QED  BY <1>2, <1>3, <1>4

\* No path through kfree(), however interleaved, loses a page: one whose count is
\* 0 is on the free list or in the hands of a process that puts it there.
THEOREM NothingLeaks == Spec => []NoLeak
BY InitLeak, StepLeak, Inductive, PanicFree, CountsExact, PTL DEF Spec

-----------------------------------------------------------------------------
(***************************************************************************)
(* Where copy-on-write is sound. kfree() has a race: two processes may     *)
(* both find the count 0 that the second one's decref() left. It is the    *)
(* only one: as long as no two processes are past the last reference to    *)
(* the same frame (Apart), a page on the free list has no reference and a  *)
(* page that is mapped writable has one, on any number of harts and with   *)
(* all system calls; the gap between kalloc() and its incref(), forks that *)
(* fail half way, faults, copyout() and sbrk() do no harm of their own.    *)
(*                                                                         *)
(* On one hart, with programs that keep away from the two kernel paths     *)
(* that free or write a shared page with interrupts on (uvmdealloc() and   *)
(* copyout()), Apart always holds. There the contents follow as well:      *)
(* CowMemory implements PrivateMemory, whose fork() copies.                *)
(***************************************************************************)
\* One hart, and no shrinking sbrk() and no system call that writes user memory.
OneHartSafe == CPUS = 1 /\ Calls \subseteq {"store", "fork", "exit", "wait", "grow"}

\* The process holds a frame only it refers to.
Fresh(q) == \/ pc[q] = "install"
            \/ pc[q] = "decref" /\ op[q] = "growfail"

SpareRule(q)   == Spare(q) => refCount[pg[q]] = 0 /\ ~OnList(pg[q])
FreshRule(q)   == Fresh(q) => refCount[pg[q]] = 1
CountedRule(q) == pc[q] = "count" /\ op[q] = "growfail" => refCount[pg[q]] = 0

\* The pages a growing process adds are its own until the call ends.
GrownRule(q)   == \A v \in VPages :
  op[q] \in {"grow", "growfail"} /\ sz[q] <= v /\ Mapped(q, v) => pte[q][v].w

Local(q) == SpareRule(q) /\ FreshRule(q) /\ CountedRule(q) /\ GrownRule(q)

WritableOnce == \A q \in Procs, v \in VPages :
  pte[q][v].w => Mapped(q, v) /\ refCount[pte[q][v].pa] = 1

PInv == FreeUnreferenced /\ (\A q \in Procs : Local(q)) /\ Apart /\ WritableOnce

-----------------------------------------------------------------------------
(* Facts the steps share.                                                  *)

\* A reference makes the count positive, two make it at least two.
LEMMA RefsCounted ==
  ASSUME RefCountExact, NEW f \in Frames
  PROVE  /\ refCount[f] \in Nat
         /\ \A t \in Tokens : RefersTo(t) = f => refCount[f] >= 1
         /\ \A t, u \in Tokens : t # u /\ RefersTo(t) = f /\ RefersTo(u) = f
                                 => refCount[f] >= 2
<1>1. refCount[f] = Cardinality(Refs(f)) /\ IsFiniteSet(Refs(f)) /\ Cardinality(Refs(f)) \in Nat
  BY RefsFinite DEF RefCountExact
<1>2. ASSUME NEW t \in Tokens, RefersTo(t) = f
      PROVE  /\ refCount[f] >= 1
             /\ IsFiniteSet(Refs(f) \ {t})
             /\ Cardinality(Refs(f) \ {t}) = refCount[f] - 1
  <2>1. t \in Refs(f)  BY <1>2, RefsFinite
  <2>2. IsFiniteSet(Refs(f) \ {t}) /\ Cardinality(Refs(f) \ {t}) = Cardinality(Refs(f)) - 1
    BY <1>1, <2>1, FS_RemoveElement
  <2>3. Cardinality(Refs(f) \ {t}) \in Nat  BY <2>2, FS_CardinalityType
  <2> QED  BY <1>1, <2>2, <2>3
<1>3. ASSUME NEW t \in Tokens, NEW u \in Tokens, t # u, RefersTo(t) = f, RefersTo(u) = f
      PROVE  refCount[f] >= 2
  <2>1. u \in Refs(f) \ {t}  BY <1>3, RefsFinite
  <2>2. IsFiniteSet(Refs(f) \ {t}) /\ Cardinality(Refs(f) \ {t}) = refCount[f] - 1
    BY <1>2, <1>3
  <2>3. Cardinality((Refs(f) \ {t}) \ {u}) = Cardinality(Refs(f) \ {t}) - 1
        /\ IsFiniteSet((Refs(f) \ {t}) \ {u})
    BY <2>1, <2>2, FS_RemoveElement
  <2>4. Cardinality((Refs(f) \ {t}) \ {u}) \in Nat  BY <2>3, FS_CardinalityType
  <2> QED  BY <1>1, <2>2, <2>3, <2>4
<1> QED  BY <1>1, <1>2, <1>3

\* The same for pages and hands.
LEMMA PagesCounted ==
  ASSUME TypeOK, RefCountExact, NEW f \in Frames
  PROVE  /\ refCount[f] \in Nat
         /\ \A q \in Procs, v \in VPages : pte[q][v].pa = f => refCount[f] >= 1
         /\ \A q \in Procs : HoldsInHand(q) /\ pg[q] = f => refCount[f] >= 1
         /\ \A q, r \in Procs, v, u \in VPages :
              <<q, v>> # <<r, u>> /\ pte[q][v].pa = f /\ pte[r][u].pa = f => refCount[f] >= 2
         /\ \A q, r \in Procs, v \in VPages :
              pte[q][v].pa = f /\ HoldsInHand(r) /\ pg[r] = f => refCount[f] >= 2
         /\ \A q, r \in Procs :
              q # r /\ HoldsInHand(q) /\ pg[q] = f /\ HoldsInHand(r) /\ pg[r] = f
              => refCount[f] >= 2
<1>1. \A v \in VPages : v # MaxPages
  BY PageFact, CowAssumption
<1>2. \A q \in Procs, v \in VPages : <<q, v>> \in Tokens /\ RefersTo(<<q, v>>) = pte[q][v].pa
  BY TokenFact
<1>3. \A q \in Procs : HoldsInHand(q) =>
        <<q, MaxPages>> \in Tokens /\ RefersTo(<<q, MaxPages>>) = pg[q]
  BY TokenFact DEF Hand
<1>4. \A q, r \in Procs, v \in VPages : <<q, v>> # <<r, MaxPages>>
  BY <1>1
<1>5. \A q, r \in Procs : q # r => <<q, MaxPages>> # <<r, MaxPages>>
  OBVIOUS
<1>0. \A t, u \in Tokens : t # u /\ RefersTo(t) = f /\ RefersTo(u) = f => refCount[f] >= 2
  BY RefsCounted
<1>6. \A q \in Procs, v \in VPages : pte[q][v].pa = f => refCount[f] >= 1
  BY <1>2, RefsCounted
<1>7. \A q \in Procs : HoldsInHand(q) /\ pg[q] = f => refCount[f] >= 1
  BY <1>3, RefsCounted
<1>8. ASSUME NEW q \in Procs, NEW r \in Procs, NEW v \in VPages, NEW u \in VPages,
             <<q, v>> # <<r, u>>, pte[q][v].pa = f, pte[r][u].pa = f
      PROVE  refCount[f] >= 2
  BY <1>0, <1>2, <1>8
<1>9. ASSUME NEW q \in Procs, NEW r \in Procs, NEW v \in VPages,
             pte[q][v].pa = f, HoldsInHand(r), pg[r] = f
      PROVE  refCount[f] >= 2
  BY <1>0, <1>2, <1>3, <1>4, <1>9
<1>10. ASSUME NEW q \in Procs, NEW r \in Procs, q # r,
              HoldsInHand(q), pg[q] = f, HoldsInHand(r), pg[r] = f
       PROVE  refCount[f] >= 2
  BY <1>0, <1>3, <1>5, <1>10
<1> QED  BY <1>6, <1>7, <1>8, <1>9, <1>10, RefsCounted

\* What p's step leaves to prove about the others and about the whole.
LEMMA Combine ==
  ASSUME NEW p \in Procs, Apart', IInv, PInv, Others(p),
         \A f \in Frames : refCount'[f] = 0 /\ refCount[f] # 0 =>
           pc'[p] = "count" /\ pg'[p] = f,
         \A q \in Procs : q # p /\ (Spare(q) \/ Fresh(q)) =>
           refCount'[pg[q]] = refCount[pg[q]],
         \A q \in Procs : q # p /\ Spare(q) => ~OnList(pg[q])',
         \A q \in Procs : q # p /\ op[q] # "none" => pte'[q] = pte[q] /\ sz'[q] = sz[q],
         Local(p)', FreeUnreferenced', WritableOnce'
  PROVE  PInv'
<1>1. ASSUME NEW q \in Procs, q # p PROVE Local(q)'
  <2>1. pc'[q] = pc[q] /\ op'[q] = op[q] /\ pg'[q] = pg[q] /\ Local(q)
    BY <1>1 DEF Others, PInv
  <2>2. Spare(q)' => Spare(q)
    <3> SUFFICES ASSUME pc[q] = "count", refCount'[pg[q]] = 0, refCount[pg[q]] # 0 PROVE FALSE
      BY <2>1 DEF Spare
    <3>1. pg[q] \in Frames
      BY DEF IInv, CallState, InHand
    <3>2. Spare(p)' /\ Spare(q)' /\ pg'[p] = pg'[q]
      BY <2>1, <3>1 DEF Spare
    <3> QED  BY <1>1, <3>2 DEF Apart
  <2>3. SpareRule(q)'
    BY <1>1, <2>1, <2>2 DEF SpareRule, Local
  <2>4. FreshRule(q)'
    BY <1>1, <2>1 DEF FreshRule, Fresh, Local
  <2>5. CountedRule(q)'
    BY <1>1, <2>1 DEF CountedRule, Spare, Local
  <2>6. GrownRule(q)'
    BY <1>1, <2>1 DEF GrownRule, Local, Mapped
  <2> QED  BY <2>3, <2>4, <2>5, <2>6 DEF Local
<1> QED  BY <1>1 DEF PInv

-----------------------------------------------------------------------------
(* Steps that leave the memory as it is.                                   *)

\* The process whose table the operation works on is in no call of its own,
\* unless it is the caller.
LEMMA TargetIdle ==
  ASSUME NEW p \in Procs, IInv, who[p] # p
  PROVE  who[p] \in Procs /\ op[who[p]] = "none"
BY DEF IInv, TypeOK, Workers

LEMMA QuietPrivate ==
  ASSUME NEW p \in Procs, Apart', IInv, PInv, Others(p),
         refCount' = refCount, freelist' = freelist, pte' = pte,
         pc'[p] \in {"user", "kalloc", "unmap", "copy", "write"},
         \A q \in Procs : q # p /\ op[q] # "none" => sz'[q] = sz[q],
         op'[p] \in {"grow", "growfail"} => GrownRule(p)'
  PROVE  PInv'
<1>1. FreeUnreferenced'
  BY DEF PInv, FreeUnreferenced
<1>2. WritableOnce'
  BY DEF PInv, WritableOnce, Mapped
<1>3. ~Spare(p)' /\ ~Fresh(p)' /\ pc'[p] # "count"
  BY DEF Spare, Fresh
<1>4. Local(p)'
  <2>1. GrownRule(p)'  BY DEF GrownRule
  <2> QED  BY <1>3, <2>1 DEF Local, SpareRule, FreshRule, CountedRule
<1>5. \A q \in Procs : q # p /\ Spare(q) => ~OnList(pg[q])'
  BY DEF PInv, Local, SpareRule, OnList, Others
<1> QED  BY <1>1, <1>2, <1>3, <1>4, <1>5, Combine

\* A step that ends the call, or begins or goes on with one that adds no page.
LEMMA EnterPrivate ==
  ASSUME NEW p \in Procs, Apart', IInv, PInv,
         NEW label \in {"kalloc", "unmap", "copy", "write"},
         NEW o \in {"fault", "copyout", "shrink", "fork", "forkfail", "reap"},
         NEW w, NEW first, NEW last, Enter(p, label, o, w, first, last),
         refCount' = refCount, freelist' = freelist, pte' = pte,
         \A q \in Procs : q # p => sz'[q] = sz[q]
  PROVE  PInv'
<1>1. Call(p, label, o, w, first, last)
  BY EnterFact DEF IInv
<1> QED  BY <1>1, QuietPrivate DEF Call

LEMMA ReturnPrivate ==
  ASSUME NEW p \in Procs, Apart', IInv, PInv, Return(p),
         refCount' = refCount, freelist' = freelist, pte' = pte,
         \A q \in Procs : q # p /\ op[q] # "none" => sz'[q] = sz[q]
  PROVE  PInv'
<1>1. Call(p, "user", "none", p, 0, 0)
  BY ReturnFact DEF IInv
<1> QED  BY <1>1, QuietPrivate DEF Call

LEMMA GrowPrivate ==
  ASSUME NEW p \in Procs, NEW n \in 0..MaxPages, Apart', IInv, PInv, Grow(p, n)
  PROVE  PInv'
<1>1. /\ pst[p] = "LIVE" /\ pc[p] = "user" /\ Enter(p, "kalloc", "grow", p, sz[p], n)
      /\ refCount' = refCount /\ freelist' = freelist /\ pte' = pte /\ sz' = sz
  BY DEF Grow, InUser, MayRun, memVars, procVars
<1>2. Call(p, "kalloc", "grow", p, sz[p], n)
  BY <1>1, EnterFact DEF IInv
<1>3. pst[p] = "LIVE" /\ op[p] = "none"
  BY <1>1 DEF IInv, CallState
<1>4. \A v \in VPages : Mapped(p, v) => v < sz[p]
  BY <1>3 DEF IInv, Layout, LiveLayout, OwnPage
<1>5. \A v \in VPages : ~(sz[p] <= v /\ v < sz[p])
  BY PageFact DEF IInv, TypeOK
<1>6. GrownRule(p)'
  BY <1>1, <1>4, <1>5 DEF GrownRule, Mapped
<1> QED  BY <1>1, <1>2, <1>6, QuietPrivate DEF Call

LEMMA KallocFailsPrivate ==
  ASSUME NEW p \in Procs, Apart', IInv, PInv, KallocFails(p)
  PROVE  PInv'
<1>1. CASE ExitEffect(p)
  BY <1>1, ReturnPrivate DEF ExitEffect
<1>2. CASE UNCHANGED <<refCount, freelist, sz, pte, pc, op, who, va, end, pg>>
  BY <1>2 DEF PInv, FreeUnreferenced, Local, SpareRule, FreshRule, CountedRule, GrownRule,
              Apart, WritableOnce, Spare, Fresh, Mapped, OnList
<1>3. CASE Return(p) /\ UNCHANGED <<refCount, freelist, sz, pte>>
  BY <1>3, ReturnPrivate
<1>4. CASE /\ op[p] = "grow" /\ Enter(p, "unmap", "growfail", p, sz[p], va[p])
           /\ UNCHANGED <<refCount, freelist, sz, pte>>
  <2>1. Call(p, "unmap", "growfail", p, sz[p], va[p])
    BY <1>4, EnterFact DEF IInv
  <2>2. GrownRule(p)'
    BY <1>4 DEF PInv, Local, GrownRule, Mapped
  <2> QED  BY <1>4, <2>1, <2>2, QuietPrivate DEF Call
<1> QED
  BY <1>1, <1>2, <1>3, <1>4 DEF KallocFails, memVars, procVars, callVars

LEMMA UnmapDonePrivate ==
  ASSUME NEW p \in Procs, Apart', IInv, PInv, UnmapDone(p)
  PROVE  PInv'
<1>1. /\ Return(p) /\ refCount' = refCount /\ freelist' = freelist /\ pte' = pte
      /\ sz' = sz \/ sz' = [sz EXCEPT ![who[p]] = 0]
  BY DEF UnmapDone, InKernel, memVars, procVars
<1>2. \A q \in Procs : q # p /\ op[q] # "none" => sz'[q] = sz[q]
  BY <1>1, TargetIdle DEF IInv, TypeOK
<1> QED  BY <1>1, <1>2, ReturnPrivate

LEMMA ForkDonePrivate ==
  ASSUME NEW p \in Procs, Apart', IInv, PInv, ForkDone(p)
  PROVE  PInv'
<1>1. /\ Return(p) /\ refCount' = refCount /\ freelist' = freelist /\ pte' = pte
      /\ sz' = [sz EXCEPT ![who[p]] = sz[p]]
  BY DEF ForkDone, InKernel, memVars
<1>2. \A q \in Procs : q # p /\ op[q] # "none" => sz'[q] = sz[q]
  BY <1>1, TargetIdle DEF IInv, TypeOK
<1> QED  BY <1>1, <1>2, ReturnPrivate

\* The end of kfree().
LEMMA AfterKfreeFact ==
  ASSUME NEW p \in Procs, IInv, AfterKfree(p)
  PROVE  /\ Others(p)
         /\ \/ pc'[p] = "user" /\ op'[p] = "none"
            \/ pc'[p] = "write" /\ op'[p] = op[p] /\ op[p] = "copyout"
            \/ pc'[p] = "unmap" /\ op'[p] = op[p] /\ op[p] \notin {"fault", "copyout"}
<1>1. TypeOK
  BY DEF IInv
<1>2. CASE Return(p)
  BY <1>1, <1>2, ReturnFact DEF Call
<1>3. CASE Goto(p, "write") /\ pg' = [pg EXCEPT ![p] = NoFrame] /\ UNCHANGED <<op, who, va, end>>
           /\ op[p] = "copyout"
  BY <1>1, <1>3 DEF Goto, Others, TypeOK
<1>4. CASE Goto(p, "unmap") /\ pg' = [pg EXCEPT ![p] = NoFrame] /\ UNCHANGED <<op, who, va, end>>
           /\ op[p] \notin {"fault", "copyout"}
  BY <1>1, <1>4 DEF Goto, Others, TypeOK
<1> QED  BY <1>1, <1>2, <1>3, <1>4 DEF AfterKfree

LEMMA OpAfterKfree ==
  ASSUME NEW p \in Procs, IInv, PInv, AfterKfree(p), pte' = pte, sz' = sz
  PROVE  op'[p] \in {"grow", "growfail"} => GrownRule(p)'
BY AfterKfreeFact DEF PInv, Local, GrownRule, Mapped

LEMMA KfreeSharedPrivate ==
  ASSUME NEW p \in Procs, Apart', IInv, PInv, KfreeShared(p)
  PROVE  PInv'
<1>1. /\ pc[p] = "count" /\ AfterKfree(p)
      /\ refCount' = refCount /\ freelist' = freelist /\ pte' = pte /\ sz' = sz
  BY DEF KfreeShared, InKernel, memVars, procVars
<1> QED  BY <1>1, AfterKfreeFact, OpAfterKfree, QuietPrivate

-----------------------------------------------------------------------------
(* kalloc() and the free list.                                             *)

LEMMA KallocPopPrivate ==
  ASSUME NEW p \in Procs, Apart', IInv, PInv, KallocPop(p)
  PROVE  PInv'
<1> DEFINE h == Head(freelist)
<1>1. /\ pc[p] = "kalloc" /\ pc'[p] = "newref" /\ pg'[p] = h /\ Others(p)
      /\ op' = op /\ refCount' = refCount /\ pte' = pte /\ sz' = sz
      /\ freelist' = Tail(freelist) /\ freelist # <<>>
  BY DEF KallocPop, InKernel, Goto, Others, IInv, TypeOK, procVars
<1>2. freelist \in Seq(Frames) /\ Len(freelist) \in Nat /\ Len(freelist) >= 1
  BY <1>1 DEF IInv, TypeOK
<1>3. /\ freelist[1] = h /\ Len(freelist') = Len(freelist) - 1
      /\ \A i \in 1..Len(freelist') : i + 1 \in 1..Len(freelist) /\ freelist'[i] = freelist[i + 1]
  BY <1>1, <1>2
<1>4. /\ \A i \in 1..Len(freelist) : refCount[freelist[i]] = 0
      /\ \A i, j \in 1..Len(freelist) : freelist[i] = freelist[j] => i = j
  BY DEF PInv, FreeUnreferenced
<1>5. refCount[h] = 0 /\ OnList(h)
  <2>1. 1 \in 1..Len(freelist)  BY <1>2
  <2> QED  BY <1>3, <1>4, <2>1 DEF OnList
<1>6. \A i \in 1..Len(freelist') : freelist'[i] # h
  <2> SUFFICES ASSUME NEW i \in 1..Len(freelist'), freelist'[i] = h PROVE FALSE
    OBVIOUS
  <2>1. i + 1 \in 1..Len(freelist) /\ freelist[i + 1] = freelist[1] /\ 1 \in 1..Len(freelist)
    BY <1>2, <1>3
  <2>2. i + 1 = 1  BY <1>4, <2>1
  <2>3. i \in Nat /\ i >= 1  BY <1>2, <1>3
  <2> QED  BY <2>2, <2>3
<1>7. FreeUnreferenced'
  <2>1. \A i \in 1..Len(freelist') : refCount'[freelist'[i]] = 0
    BY <1>1, <1>3, <1>4
  <2>2. ASSUME NEW i \in 1..Len(freelist'), NEW j \in 1..Len(freelist'), freelist'[i] = freelist'[j]
        PROVE  i = j
    <3>1. /\ i + 1 \in 1..Len(freelist) /\ j + 1 \in 1..Len(freelist)
          /\ freelist[i + 1] = freelist[j + 1]
      BY <1>3, <2>2
    <3>2. i + 1 = j + 1  BY <1>4, <3>1
    <3> QED  BY <3>2
  <2> QED  BY <2>1, <2>2 DEF FreeUnreferenced
<1>8. \A q \in Procs : q # p /\ Spare(q) => ~OnList(pg[q])'
  <2> SUFFICES ASSUME NEW q \in Procs, q # p, Spare(q), NEW i \in 1..Len(freelist'),
                      freelist'[i] = pg[q]
               PROVE  FALSE
    BY <1>1 DEF OnList, Others
  <2>1. OnList(pg[q])  BY <1>3 DEF OnList
  <2> QED  BY <2>1 DEF PInv, Local, SpareRule
<1>9. Local(p)'
  <2>1. SpareRule(p)'  BY <1>1, <1>5, <1>6 DEF SpareRule, OnList
  <2>2. GrownRule(p)'  BY <1>1 DEF PInv, Local, GrownRule, Mapped
  <2> QED  BY <1>1, <2>1, <2>2 DEF PInv, Local, FreshRule, Fresh, CountedRule
<1>10. WritableOnce'
  BY <1>1 DEF PInv, WritableOnce, Mapped
<1> QED  BY <1>1, <1>7, <1>8, <1>9, <1>10, Combine

LEMMA KfreeLastPrivate ==
  ASSUME NEW p \in Procs, Apart', IInv, RefCountExact, PInv, KfreeLast(p)
  PROVE  PInv'
<1>1. /\ pc[p] = "count" /\ pc'[p] = "push" /\ pg' = pg /\ op' = op /\ Others(p)
      /\ refCount' = refCount /\ freelist' = freelist /\ pte' = pte /\ sz' = sz
      /\ refCount[pg[p]] <= 0 /\ pg[p] \in Frames
  BY DEF KfreeLast, InKernel, Goto, Others, IInv, TypeOK, memVars, procVars, CallState, InHand
<1>2. refCount[pg[p]] = 0
  BY <1>1, PagesCounted DEF IInv
<1>3. Spare(p)
  BY <1>1, <1>2 DEF Spare
<1>4. Local(p)'
  <2>1. SpareRule(p)'  BY <1>1, <1>3 DEF PInv, Local, SpareRule, OnList
  <2>2. GrownRule(p)'  BY <1>1 DEF PInv, Local, GrownRule, Mapped
  <2> QED  BY <1>1, <2>1, <2>2 DEF PInv, Local, FreshRule, Fresh, CountedRule
<1>5. FreeUnreferenced' /\ WritableOnce'
  BY <1>1 DEF PInv, FreeUnreferenced, WritableOnce, Mapped
<1>6. \A q \in Procs : q # p /\ Spare(q) => ~OnList(pg[q])'
  BY <1>1 DEF PInv, Local, SpareRule, OnList, Others
<1> QED  BY <1>1, <1>4, <1>5, <1>6, Combine

LEMMA KfreePushPrivate ==
  ASSUME NEW p \in Procs, Apart', IInv, PInv, KfreePush(p)
  PROVE  PInv'
<1> DEFINE f == pg[p]
<1>1. /\ pc[p] = "push" /\ AfterKfree(p) /\ f \in Frames
      /\ refCount' = refCount /\ pte' = pte /\ sz' = sz /\ freelist' = <<f>> \o freelist
  BY DEF KfreePush, InKernel, procVars, IInv, CallState, InHand
<1>2. Others(p) /\ pc'[p] \in {"user", "write", "unmap"}
  BY <1>1, AfterKfreeFact
<1>3. freelist \in Seq(Frames) /\ Len(freelist) \in Nat
  BY DEF IInv, TypeOK
<1>4. /\ Len(freelist') = Len(freelist) + 1 /\ freelist'[1] = f
      /\ \A i \in 1..Len(freelist') : i # 1 =>
           i - 1 \in 1..Len(freelist) /\ freelist'[i] = freelist[i - 1]
  BY <1>1, <1>3
<1>5. Spare(p) /\ refCount[f] = 0 /\ ~OnList(f)
  BY <1>1 DEF PInv, Local, SpareRule, Spare
<1>6. /\ \A i \in 1..Len(freelist) : refCount[freelist[i]] = 0 /\ freelist[i] # f
      /\ \A i, j \in 1..Len(freelist) : freelist[i] = freelist[j] => i = j
  BY <1>5 DEF PInv, FreeUnreferenced, OnList
<1>7. FreeUnreferenced'
  <2>1. \A i \in 1..Len(freelist') : refCount'[freelist'[i]] = 0
    BY <1>1, <1>4, <1>5, <1>6
  <2>2. ASSUME NEW i \in 1..Len(freelist'), NEW j \in 1..Len(freelist'), freelist'[i] = freelist'[j]
        PROVE  i = j
    <3>1. CASE i = 1 \/ j = 1  BY <1>4, <1>6, <2>2, <3>1
    <3>2. CASE i # 1 /\ j # 1
      <4>1. i - 1 = j - 1  BY <1>4, <1>6, <2>2, <3>2
      <4> QED  BY <1>3, <1>4, <4>1
    <3> QED  BY <3>1, <3>2
  <2> QED  BY <2>1, <2>2 DEF FreeUnreferenced
<1>8. ASSUME NEW q \in Procs, q # p, Spare(q) PROVE ~OnList(pg[q])'
  <2> SUFFICES ASSUME NEW i \in 1..Len(freelist'), freelist'[i] = pg[q] PROVE FALSE
    BY <1>2, <1>8 DEF OnList, Others
  <2>1. pg[q] # f /\ ~OnList(pg[q])
    BY <1>5, <1>8 DEF PInv, Apart, Local, SpareRule
  <2> QED  BY <1>4, <2>1 DEF OnList
<1>9. Local(p)'
  <2>1. GrownRule(p)'
    <3>1. op'[p] \in {"grow", "growfail"} => GrownRule(p)'
      BY <1>1, OpAfterKfree
    <3> QED  BY <3>1 DEF GrownRule
  <2> QED  BY <1>2, <2>1 DEF Local, SpareRule, Spare, FreshRule, Fresh, CountedRule
<1>10. WritableOnce'
  BY <1>1 DEF PInv, WritableOnce, Mapped
<1> QED  BY <1>1, <1>2, <1>7, <1>8, <1>9, <1>10, Combine

-----------------------------------------------------------------------------
(* The reference counts.                                                   *)

\* A step that changes the count of one frame, which nobody else holds as spare
\* or fresh and no other page maps writable.
LEMMA CountPrivate ==
  ASSUME NEW p \in Procs, NEW f \in Frames, Apart', IInv, PInv, Others(p),
         freelist' = freelist, ~OnList(f),
         \A g \in Frames : g # f => refCount'[g] = refCount[g],
         \A q \in Procs : q # p /\ (Spare(q) \/ Fresh(q)) => pg[q] # f,
         refCount'[f] = 0 => pc'[p] = "count" /\ pg'[p] = f,
         \A q \in Procs : q # p /\ op[q] # "none" => pte'[q] = pte[q] /\ sz'[q] = sz[q],
         \A q \in Procs, v \in VPages :
           pte'[q][v].w => pte'[q][v] = pte[q][v] /\ pte[q][v].pa # f,
         Local(p)'
  PROVE  PInv'
<1>1. \A q \in Procs : Spare(q) \/ Fresh(q) => pg[q] \in Frames
  BY DEF IInv, CallState, InHand, Spare, Fresh
<1>2. FreeUnreferenced'
  <2>1. \A i \in 1..Len(freelist) : freelist[i] \in Frames /\ freelist[i] # f
    BY DEF IInv, TypeOK, OnList
  <2> QED  BY <2>1 DEF PInv, FreeUnreferenced
<1>3. WritableOnce'
  <2> SUFFICES ASSUME NEW q \in Procs, NEW v \in VPages, pte'[q][v].w
               PROVE  pte'[q][v].pa # NoFrame /\ refCount'[pte'[q][v].pa] = 1
    BY DEF WritableOnce, Mapped
  <2>1. pte'[q][v] = pte[q][v] /\ pte[q][v].pa # f
    OBVIOUS
  <2>2. pte[q][v].pa # NoFrame /\ refCount[pte[q][v].pa] = 1
    BY <2>1 DEF PInv, WritableOnce, Mapped
  <2>3. pte[q][v].pa \in Frames
    BY <2>2, PteFact DEF IInv, TypeOK
  <2> QED  BY <2>1, <2>2, <2>3
<1>4. \A q \in Procs : q # p /\ (Spare(q) \/ Fresh(q)) => refCount'[pg[q]] = refCount[pg[q]]
  BY <1>1
<1>5. \A q \in Procs : q # p /\ Spare(q) => ~OnList(pg[q])'
  BY DEF PInv, Local, SpareRule, OnList, Others
<1> QED  BY <1>2, <1>3, <1>4, <1>5, Combine

LEMMA KallocIncrefPrivate ==
  ASSUME NEW p \in Procs, Apart', IInv, PInv, KallocIncref(p)
  PROVE  PInv'
<1> DEFINE f == pg[p]
<1>1. /\ pc[p] = "newref" /\ pc'[p] = "install" /\ f \in Frames /\ pg' = pg
      /\ op' = op /\ Others(p) /\ freelist' = freelist /\ pte' = pte /\ sz' = sz
      /\ refCount' = [refCount EXCEPT ![f] = @ + 1] /\ refCount \in [Frames -> Int]
  BY DEF KallocIncref, InKernel, Goto, IInv, TypeOK, CallState, InHand, Others, procVars
<1>2. Spare(p) /\ refCount[f] = 0 /\ ~OnList(f)
  BY <1>1 DEF PInv, Local, SpareRule, Spare
<1>3. refCount'[f] = 1 /\ \A g \in Frames : g # f => refCount'[g] = refCount[g]
  BY <1>1, <1>2
<1>4. \A q \in Procs : q # p /\ (Spare(q) \/ Fresh(q)) => pg[q] # f
  BY <1>2 DEF PInv, Apart, Local, FreshRule
<1>5. \A q \in Procs, v \in VPages :
        pte'[q][v].w => pte'[q][v] = pte[q][v] /\ pte[q][v].pa # f
  BY <1>1, <1>2 DEF PInv, WritableOnce
<1>6. Local(p)'
  <2>1. FreshRule(p)'  BY <1>1, <1>3 DEF FreshRule
  <2>2. GrownRule(p)'  BY <1>1 DEF PInv, Local, GrownRule, Mapped
  <2> QED  BY <1>1, <2>1, <2>2 DEF PInv, Local, SpareRule, Spare, CountedRule
<1> HIDE DEF f
<1> QED  BY <1>1, <1>2, <1>3, <1>4, <1>5, <1>6, CountPrivate

LEMMA KfreeDecrefPrivate ==
  ASSUME NEW p \in Procs, Apart', IInv, RefCountExact, PInv, KfreeDecref(p)
  PROVE  PInv'
<1> DEFINE f == pg[p]
<1>1. /\ pc[p] = "decref" /\ pc'[p] = "count" /\ f \in Frames /\ pg' = pg
      /\ op' = op /\ Others(p) /\ freelist' = freelist /\ pte' = pte /\ sz' = sz
      /\ refCount' = [refCount EXCEPT ![f] = @ - 1] /\ refCount \in [Frames -> Int]
  BY DEF KfreeDecref, InKernel, Goto, IInv, TypeOK, CallState, InHand, Others, procVars
<1>2. HoldsInHand(p) /\ TypeOK
  BY <1>1 DEF HoldsInHand, IInv
<1>3. refCount[f] >= 1 /\ refCount[f] \in Nat
  BY <1>1, <1>2, PagesCounted
<1>4. refCount'[f] = refCount[f] - 1 /\ \A g \in Frames : g # f => refCount'[g] = refCount[g]
  BY <1>1
<1>5. ~OnList(f)
  BY <1>3 DEF OnList, PInv, FreeUnreferenced
<1>6. ASSUME NEW q \in Procs, q # p, Spare(q) \/ Fresh(q) PROVE pg[q] # f
  <2>1. CASE Spare(q)  BY <1>3, <2>1 DEF PInv, Local, SpareRule
  <2>2. CASE Fresh(q)
    <3>1. HoldsInHand(q) /\ refCount[pg[q]] = 1
      BY <2>2 DEF Fresh, HoldsInHand, PInv, Local, FreshRule
    <3>2. pg[q] = f => refCount[f] >= 2
      BY <1>1, <1>2, <1>6, <3>1, PagesCounted
    <3> QED  BY <3>1, <3>2
  <2> QED  BY <1>6, <2>1, <2>2
<1>7. ASSUME NEW q \in Procs, NEW v \in VPages, pte'[q][v].w
      PROVE  pte'[q][v] = pte[q][v] /\ pte[q][v].pa # f
  <2>1. refCount[pte[q][v].pa] = 1  BY <1>1, <1>7 DEF PInv, WritableOnce
  <2>2. pte[q][v].pa = f => refCount[f] >= 2  BY <1>1, <1>2, PagesCounted
  <2> QED  BY <1>1, <2>1, <2>2
<1>8. Local(p)'
  <2>1. SpareRule(p)'  BY <1>1, <1>5 DEF SpareRule, Spare, OnList
  <2>2. CountedRule(p)'
    <3>1. op[p] = "growfail" => refCount[f] = 1
      BY <1>1 DEF PInv, Local, FreshRule, Fresh
    <3> QED  BY <1>1, <1>4, <3>1 DEF CountedRule
  <2>3. GrownRule(p)'  BY <1>1 DEF PInv, Local, GrownRule, Mapped
  <2> QED  BY <1>1, <2>1, <2>2, <2>3 DEF PInv, Local, FreshRule, Fresh
<1>9. pc'[p] = "count" /\ pg'[p] = f
  BY <1>1
<1> HIDE DEF f
<1> QED  BY <1>1, <1>4, <1>5, <1>6, <1>7, <1>8, <1>9, CountPrivate

LEMMA UnmapPrivate ==
  ASSUME NEW p \in Procs, Apart', IInv, NoPagingPanic, RefCountExact, PInv, Unmap(p)
  PROVE  PInv'
<1> DEFINE c == who[p]
           i == va[p]
           f == pte[c][i].pa
<1>1. /\ pc[p] = "unmap" /\ i < end[p] /\ pc'[p] = "count" /\ pg'[p] = f
      /\ op' = op /\ Others(p) /\ freelist' = freelist /\ sz' = sz
      /\ refCount' = [refCount EXCEPT ![f] = @ - 1]
      /\ pte' = [pte EXCEPT ![c][i] = NoPte]
  BY DEF Unmap, InKernel, Goto, IInv, TypeOK, Others, procVars
<1>2. /\ c \in Procs /\ i \in Nat /\ end[p] \in 0..MaxPages /\ TypeOK
      /\ pte \in [Procs -> [VPages -> PTE]] /\ refCount \in [Frames -> Int]
  BY DEF IInv, TypeOK
<1>3. i \in VPages
  BY <1>1, <1>2, PageIntro, CowAssumption
<1>4. f \in Frames /\ Mapped(c, i)
  <2>1. Mapped(c, i)  BY <1>1 DEF NoPagingPanic
  <2> QED  BY <1>2, <1>3, <2>1, PteFact DEF Mapped
<1>5. /\ pte'[c][i] = NoPte
      /\ \A q \in Procs, v \in VPages : ~(q = c /\ v = i) => pte'[q][v] = pte[q][v]
      /\ \A q \in Procs : q # c => pte'[q] = pte[q]
  BY <1>1, <1>2, <1>3
<1>6. refCount[f] >= 1 /\ refCount[f] \in Nat
  BY <1>2, <1>3, <1>4, PagesCounted
<1>7. refCount'[f] = refCount[f] - 1 /\ \A g \in Frames : g # f => refCount'[g] = refCount[g]
  BY <1>1, <1>2, <1>4
<1>8. ~OnList(f)
  BY <1>6 DEF OnList, PInv, FreeUnreferenced
<1>9. ASSUME NEW q \in Procs, Spare(q) \/ Fresh(q) PROVE pg[q] # f
  <2>1. CASE Spare(q)  BY <1>6, <2>1 DEF PInv, Local, SpareRule
  <2>2. CASE Fresh(q)
    <3>1. HoldsInHand(q) /\ refCount[pg[q]] = 1
      BY <2>2 DEF Fresh, HoldsInHand, PInv, Local, FreshRule
    <3>2. pg[q] = f => refCount[f] >= 2
      BY <1>2, <1>3, <1>4, <3>1, PagesCounted
    <3> QED  BY <3>1, <3>2
  <2> QED  BY <1>9, <2>1, <2>2
<1>10. ASSUME NEW q \in Procs, NEW v \in VPages, pte'[q][v].w
       PROVE  pte'[q][v] = pte[q][v] /\ pte[q][v].pa # f
  <2>1. ~(q = c /\ v = i)  BY <1>5, <1>10 DEF NoPte
  <2>2. pte'[q][v] = pte[q][v]  BY <1>5, <2>1
  <2>3. refCount[pte[q][v].pa] = 1  BY <1>10, <2>2 DEF PInv, WritableOnce
  <2>4. <<q, v>> # <<c, i>>  BY <2>1
  <2>5. pte[q][v].pa = f => refCount[f] >= 2  BY <1>2, <1>3, <1>4, <2>4, PagesCounted
  <2> QED  BY <2>2, <2>3, <2>5
<1>11. op[p] = "growfail" => c = p /\ sz[p] <= i
  BY DEF IInv, Workers, CallState
<1>12. Local(p)'
  <2>1. SpareRule(p)'  BY <1>1, <1>8 DEF SpareRule, Spare, OnList
  <2>2. CountedRule(p)'
    <3>1. ASSUME op[p] = "growfail" PROVE refCount[f] = 1
      <4>1. pte[p][i].w  BY <1>3, <1>4, <1>11, <3>1 DEF PInv, Local, GrownRule
      <4> QED  BY <1>3, <1>11, <3>1, <4>1 DEF PInv, WritableOnce
    <3> QED  BY <1>1, <1>7, <3>1 DEF CountedRule
  <2>3. GrownRule(p)'
    <3> SUFFICES ASSUME NEW v \in VPages, op[p] \in {"grow", "growfail"}, sz[p] <= v,
                        pte'[p][v].pa # NoFrame
                 PROVE  pte'[p][v].w
      BY <1>1 DEF GrownRule, Mapped
    <3>1. pte'[p][v] = pte[p][v]  BY <1>5, PteFact
    <3> QED  BY <3>1 DEF PInv, Local, GrownRule, Mapped
  <2> QED  BY <1>1, <2>1, <2>2, <2>3 DEF PInv, Local, FreshRule, Fresh
<1>13. \A q \in Procs : q # p /\ op[q] # "none" => pte'[q] = pte[q] /\ sz'[q] = sz[q]
  BY <1>1, <1>5, TargetIdle
<1> HIDE DEF c, i, f
<1> QED  BY <1>1, <1>4, <1>7, <1>8, <1>9, <1>10, <1>12, <1>13, CountPrivate

-----------------------------------------------------------------------------
(* fork() and the pages the page fault and sbrk() install.                 *)

\* The page p copies is present, and the child's table is another one.
LEMMA CopyFact ==
  ASSUME NEW p \in Procs, IInv, NoPagingPanic, InKernel(p, "copy"), va[p] < end[p]
  PROVE  /\ va[p] \in VPages /\ who[p] \in Procs /\ who[p] # p /\ op[p] = "fork"
         /\ pte[p][va[p]] \in PTE /\ pte[p][va[p]].pa \in Frames
<1>1. pc[p] = "copy" /\ pst[p] = "LIVE"
  BY DEF InKernel, MayRun
<1>2. /\ va[p] \in Nat /\ end[p] \in 0..MaxPages /\ who[p] \in Procs
      /\ pte \in [Procs -> [VPages -> PTE]]
  BY DEF IInv, TypeOK
<1>3. va[p] \in VPages
  BY <1>2, PageIntro, CowAssumption
<1>4. op[p] = "fork" /\ who[p] # p
  BY <1>1 DEF IInv, CallState, Workers
<1>5. Mapped(p, va[p])
  BY <1>1 DEF NoPagingPanic
<1> QED  BY <1>2, <1>3, <1>4, <1>5, PteFact DEF Mapped

LEMMA CopyPagePrivate ==
  ASSUME NEW p \in Procs, Apart', IInv, NoPagingPanic, RefCountExact, PInv, CopyPage(p)
  PROVE  PInv'
<1> DEFINE c == who[p]
           i == va[p]
           e == pte[p][i]
           f == e.pa
<1>1. /\ pc[p] = "copy" /\ pc' = pc /\ pg' = pg /\ op' = op /\ Others(p)
      /\ freelist' = freelist /\ sz' = sz /\ refCount' = [refCount EXCEPT ![f] = @ + 1]
      /\ pte' = [pte EXCEPT ![p][i] = MarkCow(e), ![c][i] = ChildPte(e)]
  BY DEF CopyPage, InKernel, Others, IInv, TypeOK, procVars
<1>2. i \in VPages /\ c \in Procs /\ c # p /\ op[p] = "fork" /\ e \in PTE /\ f \in Frames
  BY CopyFact DEF CopyPage
<1>3. TypeOK /\ pte \in [Procs -> [VPages -> PTE]] /\ refCount \in [Frames -> Int]
  BY DEF IInv, TypeOK
<1>4. ~MarkCow(e).w /\ ~ChildPte(e).w
  BY <1>2 DEF MarkCow, ChildPte, PTE
<1>5. /\ pte'[p][i] = MarkCow(e) /\ pte'[c][i] = ChildPte(e)
      /\ \A q \in Procs, v \in VPages :
           ~(q = p /\ v = i) /\ ~(q = c /\ v = i) => pte'[q][v] = pte[q][v]
      /\ \A q \in Procs : q # p /\ q # c => pte'[q] = pte[q]
  BY <1>1, <1>2, <1>3
<1>6. refCount[f] >= 1 /\ refCount[f] \in Nat /\ refCount'[f] = refCount[f] + 1
  BY <1>1, <1>2, <1>3, PagesCounted
<1>7. \A g \in Frames : g # f => refCount'[g] = refCount[g]
  BY <1>1, <1>3
<1>8. ~OnList(f)
  BY <1>6 DEF OnList, PInv, FreeUnreferenced
<1>9. ASSUME NEW q \in Procs, Spare(q) \/ Fresh(q) PROVE pg[q] # f
  <2>1. CASE Spare(q)  BY <1>6, <2>1 DEF PInv, Local, SpareRule
  <2>2. CASE Fresh(q)
    <3>1. HoldsInHand(q) /\ refCount[pg[q]] = 1
      BY <2>2 DEF Fresh, HoldsInHand, PInv, Local, FreshRule
    <3>2. pg[q] = f => refCount[f] >= 2
      BY <1>2, <1>3, <3>1, PagesCounted
    <3> QED  BY <3>1, <3>2
  <2> QED  BY <1>9, <2>1, <2>2
<1>10. ASSUME NEW q \in Procs, NEW v \in VPages, pte'[q][v].w
       PROVE  pte'[q][v] = pte[q][v] /\ pte[q][v].pa # f
  <2>1. ~(q = p /\ v = i) /\ ~(q = c /\ v = i)  BY <1>4, <1>5, <1>10
  <2>2. pte'[q][v] = pte[q][v]  BY <1>5, <2>1
  <2>3. refCount[pte[q][v].pa] = 1  BY <1>10, <2>2 DEF PInv, WritableOnce
  <2>4. <<q, v>> # <<p, i>>  BY <2>1
  <2>5. pte[q][v].pa = f => refCount[f] >= 2  BY <1>2, <1>3, <2>4, PagesCounted
  <2> QED  BY <2>2, <2>3, <2>5
<1>11. Local(p)'
  BY <1>1, <1>2 DEF Local, SpareRule, Spare, FreshRule, Fresh, CountedRule, GrownRule
<1>12. \A q \in Procs : q # p /\ op[q] # "none" => pte'[q] = pte[q] /\ sz'[q] = sz[q]
  BY <1>1, <1>2, <1>5, TargetIdle
<1>13. refCount'[f] # 0
  BY <1>6
<1> HIDE DEF c, i, e, f
<1> QED  BY <1>1, <1>2, <1>7, <1>8, <1>9, <1>10, <1>11, <1>12, <1>13, CountPrivate

\* A step that changes pages of p's own table only, and no count.
LEMMA TablePrivate ==
  ASSUME NEW p \in Procs, Apart', IInv, PInv, Others(p),
         refCount' = refCount, freelist' = freelist,
         \A q \in Procs : q # p => pte'[q] = pte[q] /\ sz'[q] = sz[q],
         \A v \in VPages : pte'[p][v].w =>
           \/ pte'[p][v] = pte[p][v]
           \/ pte'[p][v].pa # NoFrame /\ refCount[pte'[p][v].pa] = 1,
         Local(p)'
  PROVE  PInv'
<1>1. FreeUnreferenced'
  BY DEF PInv, FreeUnreferenced
<1>2. WritableOnce'
  <2> SUFFICES ASSUME NEW q \in Procs, NEW v \in VPages, pte'[q][v].w
               PROVE  pte'[q][v].pa # NoFrame /\ refCount[pte'[q][v].pa] = 1
    BY DEF WritableOnce, Mapped
  <2>1. CASE pte'[q][v] = pte[q][v]
    BY <2>1 DEF PInv, WritableOnce, Mapped
  <2>2. CASE pte'[q][v] # pte[q][v]
    BY <2>2
  <2> QED  BY <2>1, <2>2
<1>3. \A q \in Procs : q # p /\ Spare(q) => ~OnList(pg[q])'
  BY DEF PInv, Local, SpareRule, OnList, Others
<1> QED  BY <1>1, <1>2, <1>3, Combine

LEMMA CopyPageFailsPrivate ==
  ASSUME NEW p \in Procs, Apart', IInv, NoPagingPanic, PInv, CopyPageFails(p)
  PROVE  PInv'
<1> DEFINE i == va[p]
           e == pte[p][i]
<1>1. /\ Enter(p, "unmap", "forkfail", who[p], 0, i)
      /\ freelist' = freelist /\ sz' = sz /\ refCount' = refCount
      /\ pte' = [pte EXCEPT ![p][i] = MarkCow(e)]
  BY DEF CopyPageFails, InKernel, memVars, procVars
<1>2. i \in VPages /\ e \in PTE
  BY CopyFact DEF CopyPageFails
<1>3. Others(p) /\ pc'[p] = "unmap" /\ op'[p] = "forkfail"
  BY <1>1, EnterFact DEF Call, IInv
<1>4. ~MarkCow(e).w
  BY <1>2 DEF MarkCow, PTE
<1>5. pte \in [Procs -> [VPages -> PTE]]
  BY DEF IInv, TypeOK
<1>6. /\ \A q \in Procs : q # p => pte'[q] = pte[q]
      /\ \A v \in VPages : pte'[p][v].w => pte'[p][v] = pte[p][v]
  BY <1>1, <1>2, <1>4, <1>5
<1>7. Local(p)'
  BY <1>3 DEF Local, SpareRule, Spare, FreshRule, Fresh, CountedRule, GrownRule
<1> QED  BY <1>1, <1>3, <1>6, <1>7, TablePrivate

\* What p holds at "install" is a frame only it refers to.
LEMMA InstallFact ==
  ASSUME NEW p \in Procs, IInv, PInv, InKernel(p, "install")
  PROVE  /\ pg[p] \in Frames /\ pg[p] # NoFrame /\ refCount[pg[p]] = 1
         /\ va[p] \in VPages /\ op[p] \in {"fault", "copyout", "grow"}
<1>1. pc[p] = "install" /\ op[p] \in {"fault", "copyout", "grow"} /\ pg[p] \in Frames
  BY DEF InKernel, IInv, CallState, InHand
<1>2. refCount[pg[p]] = 1
  BY <1>1 DEF PInv, Local, FreshRule, Fresh
<1>3. va[p] \in Nat /\ end[p] \in 0..MaxPages /\ sz[p] \in 0..MaxPages
  BY DEF IInv, TypeOK
<1>4. va[p] < sz[p] \/ va[p] < end[p]
  BY <1>1 DEF IInv, CallState
<1>5. va[p] \in VPages
  BY <1>3, <1>4, PageIntro, CowAssumption
<1> QED  BY <1>1, <1>2, <1>5, FrameFact

LEMMA InstallCopyPrivate ==
  ASSUME NEW p \in Procs, Apart', IInv, PInv, InstallCopy(p)
  PROVE  PInv'
<1> DEFINE i == va[p]
           e == [pa |-> pg[p], w |-> TRUE, cow |-> FALSE]
<1>1. /\ pc'[p] = "decref" /\ op' = op /\ op[p] \in {"fault", "copyout"} /\ Others(p)
      /\ freelist' = freelist /\ sz' = sz /\ refCount' = refCount
      /\ pte' = [pte EXCEPT ![p][i] = e]
  BY InstallFact DEF InstallCopy, InKernel, Goto, Others, IInv, TypeOK, procVars
<1>2. i \in VPages /\ pg[p] # NoFrame /\ refCount[pg[p]] = 1
  BY InstallFact DEF InstallCopy
<1>3. pte \in [Procs -> [VPages -> PTE]]
  BY DEF IInv, TypeOK
<1>4. /\ \A q \in Procs : q # p => pte'[q] = pte[q]
      /\ \A v \in VPages : pte'[p][v] = IF v = i THEN e ELSE pte[p][v]
  BY <1>1, <1>2, <1>3
<1>5. Local(p)'
  BY <1>1 DEF Local, SpareRule, Spare, FreshRule, Fresh, CountedRule, GrownRule
<1> QED  BY <1>1, <1>2, <1>4, <1>5, TablePrivate

LEMMA InstallGrowPrivate ==
  ASSUME NEW p \in Procs, Apart', IInv, PInv, InstallGrow(p)
  PROVE  PInv'
<1> DEFINE i == va[p]
           e == [pa |-> pg[p], w |-> TRUE, cow |-> FALSE]
<1>1. pc[p] = "install" /\ op[p] = "grow"
  BY DEF InstallGrow, InKernel
<1>2. i \in VPages /\ pg[p] # NoFrame /\ refCount[pg[p]] = 1
  BY InstallFact DEF InstallGrow
<1>3. TypeOK /\ pte \in [Procs -> [VPages -> PTE]] /\ GrownRule(p)
  BY DEF IInv, TypeOK, PInv, Local
<1>4. CASE /\ refCount' = refCount /\ freelist' = freelist /\ Others(p)
           /\ \A q \in Procs : q # p => sz'[q] = sz[q]
           /\ pte' = [pte EXCEPT ![p][i] = e]
           /\ \/ pc'[p] = "user" /\ op'[p] = "none"
              \/ pc'[p] = "kalloc" /\ op'[p] = "grow" /\ sz' = sz
  <2>1. /\ \A q \in Procs : q # p => pte'[q] = pte[q]
        /\ \A v \in VPages : pte'[p][v] = IF v = i THEN e ELSE pte[p][v]
    BY <1>2, <1>3, <1>4
  <2>2. GrownRule(p)'
    <3> SUFFICES ASSUME NEW v \in VPages, op'[p] \in {"grow", "growfail"}, sz'[p] <= v,
                        pte'[p][v].pa # NoFrame
                 PROVE  pte'[p][v].w
      BY DEF GrownRule, Mapped
    <3>1. sz' = sz  BY <1>4
    <3> QED  BY <1>1, <1>3, <2>1, <3>1 DEF GrownRule, Mapped
  <2>3. Local(p)'
    BY <1>4, <2>2 DEF Local, SpareRule, Spare, FreshRule, Fresh, CountedRule
  <2> QED  BY <1>1, <1>2, <1>4, <2>1, <2>3, TablePrivate
<1>5. CASE /\ refCount' = refCount /\ freelist' = freelist /\ Others(p) /\ sz' = sz
           /\ pte' = pte /\ pc'[p] = "decref" /\ op'[p] = "growfail" /\ pg' = pg
  <2>1. GrownRule(p)'  BY <1>1, <1>3, <1>5 DEF GrownRule, Mapped
  <2>2. Local(p)'
    BY <1>2, <1>5, <2>1 DEF Local, SpareRule, Spare, FreshRule, Fresh, CountedRule
  <2> QED  BY <1>1, <1>5, <2>2, TablePrivate
<1>6. InstallGrow(p) => 
        \/ /\ pte' = [pte EXCEPT ![p][i] = e] /\ pg' = [pg EXCEPT ![p] = NoFrame]
           /\ UNCHANGED <<refCount, freelist, who>>
           /\ \/ /\ sz' = [sz EXCEPT ![p] = end[p]]
                 /\ pc' = [pc EXCEPT ![p] = "user"] /\ op' = [op EXCEPT ![p] = "none"]
                 /\ va' = [va EXCEPT ![p] = 0] /\ end' = [end EXCEPT ![p] = 0]
              \/ /\ va' = [va EXCEPT ![p] = @ + 1] /\ pc' = [pc EXCEPT ![p] = "kalloc"]
                 /\ UNCHANGED <<sz, op, end>>
        \/ /\ pc' = [pc EXCEPT ![p] = "decref"] /\ op' = [op EXCEPT ![p] = "growfail"]
           /\ end' = [end EXCEPT ![p] = i] /\ va' = [va EXCEPT ![p] = sz[p]]
           /\ UNCHANGED <<refCount, freelist, sz, pte, who, pg>>
  BY DEF InstallGrow, Goto, procVars
<1>7. \/ /\ refCount' = refCount /\ freelist' = freelist /\ Others(p)
         /\ \A q \in Procs : q # p => sz'[q] = sz[q]
         /\ pte' = [pte EXCEPT ![p][i] = e]
         /\ \/ pc'[p] = "user" /\ op'[p] = "none"
            \/ pc'[p] = "kalloc" /\ op'[p] = "grow" /\ sz' = sz
      \/ /\ refCount' = refCount /\ freelist' = freelist /\ Others(p) /\ sz' = sz
         /\ pte' = pte /\ pc'[p] = "decref" /\ op'[p] = "growfail" /\ pg' = pg
  BY <1>1, <1>3, <1>6 DEF Others, TypeOK
<1> QED  BY <1>4, <1>5, <1>7

-----------------------------------------------------------------------------
(* The invariant.                                                          *)

LEMMA StepPrivate ==
  ASSUME Apart', IInv, NoPagingPanic, RefCountExact, PInv, [Next]_vars
  PROVE  PInv'
<1>1. CASE UNCHANGED vars
  BY <1>1 DEF vars, PInv, FreeUnreferenced, Local, SpareRule, FreshRule, CountedRule,
              GrownRule, Apart, WritableOnce, Spare, Fresh, Mapped, OnList
<1>2. ASSUME NEW p \in Procs, Step(p) PROVE PInv'
  <2>1. ASSUME NEW v \in VPages, NEW x \in Values, Store(p, v, x) PROVE PInv'
    BY <2>1 DEF Store, procVars, callVars, PInv, FreeUnreferenced, Local, SpareRule,
                FreshRule, CountedRule, GrownRule, Apart, WritableOnce, Spare, Fresh,
                Mapped, OnList
  <2>2. ASSUME NEW v \in VPages, StoreFault(p, v) PROVE PInv'
    BY <2>2, EnterPrivate DEF StoreFault, InUser, memVars, procVars
  <2>3. ASSUME NEW v \in VPages, StoreKilled(p, v) PROVE PInv'
    BY <2>3, ReturnPrivate DEF StoreKilled, InUser, ExitEffect
  <2>4. ASSUME NEW v \in VPages, Copyout(p, v) PROVE PInv'
    BY <2>4, EnterPrivate DEF Copyout, InUser, memVars, procVars
  <2>5. ASSUME NEW x \in Values, CopyoutWrite(p, x) PROVE PInv'
    BY <2>5, ReturnPrivate DEF CopyoutWrite, InKernel, procVars
  <2>6. CASE KallocPop(p)  BY <2>6, KallocPopPrivate
  <2>7. CASE KallocIncref(p)  BY <2>7, KallocIncrefPrivate
  <2>8. CASE KallocFails(p)  BY <2>8, KallocFailsPrivate
  <2>9. CASE InstallCopy(p)  BY <2>9, InstallCopyPrivate
  <2>10. CASE InstallGrow(p)  BY <2>10, InstallGrowPrivate
  <2>11. CASE KfreeDecref(p)  BY <2>11, KfreeDecrefPrivate
  <2>12. CASE KfreeShared(p)  BY <2>12, KfreeSharedPrivate
  <2>13. CASE KfreeLast(p)  BY <2>13, KfreeLastPrivate
  <2>14. CASE KfreePush(p)  BY <2>14, KfreePushPrivate
  <2>15. CASE Unmap(p)  BY <2>15, UnmapPrivate
  <2>16. CASE UnmapDone(p)  BY <2>16, UnmapDonePrivate
  <2>17. ASSUME NEW c \in Procs, Fork(p, c) PROVE PInv'
    BY <2>17, EnterPrivate DEF Fork, InUser, memVars
  <2>18. ASSUME NEW c \in Procs, Wait(p, c) PROVE PInv'
    BY <2>18, EnterPrivate DEF Wait, InUser, memVars, procVars
  <2>19. CASE CopyPage(p)  BY <2>19, CopyPagePrivate
  <2>20. CASE CopyPageFails(p)  BY <2>20, CopyPageFailsPrivate
  <2>21. CASE ForkDone(p)  BY <2>21, ForkDonePrivate
  <2>22. CASE Exit(p)  BY <2>22, ReturnPrivate DEF Exit, InUser, ExitEffect
  <2>23. ASSUME NEW n \in 0..MaxPages, Grow(p, n) PROVE PInv'
    BY <2>23, GrowPrivate
  <2>24. ASSUME NEW n \in 0..MaxPages, Shrink(p, n) PROVE PInv'
    <3>1. \A q \in Procs : q # p => sz'[q] = sz[q]
      BY <2>24 DEF Shrink
    <3> QED  BY <2>24, <3>1, EnterPrivate DEF Shrink, InUser, memVars
  <2> QED  BY <1>2, <2>1, <2>2, <2>3, <2>4, <2>5, <2>6, <2>7, <2>8, <2>9, <2>10, <2>11,
              <2>12, <2>13, <2>14, <2>15, <2>16, <2>17, <2>18, <2>19, <2>20, <2>21, <2>22,
              <2>23, <2>24
           DEF Step
<1> QED  BY <1>1, <1>2 DEF Next

LEMMA InitPrivate == Init => PInv
<1> SUFFICES ASSUME Init PROVE PInv
  OBVIOUS
<1>1. InitSize \in Nat /\ NumFrames \in Nat /\ InitSize <= NumFrames
  BY CowAssumption
<1>2. freelist = [i \in 1..(NumFrames - InitSize) |-> InitSize + i]
      /\ Len(freelist) = NumFrames - InitSize
  BY <1>1 DEF Init
<1>3. \A f \in Frames : refCount[f] = IF f <= InitSize THEN 1 ELSE 0
  BY DEF Init
<1>4. FreeUnreferenced
  <2>1. ASSUME NEW i \in 1..Len(freelist) PROVE refCount[freelist[i]] = 0
    <3>1. freelist[i] = InitSize + i /\ InitSize + i \in 1..NumFrames
          /\ ~(InitSize + i <= InitSize)
      BY <1>1, <1>2
    <3> QED  BY <1>3, <3>1 DEF Frames
  <2>2. \A i, j \in 1..Len(freelist) : freelist[i] = freelist[j] => i = j
    BY <1>1, <1>2
  <2> QED  BY <2>1, <2>2 DEF FreeUnreferenced
<1>5. \A q \in Procs : Local(q) /\ ~Spare(q)
  BY DEF Init, Local, SpareRule, Spare, FreshRule, Fresh, CountedRule, GrownRule
<1>6. WritableOnce
  <2> SUFFICES ASSUME NEW q \in Procs, NEW v \in VPages, pte[q][v].w
               PROVE  pte[q][v].pa # NoFrame /\ refCount[pte[q][v].pa] = 1
    BY DEF WritableOnce, Mapped
  <2>1. v < InitSize /\ pte[q][v].pa = v + 1
    BY DEF Init, NoPte
  <2>2. v \in Nat /\ v + 1 \in 1..NumFrames /\ v + 1 <= InitSize /\ v + 1 # 0
    BY <1>1, <2>1, PageFact
  <2> QED  BY <1>3, <2>1, <2>2 DEF Frames, NoFrame
<1> QED  BY <1>4, <1>5, <1>6 DEF PInv, Apart

LEMMA PrivateInvariant == Spec /\ []Apart => []PInv
<1>1. PInv /\ IInv /\ NoPagingPanic /\ RefCountExact /\ Apart' /\ [Next]_vars => PInv'
  BY StepPrivate
<1> QED  BY <1>1, InitPrivate, Inductive, PanicFree, CountsExact, PTL DEF Spec

\* kfree()'s gap between decref() and ref_count_returner() (kalloc.c:89-91) is the only
\* way to a page on the free list that is in use or is there twice: as long as no two
\* processes are past the last reference to one frame, neither happens, for any number of
\* harts, processes and frames and whatever calls interleave.
THEOREM FreeStaysUnreferenced == Spec /\ []Apart => []FreeUnreferenced
<1>1. PInv => FreeUnreferenced
  BY DEF PInv
<1> QED  BY <1>1, PrivateInvariant, PTL

LEMMA OnceIsPrivate == PInv /\ IInv /\ RefCountExact => WritableIsPrivate
<1> SUFFICES ASSUME PInv, IInv, RefCountExact, NEW p \in Procs, NEW q \in Procs,
                    NEW v \in VPages, NEW u \in VPages, pte[p][v].w,
                    <<p, v>> # <<q, u>>, pte[q][u].pa = pte[p][v].pa
             PROVE  FALSE
  BY DEF WritableIsPrivate
<1>1. pte[p][v].pa # NoFrame /\ refCount[pte[p][v].pa] = 1
  BY DEF PInv, WritableOnce, Mapped
<1>2. pte[p][v].pa \in Frames /\ TypeOK
  BY <1>1, PteFact DEF IInv, TypeOK
<1>3. refCount[pte[p][v].pa] >= 2
  BY <1>2, PagesCounted
<1> QED  BY <1>1, <1>3

\* Under the same assumption a page a process may store to without a fault is mapped
\* nowhere else: uvmcopy(), handle_page_fault() and uvmalloc() never leave a shared page
\* writable, on any number of harts.
THEOREM WritableStaysPrivate == Spec /\ []Apart => []WritableIsPrivate
BY OnceIsPrivate, PrivateInvariant, Inductive, CountsExact, PTL

-----------------------------------------------------------------------------
(* One hart.  Nobody else is between decref() and the end of kfree() with  *)
(* a frame that was ever shared, so the last two users never meet there.   *)

\* Nobody is in a call that frees or writes a shared page with interrupts on.
Tame == \A q \in Procs : op[q] \notin {"copyout", "shrink"}

\* On one hart nobody else is in a section that runs with interrupts off.
LEMMA Alone ==
  ASSUME NEW p \in Procs, CPUS = 1, MayRun(p)
  PROVE  \A q \in Procs : q # p => ~IntrOff(q)
<1> DEFINE S == {q \in Procs \ {p} : IntrOff(q)}
<1>1. IsFiniteSet(S)
  <2>1. S \subseteq Procs  OBVIOUS
  <2> QED  BY <2>1, CowAssumption, FS_Subset
<1>2. Cardinality(S) \in Nat /\ Cardinality(S) < 1
  BY <1>1, FS_CardinalityType DEF MayRun
<1>3. S = {}
  BY <1>1, <1>2, FS_EmptySet
<1> QED  BY <1>3

\* A step of p is the only one that moves p, and begins the calls the programs make.
LEMMA OneHartCall ==
  ASSUME OneHartSafe, IInv, NEW p \in Procs, Step(p)
  PROVE  /\ MayRun(p) /\ Others(p)
         /\ op'[p] = op[p] \/ op'[p] \notin {"copyout", "shrink"}
<1>0. "copyout" \notin Calls /\ "copyoutText" \notin Calls /\ "shrink" \notin Calls
  BY DEF OneHartSafe
<1>1. MayRun(p) /\ TypeOK
  BY DEF Step, Store, StoreFault, StoreKilled, Copyout, CopyoutWrite, KallocPop,
         KallocIncref, KallocFails, InstallCopy, InstallGrow, KfreeDecref, KfreeShared,
         KfreeLast, KfreePush, Unmap, UnmapDone, Fork, Wait, CopyPage, CopyPageFails,
         ForkDone, Exit, Grow, Shrink, InUser, InKernel, IInv
<1>2. (\A v \in VPages : ~Copyout(p, v)) /\ (\A n \in 0..MaxPages : ~Shrink(p, n))
  BY <1>0 DEF Copyout, Shrink, InUser
<1>3. CASE Return(p)
  BY <1>1, <1>3, ReturnFact DEF Call
<1>4. ASSUME NEW label, NEW o \in {"fault", "grow", "growfail", "fork", "forkfail", "reap"},
             NEW w, NEW first, NEW last, Enter(p, label, o, w, first, last)
      PROVE  Others(p) /\ op'[p] \notin {"copyout", "shrink"}
  <2>1. Call(p, label, o, w, first, last)
    BY <1>1, <1>4, EnterFact
  <2> QED  BY <1>4, <2>1 DEF Call
<1>5. CASE op' = op /\ Others(p)
  BY <1>1, <1>5
<1>6. ASSUME NEW v \in VPages, NEW x \in Values, Store(p, v, x) PROVE op' = op /\ Others(p)
  BY <1>6 DEF Store, callVars, Others
<1>7. CASE KallocPop(p) \/ KallocIncref(p) \/ InstallCopy(p) \/ KfreeDecref(p) \/ KfreeLast(p)
           \/ Unmap(p) \/ CopyPage(p)
  <2>1. op' = op /\ Others(p)
    BY <1>1, <1>7 DEF KallocPop, KallocIncref, InstallCopy, KfreeDecref, KfreeLast, Unmap,
                      CopyPage, Goto, Others, TypeOK
  <2> QED  BY <1>1, <2>1
<1>8. CASE KallocFails(p)
  <2>1. \/ Return(p) \/ UNCHANGED <<pc, op, who, va, end, pg>>
        \/ Enter(p, "unmap", "growfail", p, sz[p], va[p])
    BY <1>8 DEF KallocFails, ExitEffect, callVars
  <2> QED  BY <1>1, <1>3, <1>4, <2>1 DEF Others
<1>9. CASE InstallGrow(p)
  <2>1. \/ /\ who' = who /\ pg' = [pg EXCEPT ![p] = NoFrame]
           /\ \/ /\ pc' = [pc EXCEPT ![p] = "user"] /\ op' = [op EXCEPT ![p] = "none"]
                 /\ va' = [va EXCEPT ![p] = 0] /\ end' = [end EXCEPT ![p] = 0]
              \/ /\ va' = [va EXCEPT ![p] = @ + 1] /\ pc' = [pc EXCEPT ![p] = "kalloc"]
                 /\ UNCHANGED <<op, end>>
        \/ /\ pc' = [pc EXCEPT ![p] = "decref"] /\ op' = [op EXCEPT ![p] = "growfail"]
           /\ end' = [end EXCEPT ![p] = va[p]] /\ va' = [va EXCEPT ![p] = sz[p]]
           /\ UNCHANGED <<who, pg>>
    BY <1>9 DEF InstallGrow, Goto
  <2>2. Others(p) /\ (op'[p] = op[p] \/ op'[p] \notin {"copyout", "shrink"})
    BY <1>1, <2>1 DEF Others, TypeOK
  <2> QED  BY <1>1, <2>2
<1>10. CASE KfreeShared(p) \/ KfreePush(p)
  <2>1. AfterKfree(p)  BY <1>10 DEF KfreeShared, KfreePush
  <2> QED  BY <1>1, <2>1, AfterKfreeFact
<1>11. CASE CopyPageFails(p)
  BY <1>1, <1>4, <1>11 DEF CopyPageFails
<1>12. CASE UnmapDone(p) \/ ForkDone(p) \/ Exit(p)
  BY <1>1, <1>3, <1>12 DEF UnmapDone, ForkDone, Exit, ExitEffect
<1>13. ASSUME NEW x \in Values, CopyoutWrite(p, x) PROVE Return(p)
  BY <1>13 DEF CopyoutWrite
<1>14. ASSUME NEW v \in VPages, StoreFault(p, v) \/ StoreKilled(p, v)
       PROVE  Others(p) /\ op'[p] \notin {"copyout", "shrink"}
  <2>1. Return(p) \/ Enter(p, "kalloc", "fault", p, v, v)
    BY <1>14 DEF StoreFault, StoreKilled, ExitEffect
  <2> QED  BY <1>1, <1>4, <2>1, ReturnFact DEF Call
<1>15. ASSUME NEW c \in Procs, Fork(p, c) \/ Wait(p, c)
       PROVE  Others(p) /\ op'[p] \notin {"copyout", "shrink"}
  BY <1>4, <1>15 DEF Fork, Wait
<1>16. ASSUME NEW n \in 0..MaxPages, Grow(p, n)
       PROVE  Others(p) /\ op'[p] \notin {"copyout", "shrink"}
  BY <1>4, <1>16 DEF Grow
<1> QED
  BY <1>1, <1>2, <1>3, <1>5, <1>6, <1>7, <1>8, <1>9, <1>10, <1>11, <1>12, <1>13, <1>14, <1>15,
     <1>16 DEF Step

LEMMA StaysTame ==
  ASSUME OneHartSafe, IInv, Tame, [Next]_vars
  PROVE  Tame'
<1>1. CASE UNCHANGED vars
  BY <1>1 DEF Tame, vars
<1>2. ASSUME NEW p \in Procs, Step(p) PROVE Tame'
  BY <1>2, OneHartCall DEF Tame, Others
<1> QED  BY <1>1, <1>2 DEF Next

\* Where a frame becomes spare in p's hand: it comes off the free list, or p has just
\* given up a reference to it.
LEMMA SpareStep ==
  ASSUME IInv, NoPagingPanic, RefCountExact, PInv, NEW p \in Procs, Step(p), Spare(p)'
  PROVE  \/ Spare(p) /\ pg'[p] = pg[p]
         \/ OnList(pg'[p])
         \/ refCount[pg'[p]] >= 1
<1>1. pc'[p] \in {"newref", "push", "count"} /\ TypeOK
  BY DEF Spare, IInv
<1>2. CASE KallocPop(p)
  <2>1. pg'[p] = Head(freelist) /\ freelist # <<>> /\ freelist \in Seq(Frames)
    BY <1>1, <1>2 DEF KallocPop, TypeOK
  <2>2. 1 \in 1..Len(freelist) /\ freelist[1] = Head(freelist)
    BY <2>1
  <2> QED  BY <2>1, <2>2 DEF OnList
<1>3. CASE KfreeDecref(p)
  <2>1. pc[p] = "decref" /\ pg' = pg /\ pg[p] \in Frames
    BY <1>3 DEF KfreeDecref, InKernel, IInv, CallState, InHand
  <2>2. HoldsInHand(p)
    BY <2>1 DEF HoldsInHand
  <2> QED  BY <1>1, <2>1, <2>2, PagesCounted
<1>4. CASE KfreeLast(p)
  <2>1. pc[p] = "count" /\ pg' = pg /\ refCount[pg[p]] <= 0 /\ pg[p] \in Frames
    BY <1>4 DEF KfreeLast, InKernel, IInv, CallState, InHand
  <2>2. refCount[pg[p]] = 0
    BY <1>1, <2>1, PagesCounted
  <2> QED  BY <2>1, <2>2 DEF Spare
<1>5. CASE Unmap(p)
  <2> DEFINE f == pte[who[p]][va[p]].pa
  <2>1. pc[p] = "unmap" /\ va[p] < end[p] /\ pg'[p] = f
    BY <1>1, <1>5 DEF Unmap, InKernel, TypeOK
  <2>2. /\ who[p] \in Procs /\ va[p] \in Nat /\ end[p] \in 0..MaxPages
        /\ pte \in [Procs -> [VPages -> PTE]]
    BY <1>1 DEF TypeOK
  <2>3. va[p] \in VPages
    BY <2>1, <2>2, PageIntro, CowAssumption
  <2>4. Mapped(who[p], va[p])
    BY <2>1 DEF NoPagingPanic
  <2>5. f \in Frames
    BY <2>2, <2>3, <2>4, PteFact DEF Mapped
  <2> QED  BY <1>1, <2>1, <2>2, <2>3, <2>5, PagesCounted
<1>6. ASSUME NEW label, pc' = [pc EXCEPT ![p] = label] PROVE pc'[p] = label
  BY <1>1, <1>6 DEF TypeOK
<1>7. ~Return(p)
  BY <1>1, <1>6 DEF Return
<1>8. \A label \in {"user", "kalloc", "install", "decref", "unmap", "copy", "write"} :
        /\ ~Goto(p, label)
        /\ \A o, w, first, last : ~Enter(p, label, o, w, first, last)
  BY <1>1, <1>6 DEF Goto, Enter
<1>9. pc' = pc => pc[p] \in {"newref", "push", "count"}
  BY <1>1
<1>10. ~AfterKfree(p) /\ ~ExitEffect(p)
  BY <1>7, <1>8 DEF AfterKfree, ExitEffect
<1>11. ~KallocIncref(p) /\ ~InstallCopy(p) /\ ~KfreeShared(p) /\ ~KfreePush(p)
  BY <1>8, <1>10 DEF KallocIncref, InstallCopy, KfreeShared, KfreePush
<1>12. ~KallocFails(p)
  BY <1>7, <1>8, <1>9, <1>10 DEF KallocFails, InKernel, callVars
<1>13. ~InstallGrow(p)
  BY <1>6, <1>1, <1>8 DEF InstallGrow
<1>14. ~UnmapDone(p) /\ ~ForkDone(p) /\ ~Exit(p) /\ ~CopyPageFails(p)
  BY <1>7, <1>8, <1>10 DEF UnmapDone, ForkDone, Exit, CopyPageFails
<1>15. ~CopyPage(p)
  BY <1>9 DEF CopyPage, InKernel
<1>16. /\ \A v \in VPages, x \in Values : ~Store(p, v, x)
       /\ \A v \in VPages : ~StoreFault(p, v) /\ ~StoreKilled(p, v) /\ ~Copyout(p, v)
  BY <1>7, <1>8, <1>9, <1>10 DEF Store, StoreFault, StoreKilled, Copyout, InUser, callVars
<1>17. \A x \in Values : ~CopyoutWrite(p, x)
  BY <1>7 DEF CopyoutWrite
<1>18. /\ \A c \in Procs : ~Fork(p, c) /\ ~Wait(p, c)
       /\ \A n \in 0..MaxPages : ~Grow(p, n) /\ ~Shrink(p, n)
  BY <1>8 DEF Fork, Wait, Grow, Shrink
<1> QED
  BY <1>2, <1>3, <1>4, <1>5, <1>11, <1>12, <1>13, <1>14, <1>15, <1>16, <1>17, <1>18 DEF Step

\* A frame that is spare in one hand does not become spare in another one.
LEMMA OneHartStep ==
  ASSUME OneHartSafe, IInv, NoPagingPanic, RefCountExact, PInv, Tame, [Next]_vars
  PROVE  Apart'
<1>1. CASE UNCHANGED vars
  BY <1>1 DEF vars, PInv, Apart, Spare
<1>2. ASSUME NEW p \in Procs, Step(p) PROVE Apart'
  <2>1. MayRun(p) /\ Others(p) /\ CPUS = 1
    BY <1>2, OneHartCall DEF OneHartSafe
  <2>2. ASSUME NEW q \in Procs, q # p, Spare(q)' PROVE Spare(q) /\ pg'[q] = pg[q]
    <3>1. pc'[q] = pc[q] /\ pg'[q] = pg[q] /\ ~IntrOff(q)
      BY <2>1, <2>2, Alone DEF Others
    <3>2. op[q] \in {"none", "grow", "growfail"}
      BY <3>1 DEF IntrOff, Tame, IInv, TypeOK
    <3>3. pc[q] = "count" => op[q] = "growfail"
      BY <3>2 DEF IInv, CallState
    <3> QED  BY <2>2, <3>1, <3>3 DEF Spare, PInv, Local, CountedRule
  <2>3. ASSUME NEW q \in Procs, q # p, Spare(q)', Spare(p)', pg'[q] = pg'[p] PROVE FALSE
    <3>1. Spare(q) /\ pg[q] = pg'[p] /\ refCount[pg[q]] = 0 /\ ~OnList(pg[q])
      BY <2>2, <2>3 DEF PInv, Local, SpareRule
    <3>2. ~(Spare(p) /\ pg'[p] = pg[p])
      BY <2>3, <3>1 DEF PInv, Apart
    <3> QED  BY <1>2, <2>3, <3>1, <3>2, SpareStep
  <2> QED  BY <2>2, <2>3 DEF Apart, PInv
<1> QED  BY <1>1, <1>2 DEF Next

LEMMA OneHartInvariant == ASSUME OneHartSafe PROVE Spec => [](PInv /\ Tame)
<1>1. Init => Tame
  BY DEF Init, Tame
<1>2. PInv /\ Tame /\ IInv /\ NoPagingPanic /\ RefCountExact /\ [Next]_vars => PInv' /\ Tame'
  BY OneHartStep, StaysTame, StepPrivate
<1> QED  BY <1>1, <1>2, InitPrivate, Inductive, PanicFree, CountsExact, PTL DEF Spec

\* On one hart, and without shrinking sbrk() and system calls that write user memory, no
\* two processes ever are past the last reference to one frame, whatever the faults,
\* forks and exits interleave.
THEOREM OneHartApart == ASSUME OneHartSafe PROVE Spec => []Apart
<1>1. PInv => Apart
  BY DEF PInv
<1> QED  BY <1>1, OneHartInvariant, PTL

\* There, a page a process may store to without a fault is mapped nowhere else,
\* for any number of processes, frames and pages: uvmcopy() and
\* handle_page_fault() never leave a shared page writable.
THEOREM AlwaysPrivate == ASSUME OneHartSafe PROVE Spec => []WritableIsPrivate
BY OneHartApart, WritableStaysPrivate, PTL

-----------------------------------------------------------------------------
(* The contents. Where text is page 0 only, the page handle_page_fault()   *)
(* refuses to copy, sharing cannot be seen: the system implements          *)
(* PrivateMemory, whose fork() copies.                                     *)

\* NoPage stands for an unmapped page in PrivateMemory, so it is no contents.
TextIsPageZero == TextPages \subseteq {0} /\ NoPage \notin Contents

\* The processes whose memory is visible.
Seen(q) == pst[q] \in {"LIVE", "PANIC"}

SizeRule  == \A q \in Procs : Seen(q) => sz[q] >= 1
FaultRule == \A q \in Procs : op[q] = "fault" => va[q] > 0
TextRule  == \A q \in Procs, v \in VPages : v \in TextPages => ~pte[q][v].w

\* The child's pages are the parent's, as far as uvmcopy() has come.
CopyRule == \A q \in Procs, v \in VPages :
  op[q] = "fork" /\ v < va[q] => pte[who[q]][v].pa = pte[q][v].pa

\* The pages uvmalloc() has added hold zeros.
ZeroRule == \A q \in Procs, v \in VPages :
  op[q] = "grow" /\ sz[q] <= v /\ Mapped(q, v) => data[pte[q][v].pa] = Zero

DInv == SizeRule /\ FaultRule /\ TextRule /\ CopyRule /\ ZeroRule

\* A step reaches no table but p's own and that of the process it works on.
Reach(p) == \A q \in Procs : q # p /\ q # who[p] => pte'[q] = pte[q] /\ sz'[q] = sz[q]

\* The pages keep their contents.
SameContents == \A q \in Procs, v \in VPages :
  Mapped(q, v) => data'[pte[q][v].pa] = data[pte[q][v].pa]

\* Who p works on is alive only if it is p itself, and in nobody else's hands.
LEMMA Target ==
  ASSUME NEW p \in Procs, IInv, pst[p] = "LIVE"
  PROVE  /\ who[p] # p => ~Seen(who[p]) /\ op[who[p]] = "none"
         /\ \A q \in Procs : q # p /\ op[q] = "fork" => who[q] # p /\ who[q] # who[p]
<1>1. Workers /\ TypeOK
  BY DEF IInv
<1>2. who[p] # p => op[p] \in {"fork", "forkfail", "reap"} /\ ~Seen(who[p])
  BY <1>1 DEF Workers, Seen
<1>3. ASSUME NEW q \in Procs, q # p, op[q] = "fork" PROVE who[q] # p /\ who[q] # who[p]
  <2>1. pst[who[q]] = "USED"  BY <1>1, <1>3 DEF Workers
  <2>2. CASE who[p] = p  BY <2>1, <2>2
  <2>3. CASE who[p] # p
    BY <1>1, <1>2, <1>3, <2>1, <2>3 DEF Workers
  <2> QED  BY <2>1, <2>2, <2>3
<1> QED  BY <1>2, <1>3, TargetIdle

LEMMA SeenMapped ==
  ASSUME IInv, NEW q \in Procs, NEW v \in VPages, Seen(q), v < sz[q]
  PROVE  Mapped(q, v) /\ pte[q][v].pa \in Frames
<1>1. Mapped(q, v)
  BY DEF IInv, Layout, LiveLayout, OwnPage, Seen
<1> QED  BY <1>1, PteFact DEF Mapped, IInv, TypeOK

\* A frame written that no page names.
LEMMA WriteUnmapped ==
  ASSUME NEW f \in Frames, NEW x, IInv, data' = [data EXCEPT ![f] = x],
         \A q \in Procs, v \in VPages : pte[q][v].pa # f
  PROVE  SameContents
<1>1. \A q \in Procs, v \in VPages : Mapped(q, v) => pte[q][v].pa \in Frames
  BY PteFact DEF IInv, TypeOK, Mapped
<1>2. data \in [Frames -> Contents]
  BY DEF IInv, TypeOK
<1> QED  BY <1>1, <1>2 DEF SameContents

LEMMA SameData == ASSUME data' = data PROVE SameContents
BY DEF SameContents

LEMMA SpareUnmapped ==
  ASSUME NEW f \in Frames, IInv, RefCountExact, refCount[f] = 0
  PROVE  \A q \in Procs, v \in VPages : pte[q][v].pa # f
BY PagesCounted DEF IInv

LEMMA FreshUnmapped ==
  ASSUME NEW p \in Procs, IInv, RefCountExact, PInv, pc[p] = "install"
  PROVE  pg[p] \in Frames /\ \A q \in Procs, v \in VPages : pte[q][v].pa # pg[p]
<1>1. HoldsInHand(p) /\ pg[p] \in Frames /\ refCount[pg[p]] = 1
  BY DEF HoldsInHand, IInv, CallState, InHand, PInv, Local, FreshRule, Fresh
<1>2. \A q \in Procs, v \in VPages : pte[q][v].pa = pg[p] => refCount[pg[p]] >= 2
  BY <1>1, PagesCounted DEF IInv
<1> QED  BY <1>1, <1>2

-----------------------------------------------------------------------------
(* What the steps of p leave to prove.                                     *)

LEMMA DataCombine ==
  ASSUME NEW p \in Procs, IInv, DInv, pst[p] = "LIVE", Others(p), Reach(p),
         \A q \in Procs, v \in VPages :
           q # p /\ op[q] = "grow" /\ sz[q] <= v /\ Mapped(q, v)
           => data'[pte[q][v].pa] = data[pte[q][v].pa],
         SizeRule', TextRule',
         op'[p] = "fault" => va'[p] > 0,
         op'[p] = "fork" => \A v \in VPages :
           v < va'[p] => pte'[who'[p]][v].pa = pte'[p][v].pa,
         op'[p] = "grow" => \A v \in VPages :
           sz'[p] <= v /\ pte'[p][v].pa # NoFrame => data'[pte'[p][v].pa] = Zero
  PROVE  DInv'
<1>1. ASSUME NEW q \in Procs, q # p, op[q] # "none" PROVE pte'[q] = pte[q] /\ sz'[q] = sz[q]
  BY <1>1, Target DEF Reach
<1>2. FaultRule'
  BY DEF DInv, FaultRule, Others
<1>3. CopyRule'
  <2> SUFFICES ASSUME NEW q \in Procs, NEW v \in VPages, q # p, op'[q] = "fork", v < va'[q]
               PROVE  pte'[who'[q]][v].pa = pte'[q][v].pa
    BY DEF CopyRule
  <2>1. op[q] = "fork" /\ v < va[q] /\ who'[q] = who[q] /\ who[q] \in Procs
    BY DEF Others, IInv, TypeOK
  <2>2. pte'[who[q]] = pte[who[q]]
    BY <2>1, Target DEF Reach
  <2>3. pte[who[q]][v].pa = pte[q][v].pa
    BY <2>1 DEF DInv, CopyRule
  <2> QED  BY <1>1, <2>1, <2>2, <2>3
<1>4. ZeroRule'
  <2> SUFFICES ASSUME NEW q \in Procs, NEW v \in VPages, q # p, op'[q] = "grow",
                      sz'[q] <= v, pte'[q][v].pa # NoFrame
               PROVE  data'[pte'[q][v].pa] = Zero
    BY DEF ZeroRule, Mapped
  <2>1. op[q] = "grow" /\ pte'[q] = pte[q] /\ sz'[q] = sz[q]
    BY <1>1 DEF Others
  <2> QED  BY <2>1 DEF DInv, ZeroRule, Mapped
<1> QED  BY <1>2, <1>3, <1>4 DEF DInv

\* A step that leaves the tables as they are.
LEMMA DataQuiet ==
  ASSUME NEW p \in Procs, IInv, DInv, pst[p] = "LIVE", Others(p), Reach(p), SameContents,
         pte' = pte, SizeRule',
         \/ op'[p] \notin {"fault", "fork", "grow"}
         \/ op'[p] = op[p] /\ va'[p] = va[p] /\ who'[p] = who[p] /\ sz'[p] = sz[p]
         \/ op'[p] = "fault" /\ va'[p] > 0
         \/ op'[p] = "fork" /\ va'[p] = 0
         \/ op'[p] = "grow" /\ sz'[p] = sz[p] /\ op[p] = "none"
  PROVE  DInv'
<1>1. TextRule'
  BY DEF DInv, TextRule
<1>2. \A q \in Procs, v \in VPages :
        q # p /\ op[q] = "grow" /\ sz[q] <= v /\ Mapped(q, v)
        => data'[pte[q][v].pa] = data[pte[q][v].pa]
  BY DEF SameContents
<1>3. op'[p] = "fault" => va'[p] > 0
  BY DEF DInv, FaultRule
<1>4. ASSUME op'[p] = "fork", NEW v \in VPages, v < va'[p]
      PROVE  pte'[who'[p]][v].pa = pte'[p][v].pa
  <2>1. v \in Nat  BY PageFact
  <2> QED  BY <1>4, <2>1 DEF DInv, CopyRule
<1>5. ASSUME op'[p] = "grow", NEW v \in VPages, sz'[p] <= v, pte'[p][v].pa # NoFrame
      PROVE  data'[pte'[p][v].pa] = Zero
  <2>1. v \in Nat /\ sz[p] \in Nat  BY PageFact DEF IInv, TypeOK
  <2>2. CASE op[p] = "none"
    <3>1. ~Mapped(p, v)
      BY <1>5, <2>1, <2>2 DEF IInv, Layout, LiveLayout, OwnPage
    <3> QED  BY <1>5, <3>1 DEF Mapped
  <2>3. CASE op[p] = "grow" /\ sz'[p] = sz[p]
    BY <1>5, <2>3 DEF DInv, ZeroRule, SameContents, Mapped
  <2> QED  BY <1>5, <2>2, <2>3
<1> QED  BY <1>1, <1>2, <1>3, <1>4, <1>5, DataCombine

LEMMA SameView ==
  ASSUME IInv, \A q \in Procs : Seen(q)' <=> Seen(q),
         \A q \in Procs : Seen(q) => sz'[q] = sz[q],
         \A q \in Procs, v \in VPages :
           Seen(q) /\ v < sz[q] => data'[pte'[q][v].pa] = data[pte[q][v].pa]
  PROVE  Visible' = Visible
<1>1. \A q \in Procs, v \in VPages : Visible'[q][v] = Visible[q][v]
  BY DEF Visible, Seen
<1> QED  BY <1>1 DEF Visible

LEMMA Stutter ==
  ASSUME NEW p \in Procs, IInv, DInv, pst[p] = "LIVE", Others(p), Reach(p), SameContents,
         pte' = pte, \A q \in Procs : Seen(q)' <=> Seen(q),
         \A q \in Procs : Seen(q) => sz'[q] = sz[q],
         \/ op'[p] \notin {"fault", "fork", "grow"}
         \/ op'[p] = op[p] /\ va'[p] = va[p] /\ who'[p] = who[p]
         \/ op'[p] = "fault" /\ va'[p] > 0
         \/ op'[p] = "fork" /\ va'[p] = 0
         \/ op'[p] = "grow" /\ op[p] = "none"
  PROVE  DInv' /\ Visible' = Visible
<1>1. SizeRule'
  BY DEF DInv, SizeRule
<1>2. sz'[p] = sz[p]
  BY DEF Seen
<1>3. \A q \in Procs, v \in VPages :
        Seen(q) /\ v < sz[q] => data'[pte'[q][v].pa] = data[pte[q][v].pa]
  BY SeenMapped DEF SameContents
<1> QED  BY <1>1, <1>2, <1>3, DataQuiet, SameView

\* Steps that begin a call, or end one without a trace.
LEMMA EnterData ==
  ASSUME NEW p \in Procs, IInv, DInv, pst[p] = "LIVE",
         NEW label, NEW o, NEW w, NEW first, NEW last, Enter(p, label, o, w, first, last),
         data' = data, pte' = pte, sz' = sz, \A q \in Procs : Seen(q)' <=> Seen(q),
         \/ o \in {"growfail", "reap"}
         \/ o = "fault" /\ first > 0
         \/ o = "fork" /\ first = 0
         \/ o = "grow" /\ op[p] = "none"
  PROVE  DInv' /\ Visible' = Visible
<1>1. Call(p, label, o, w, first, last)
  BY EnterFact DEF IInv
<1>2. Reach(p) /\ SameContents
  BY SameData DEF Reach
<1> QED  BY <1>1, <1>2, Stutter DEF Call

LEMMA ReturnData ==
  ASSUME NEW p \in Procs, IInv, DInv, pst[p] = "LIVE", Return(p), Reach(p), SameContents,
         pte' = pte, \A q \in Procs : Seen(q)' <=> Seen(q),
         \A q \in Procs : Seen(q) => sz'[q] = sz[q]
  PROVE  DInv' /\ Visible' = Visible
<1>1. Call(p, "user", "none", p, 0, 0)
  BY ReturnFact DEF IInv
<1> QED  BY <1>1, Stutter DEF Call

\* Steps that change the state of no process and leave op and va alone.
LEMMA KeepData ==
  ASSUME NEW p \in Procs, IInv, DInv, pst[p] = "LIVE", Others(p), SameContents,
         pte' = pte, pst' = pst, sz' = sz, op' = op, va' = va, who' = who
  PROVE  DInv' /\ Visible' = Visible
<1>1. Reach(p)
  BY DEF Reach
<1> QED  BY <1>1, Stutter DEF Seen

-----------------------------------------------------------------------------
(* The steps PrivateMemory sees.                                           *)

LEMMA StoreData ==
  ASSUME NEW p \in Procs, NEW v \in VPages, NEW x \in Values,
         IInv, RefCountExact, PInv, TextIsPageZero, DInv, Store(p, v, x)
  PROVE  DInv' /\ Private!Write(p, v, x)
<1> DEFINE f == pte[p][v].pa
<1>1. /\ pst[p] = "LIVE" /\ v < sz[p] /\ pte[p][v].w /\ data' = [data EXCEPT ![f] = x]
      /\ pte' = pte /\ pst' = pst /\ sz' = sz
      /\ op' = op /\ va' = va /\ who' = who /\ pc' = pc /\ end' = end /\ pg' = pg
  BY DEF Store, InUser, MayRun, procVars, callVars
<1>2. f \in Frames /\ refCount[f] = 1 /\ Seen(p)
  BY <1>1, SeenMapped DEF PInv, WritableOnce, Seen
<1>3. ASSUME NEW q \in Procs, NEW u \in VPages, <<q, u>> # <<p, v>> PROVE pte[q][u].pa # f
  <2>1. pte[q][u].pa = f => refCount[f] >= 2
    BY <1>2, <1>3, PagesCounted DEF IInv
  <2> QED  BY <1>2, <2>1
<1>4. data \in [Frames -> Contents] /\ pte \in [Procs -> [VPages -> PTE]]
  BY DEF IInv, TypeOK
<1>5. ASSUME NEW q \in Procs, NEW u \in VPages, <<q, u>> # <<p, v>>, Mapped(q, u)
      PROVE  data'[pte[q][u].pa] = data[pte[q][u].pa]
  <2>1. pte[q][u].pa \in Frames  BY <1>4, <1>5, PteFact DEF Mapped
  <2> QED  BY <1>1, <1>3, <1>4, <1>5, <2>1
<1>6. DInv'
  <2>1. Others(p) /\ Reach(p)  BY <1>1 DEF Others, Reach
  <2>2. SizeRule' /\ TextRule'  BY <1>1 DEF DInv, SizeRule, TextRule, Seen
  <2>3. \A q \in Procs, u \in VPages :
          q # p /\ op[q] = "grow" /\ sz[q] <= u /\ Mapped(q, u)
          => data'[pte[q][u].pa] = data[pte[q][u].pa]
    BY <1>5
  <2>4. op[p] = "none"
    BY DEF Store, InUser, IInv, CallState
  <2>5. op'[p] = "none"
    BY <1>1, <2>4
  <2> QED  BY <1>1, <2>1, <2>2, <2>3, <2>5, DataCombine
<1>7. v \notin TextPages
  BY <1>1 DEF DInv, TextRule
<1>8. Visible[p][v] # NoPage
  <2>1. Visible[p][v] = data[f] /\ data[f] \in Contents
    BY <1>1, <1>2, <1>4 DEF Visible, Seen
  <2> QED  BY <2>1 DEF TextIsPageZero
<1>9. ASSUME NEW q \in Procs, NEW u \in VPages
      PROVE  Visible'[q][u] = IF q = p /\ u = v THEN x ELSE Visible[q][u]
  <2>1. CASE q = p /\ u = v
    BY <1>1, <1>2, <1>4, <2>1 DEF Visible, Seen
  <2>2. CASE ~(q = p /\ u = v)
    <3>1. <<q, u>> # <<p, v>>  BY <2>2
    <3>2. CASE Seen(q) /\ u < sz[q]
      <4>1. Mapped(q, u)  BY <3>2, SeenMapped
      <4> QED  BY <1>1, <1>5, <2>2, <3>1, <3>2, <4>1 DEF Visible, Seen
    <3>3. CASE ~(Seen(q) /\ u < sz[q])
      BY <1>1, <2>2, <3>3 DEF Visible, Seen
    <3> QED  BY <3>2, <3>3
  <2> QED  BY <2>1, <2>2
<1>10. Visible' = [Visible EXCEPT ![p][v] = x]
  <2>1. \A q \in Procs : /\ Visible'[q] = [u \in VPages |-> Visible'[q][u]]
                        /\ Visible[q] = [u \in VPages |-> Visible[q][u]]
    BY DEF Visible
  <2>2. Visible = [q \in Procs |-> Visible[q]] /\ Visible' = [q \in Procs |-> Visible'[q]]
    BY DEF Visible
  <2> HIDE DEF Visible
  <2>3. Visible'[p] = [Visible[p] EXCEPT ![v] = x]
    BY <1>9, <2>1
  <2>4. \A q \in Procs : q # p => Visible'[q] = Visible[q]
    BY <1>9, <2>1
  <2> QED  BY <2>2, <2>3, <2>4
<1> QED  BY <1>6, <1>7, <1>8, <1>10 DEF Private!Write

LEMMA VisiblePages ==
  ASSUME IInv, TextIsPageZero, NEW q \in Procs
  PROVE  /\ Seen(q) => \A v \in VPages : Visible[q][v] # NoPage <=> v < sz[q]
         /\ ~Seen(q) => Visible[q] = Private!Empty
<1>1. data \in [Frames -> Contents]
  BY DEF IInv, TypeOK
<1>2. ASSUME Seen(q), NEW v \in VPages, v < sz[q] PROVE Visible[q][v] # NoPage
  <2>1. pte[q][v].pa \in Frames  BY <1>2, SeenMapped
  <2>2. Visible[q][v] = data[pte[q][v].pa]  BY <1>2 DEF Visible, Seen
  <2>3. data[pte[q][v].pa] \in Contents  BY <1>1, <2>1
  <2> QED  BY <2>2, <2>3 DEF TextIsPageZero
<1>3. ASSUME NEW v \in VPages, ~(Seen(q) /\ v < sz[q]) PROVE Visible[q][v] = NoPage
  BY <1>3 DEF Visible, Seen
<1>4. ~Seen(q) => Visible[q] = [v \in VPages |-> NoPage]
  BY DEF Visible, Seen
<1> QED  BY <1>2, <1>3, <1>4 DEF Private!Empty, Private!VPages, VPages

LEMMA ExitData ==
  ASSUME NEW p \in Procs, p # InitProc, IInv, DInv, pst[p] = "LIVE", ExitEffect(p)
  PROVE  DInv' /\ Private!Exit(p)
<1>1. Call(p, "user", "none", p, 0, 0)
  BY ReturnFact DEF ExitEffect, IInv
<1>2. pst' = [pst EXCEPT ![p] = "ZOMBIE"] /\ sz' = sz /\ pte' = pte /\ data' = data
  BY DEF ExitEffect
<1>3. /\ pst \in [Procs -> {"UNUSED", "USED", "LIVE", "ZOMBIE", "PANIC"}]
      /\ \A q \in Procs : Seen(q)' <=> Seen(q) /\ q # p
  BY <1>2 DEF IInv, TypeOK, Seen
<1>4. DInv'
  <2>1. SizeRule'  BY <1>2, <1>3 DEF DInv, SizeRule
  <2>2. Reach(p) /\ SameContents  BY <1>2, SameData DEF Reach
  <2> QED  BY <1>1, <1>2, <2>1, <2>2, DataQuiet DEF Call
<1>5. Visible' = [Visible EXCEPT ![p] = Private!Empty]
  <2>1. \A q \in Procs : Visible'[q] = IF q = p THEN [v \in VPages |-> NoPage] ELSE Visible[q]
    BY <1>2, <1>3 DEF Visible, Seen
  <2> QED  BY <2>1 DEF Visible, Private!Empty, Private!VPages, VPages
<1> QED  BY <1>4, <1>5 DEF Private!Exit

LEMMA ForkDoneData ==
  ASSUME NEW p \in Procs, IInv, TextIsPageZero, DInv, ForkDone(p)
  PROVE  DInv' /\ Private!Fork(p, who[p])
<1> DEFINE c == who[p]
<1>1. /\ pst[p] = "LIVE" /\ pc[p] = "copy" /\ va[p] >= end[p]
      /\ pst' = [pst EXCEPT ![c] = "LIVE"] /\ sz' = [sz EXCEPT ![c] = sz[p]]
      /\ Return(p) /\ data' = data /\ pte' = pte
  BY DEF ForkDone, InKernel, MayRun, memVars
<1>2. op[p] = "fork" /\ end[p] = sz[p] /\ pst[c] = "USED" /\ c \in Procs /\ c # p
      /\ op[c] = "none"
  BY <1>1 DEF IInv, TypeOK, CallState, Workers
<1>3. /\ pst \in [Procs -> {"UNUSED", "USED", "LIVE", "ZOMBIE", "PANIC"}]
      /\ sz \in [Procs -> 0..MaxPages] /\ va[p] \in 0..MaxPages
  BY DEF IInv, TypeOK
<1>4. Call(p, "user", "none", p, 0, 0)
  BY <1>1, ReturnFact DEF IInv
<1>5. sz[p] >= 1 /\ Seen(p) /\ ~Seen(c)
  BY <1>1, <1>2 DEF DInv, SizeRule, Seen
<1>6. DInv'
  <2>1. SizeRule'
    BY <1>1, <1>2, <1>3, <1>5 DEF DInv, SizeRule, Seen
  <2>2. Reach(p) /\ SameContents
    BY <1>1, <1>3, SameData DEF Reach
  <2> QED  BY <1>1, <1>4, <2>1, <2>2, DataQuiet DEF Call
<1>7. \A v \in VPages : v < sz[p] => pte[c][v].pa = pte[p][v].pa
  <2>1. \A v \in VPages : v < sz[p] => v < va[p]
    BY <1>1, <1>2, <1>3, PageFact
  <2> QED  BY <1>2, <2>1 DEF DInv, CopyRule
<1>8. ASSUME NEW q \in Procs, NEW v \in VPages
      PROVE  Visible'[q][v] = IF q = c THEN Visible[p][v] ELSE Visible[q][v]
  <2>1. CASE q = c
    BY <1>1, <1>2, <1>3, <1>7, <2>1 DEF Visible
  <2>2. CASE q # c
    BY <1>1, <1>2, <1>3, <2>2 DEF Visible
  <2> QED  BY <2>1, <2>2
<1>9. Visible' = [Visible EXCEPT ![c] = Visible[p]]
  BY <1>2, <1>8 DEF Visible
<1>10. Visible[p] # Private!Empty /\ Visible[c] = Private!Empty
  <2>1. 0 \in VPages  BY CowAssumption, PageIntro
  <2>2. Visible[p][0] # NoPage  BY <1>3, <1>5, <2>1, VisiblePages
  <2> QED  BY <1>2, <1>5, <2>1, <2>2, VisiblePages DEF Private!Empty, Private!VPages, VPages
<1> QED  BY <1>2, <1>6, <1>9, <1>10 DEF Private!Fork

LEMMA SizeFact ==
  ASSUME IInv, TextIsPageZero, NEW q \in Procs, Seen(q), sz[q] >= 1
  PROVE  Private!Size(q) = sz[q]
<1> DEFINE present == {v \in VPages : Visible[q][v] # NoPage}
           last == CHOOSE v \in present : \A u \in present : u <= v
<1>1. sz[q] \in 0..MaxPages /\ MaxPages \in Nat
  BY CowAssumption DEF IInv, TypeOK
<1>2. \A v \in VPages : v \in present <=> v < sz[q]
  BY VisiblePages
<1>3. sz[q] - 1 \in VPages /\ sz[q] - 1 < sz[q]
  BY <1>1, PageIntro
<1>4. sz[q] - 1 \in present
  BY <1>2, <1>3
<1>5. \A u \in present : u \in VPages /\ u \in Nat /\ u <= sz[q] - 1
  BY <1>1, <1>2, PageFact
<1>6. last \in present /\ \A u \in present : u <= last
  BY <1>4, <1>5
<1>7. last = sz[q] - 1
  BY <1>1, <1>4, <1>5, <1>6
<1>8. Private!Size(q) = IF present = {} THEN 0 ELSE 1 + last
  BY DEF Private!Size, Private!VPages, VPages
<1>9. present # {}
  BY <1>4
<1> HIDE DEF present, last
<1>10. sz[q] \in Int /\ 1 + last = sz[q]
  BY <1>1, <1>7
<1> QED  BY <1>8, <1>9, <1>10

\* The last page of sbrk().
LEMMA GrownData ==
  ASSUME NEW p \in Procs, IInv, RefCountExact, PInv, TextIsPageZero, DInv,
         pst[p] = "LIVE", pc[p] = "install", op[p] = "grow", va[p] + 1 = end[p],
         data' = [data EXCEPT ![pg[p]] = Zero],
         pte' = [pte EXCEPT ![p][va[p]] = [pa |-> pg[p], w |-> TRUE, cow |-> FALSE]],
         sz' = [sz EXCEPT ![p] = end[p]], pst' = pst, Others(p), op'[p] = "none"
  PROVE  DInv' /\ Private!Resize(p, end[p])
<1> DEFINE i == va[p]
           e == [pa |-> pg[p], w |-> TRUE, cow |-> FALSE]
<1>1. /\ sz \in [Procs -> 0..MaxPages] /\ i \in 0..MaxPages /\ end[p] \in 0..MaxPages
      /\ data \in [Frames -> Contents] /\ pte \in [Procs -> [VPages -> PTE]]
  BY DEF IInv, TypeOK
<1>2. Seen(p) /\ sz[p] >= 1 /\ sz[p] <= i
  BY DEF Seen, DInv, SizeRule, IInv, CallState
<1>3. i \in VPages /\ end[p] \in 1..MaxPages
  BY <1>1, <1>2, PageIntro, CowAssumption
<1>4. pg[p] \in Frames /\ \A q \in Procs, v \in VPages : pte[q][v].pa # pg[p]
  BY FreshUnmapped
<1>5. SameContents /\ data'[pg[p]] = Zero
  BY <1>1, <1>4, WriteUnmapped
<1>6. /\ \A q \in Procs : q # p => pte'[q] = pte[q]
      /\ \A v \in VPages : pte'[p][v] = IF v = i THEN e ELSE pte[p][v]
      /\ \A q \in Procs : sz'[q] = IF q = p THEN end[p] ELSE sz[q]
  BY <1>1, <1>3
<1>7. \A v \in VPages : v < i => Mapped(p, v)
  BY <1>2 DEF IInv, Layout, LiveLayout, OwnPage, Seen
<1>8. DInv'
  <2>1. SizeRule'  BY <1>1, <1>2, <1>3, <1>6 DEF DInv, SizeRule, Seen
  <2>2. i \notin TextPages  BY <1>1, <1>2 DEF TextIsPageZero
  <2>3. TextRule'  BY <1>6, <2>2 DEF DInv, TextRule
  <2>4. Reach(p)  BY <1>6 DEF Reach
  <2>5. \A q \in Procs, v \in VPages : Mapped(q, v) => data'[pte[q][v].pa] = data[pte[q][v].pa]
    BY <1>5 DEF SameContents
  <2> QED  BY <2>1, <2>3, <2>4, <2>5, DataCombine
<1>9. ASSUME NEW v \in VPages
      PROVE  Visible'[p][v] = IF v >= end[p] THEN NoPage
                              ELSE IF v < sz[p] THEN Visible[p][v] ELSE Zero
  <2>0. v \in Nat  BY PageFact
  <2>1. Visible'[p][v] = IF v < end[p] THEN data'[pte'[p][v].pa] ELSE NoPage
    BY <1>2, <1>6 DEF Visible, Seen
  <2>2. CASE v >= end[p]  BY <1>1, <2>0, <2>1, <2>2
  <2>3. CASE v = i  BY <1>1, <1>2, <1>5, <1>6, <2>0, <2>1, <2>3
  <2>4. CASE v < i
    <3>1. Mapped(p, v) /\ pte'[p][v] = pte[p][v] /\ data'[pte[p][v].pa] = data[pte[p][v].pa]
      BY <1>1, <1>5, <1>6, <1>7, <2>0, <2>4 DEF SameContents
    <3>2. v < sz[p] => Visible[p][v] = data[pte[p][v].pa]
      BY <1>2 DEF Visible, Seen
    <3>3. ~(v < sz[p]) => data[pte[p][v].pa] = Zero
      BY <1>1, <2>0, <3>1 DEF DInv, ZeroRule
    <3> QED  BY <1>1, <2>0, <2>1, <2>4, <3>1, <3>2, <3>3
  <2>5. v = i \/ v < i \/ v >= end[p]
    BY <1>1, <2>0
  <2> QED  BY <2>2, <2>3, <2>4, <2>5
<1>10. \A q \in Procs : q # p => Visible'[q] = Visible[q]
  <2> SUFFICES ASSUME NEW q \in Procs, q # p, NEW v \in VPages
               PROVE  Visible'[q][v] = Visible[q][v]
    BY DEF Visible
  <2>1. CASE Seen(q) /\ v < sz[q]
    <3>1. Mapped(q, v)  BY <2>1, SeenMapped
    <3> QED  BY <1>5, <1>6, <2>1, <3>1 DEF Visible, Seen, SameContents
  <2>2. CASE ~(Seen(q) /\ v < sz[q])
    BY <1>6, <2>2 DEF Visible, Seen
  <2> QED  BY <2>1, <2>2
<1>11. Private!Size(p) = sz[p]
  BY <1>2, SizeFact
<1>12. Visible' = [Visible EXCEPT ![p] = [v \in VPages |->
                    IF v >= end[p] THEN NoPage ELSE IF v < sz[p] THEN Visible[p][v] ELSE Zero]]
  <2>1. Visible' = [q \in Procs |-> Visible'[q]] /\ Visible = [q \in Procs |-> Visible[q]]
        /\ Visible'[p] = [v \in VPages |-> Visible'[p][v]]
    BY DEF Visible
  <2> HIDE DEF Visible
  <2>2. Visible'[p] = [v \in VPages |->
                    IF v >= end[p] THEN NoPage ELSE IF v < sz[p] THEN Visible[p][v] ELSE Zero]
    BY <1>9, <2>1
  <2> QED  BY <1>10, <2>1, <2>2
<1>13. Visible[p] # Private!Empty
  <2>1. 0 \in VPages  BY CowAssumption, PageIntro
  <2>2. Visible[p][0] # NoPage  BY <1>1, <1>2, <2>1, VisiblePages
  <2> QED  BY <2>1, <2>2 DEF Private!Empty, Private!VPages, VPages
<1> QED  BY <1>3, <1>8, <1>11, <1>12, <1>13 DEF Private!Resize, Private!VPages, VPages

-----------------------------------------------------------------------------
(* The steps PrivateMemory does not see.                                   *)

\* The other outcomes of a page that sbrk() adds: it goes on, or fails.
LEMMA GrowingData ==
  ASSUME NEW p \in Procs, IInv, RefCountExact, PInv, TextIsPageZero, DInv,
         pst[p] = "LIVE", pc[p] = "install", op[p] = "grow",
         data' = [data EXCEPT ![pg[p]] = Zero], sz' = sz, pst' = pst, Others(p),
         \/ pte' = pte /\ op'[p] = "growfail"
         \/ /\ pte' = [pte EXCEPT ![p][va[p]] = [pa |-> pg[p], w |-> TRUE, cow |-> FALSE]]
            /\ op'[p] = "grow"
  PROVE  DInv' /\ Visible' = Visible
<1> DEFINE i == va[p]
           e == [pa |-> pg[p], w |-> TRUE, cow |-> FALSE]
<1>1. /\ sz \in [Procs -> 0..MaxPages] /\ i \in 0..MaxPages /\ end[p] \in 0..MaxPages
      /\ data \in [Frames -> Contents] /\ pte \in [Procs -> [VPages -> PTE]]
  BY DEF IInv, TypeOK
<1>2. Seen(p) /\ sz[p] >= 1 /\ sz[p] <= i /\ i < end[p]
  BY DEF Seen, DInv, SizeRule, IInv, CallState
<1>3. i \in VPages
  BY <1>1, <1>2, PageIntro, CowAssumption
<1>4. pg[p] \in Frames /\ \A q \in Procs, v \in VPages : pte[q][v].pa # pg[p]
  BY FreshUnmapped
<1>5. SameContents /\ data'[pg[p]] = Zero
  BY <1>1, <1>4, WriteUnmapped
<1>6. SizeRule' /\ \A q \in Procs : Seen(q)' <=> Seen(q)
  BY DEF DInv, SizeRule, Seen
<1>7. CASE pte' = pte /\ op'[p] = "growfail"
  <2>1. Reach(p)  BY <1>7 DEF Reach
  <2> QED  BY <1>5, <1>6, <1>7, <2>1, Stutter
<1>8. CASE pte' = [pte EXCEPT ![p][i] = e] /\ op'[p] = "grow"
  <2>1. /\ \A q \in Procs : q # p => pte'[q] = pte[q]
        /\ \A v \in VPages : pte'[p][v] = IF v = i THEN e ELSE pte[p][v]
    BY <1>1, <1>3, <1>8
  <2>2. i \notin TextPages  BY <1>1, <1>2 DEF TextIsPageZero
  <2>3. TextRule'  BY <2>1, <2>2 DEF DInv, TextRule
  <2>4. Reach(p)  BY <2>1 DEF Reach
  <2>5. \A q \in Procs, v \in VPages : Mapped(q, v) => data'[pte[q][v].pa] = data[pte[q][v].pa]
    BY <1>5 DEF SameContents
  <2>6. ASSUME NEW v \in VPages, sz'[p] <= v, pte'[p][v].pa # NoFrame
        PROVE  data'[pte'[p][v].pa] = Zero
    <3>1. CASE v = i  BY <1>5, <2>1, <3>1
    <3>2. CASE v # i
      BY <2>1, <2>5, <2>6, <3>2 DEF DInv, ZeroRule, Mapped
    <3> QED  BY <3>1, <3>2
  <2>7. DInv'  BY <1>6, <1>8, <2>3, <2>4, <2>5, <2>6, DataCombine
  <2>8. ASSUME NEW q \in Procs, NEW v \in VPages, Seen(q), v < sz[q]
        PROVE  data'[pte'[q][v].pa] = data[pte[q][v].pa]
    <3>1. Mapped(q, v)  BY <2>8, SeenMapped
    <3>2. ~(q = p /\ v = i)  BY <1>1, <1>2, <2>8
    <3>3. pte'[q][v] = pte[q][v]  BY <2>1, <3>2
    <3> QED  BY <2>5, <2>8, <3>1, <3>3
  <2> QED  BY <1>6, <2>7, <2>8, SameView
<1> QED  BY <1>7, <1>8

LEMMA InstallGrowData ==
  ASSUME NEW p \in Procs, IInv, RefCountExact, PInv, TextIsPageZero, DInv, InstallGrow(p)
  PROVE  DInv' /\ ((Private!Resize(p, end[p]) /\ end[p] \in 1..MaxPages) \/ Visible' = Visible)
<1> DEFINE e == [pa |-> pg[p], w |-> TRUE, cow |-> FALSE]
<1>1. pst[p] = "LIVE" /\ pc[p] = "install" /\ op[p] = "grow" /\ TypeOK
  BY DEF InstallGrow, InKernel, MayRun, IInv
<1>2. CASE /\ data' = [data EXCEPT ![pg[p]] = Zero] /\ pte' = [pte EXCEPT ![p][va[p]] = e]
           /\ pg' = [pg EXCEPT ![p] = NoFrame] /\ va[p] + 1 = end[p]
           /\ sz' = [sz EXCEPT ![p] = end[p]] /\ pc' = [pc EXCEPT ![p] = "user"]
           /\ op' = [op EXCEPT ![p] = "none"] /\ va' = [va EXCEPT ![p] = 0]
           /\ end' = [end EXCEPT ![p] = 0] /\ pst' = pst /\ who' = who
  <2>1. Others(p) /\ op'[p] = "none"  BY <1>1, <1>2 DEF Others, TypeOK
  <2>2. end[p] \in 1..MaxPages
    BY <1>1, <1>2, CowAssumption DEF TypeOK
  <2> QED  BY <1>1, <1>2, <2>1, <2>2, GrownData
<1>3. CASE /\ data' = [data EXCEPT ![pg[p]] = Zero] /\ pte' = [pte EXCEPT ![p][va[p]] = e]
           /\ pg' = [pg EXCEPT ![p] = NoFrame]
           /\ va' = [va EXCEPT ![p] = @ + 1] /\ pc' = [pc EXCEPT ![p] = "kalloc"]
           /\ UNCHANGED <<sz, op, end, pst, who>>
  <2>1. Others(p) /\ op'[p] = "grow"  BY <1>1, <1>3 DEF Others, TypeOK
  <2> QED  BY <1>1, <1>3, <2>1, GrowingData
<1>4. CASE /\ data' = [data EXCEPT ![pg[p]] = Zero] /\ pc' = [pc EXCEPT ![p] = "decref"]
           /\ op' = [op EXCEPT ![p] = "growfail"] /\ end' = [end EXCEPT ![p] = va[p]]
           /\ va' = [va EXCEPT ![p] = sz[p]] /\ UNCHANGED <<sz, pst, pte, who, pg>>
  <2>1. Others(p) /\ op'[p] = "growfail"  BY <1>1, <1>4 DEF Others, TypeOK
  <2> QED  BY <1>1, <1>4, <2>1, GrowingData
<1> QED
  BY <1>2, <1>3, <1>4 DEF InstallGrow, Goto, procVars

\* The copy holds what the page held.
LEMMA InstallCopyData ==
  ASSUME NEW p \in Procs, IInv, RefCountExact, PInv, Tame, TextIsPageZero, DInv, InstallCopy(p)
  PROVE  DInv' /\ Visible' = Visible
<1> DEFINE i == va[p]
           e == [pa |-> pg[p], w |-> TRUE, cow |-> FALSE]
           old == pte[p][i].pa
<1>1. /\ pst[p] = "LIVE" /\ pc[p] = "install" /\ op[p] = "fault" /\ sz' = sz /\ pst' = pst
      /\ data' = [data EXCEPT ![pg[p]] = data[old]] /\ pte' = [pte EXCEPT ![p][i] = e]
      /\ op' = op /\ va' = va /\ Others(p)
  BY DEF InstallCopy, InKernel, MayRun, Goto, Others, IInv, TypeOK, procVars, CallState, Tame
<1>2. /\ data \in [Frames -> Contents] /\ pte \in [Procs -> [VPages -> PTE]]
      /\ i \in Nat /\ sz[p] \in 0..MaxPages
  BY DEF IInv, TypeOK
<1>3. i > 0 /\ i < sz[p] /\ i \in VPages /\ i \notin TextPages
  <2>1. i > 0 /\ i < sz[p]  BY <1>1 DEF DInv, FaultRule, IInv, CallState
  <2> QED  BY <1>2, <2>1, PageIntro, CowAssumption DEF TextIsPageZero
<1>4. pg[p] \in Frames /\ \A q \in Procs, v \in VPages : pte[q][v].pa # pg[p]
  BY <1>1, FreshUnmapped
<1>5. SameContents /\ data'[pg[p]] = data[old]
  BY <1>1, <1>2, <1>4, WriteUnmapped
<1>6. /\ \A q \in Procs : q # p => pte'[q] = pte[q]
      /\ \A v \in VPages : pte'[p][v] = IF v = i THEN e ELSE pte[p][v]
  BY <1>1, <1>2, <1>3
<1>7. DInv'
  <2>1. SizeRule' /\ Reach(p)  BY <1>1, <1>6 DEF DInv, SizeRule, Seen, Reach
  <2>2. TextRule'  BY <1>3, <1>6 DEF DInv, TextRule
  <2>3. \A q \in Procs, v \in VPages : Mapped(q, v) => data'[pte[q][v].pa] = data[pte[q][v].pa]
    BY <1>5 DEF SameContents
  <2> QED  BY <1>1, <1>3, <2>1, <2>2, <2>3, DataCombine
<1>8. ASSUME NEW q \in Procs, NEW v \in VPages, Seen(q), v < sz[q]
      PROVE  data'[pte'[q][v].pa] = data[pte[q][v].pa]
  <2>1. CASE q = p /\ v = i  BY <1>5, <1>6, <2>1
  <2>2. CASE ~(q = p /\ v = i)
    <3>1. Mapped(q, v)  BY <1>8, SeenMapped
    <3>2. pte'[q][v] = pte[q][v]  BY <1>6, <2>2
    <3> QED  BY <1>5, <3>1, <3>2 DEF SameContents
  <2> QED  BY <2>1, <2>2
<1>9. \A q \in Procs : Seen(q)' <=> Seen(q)
  BY <1>1 DEF Seen
<1> QED  BY <1>1, <1>7, <1>8, <1>9, SameView

\* Only pages nobody sees are unmapped: those of a child that is not alive, and
\* those sbrk() has not yet given to p.
LEMMA UnmapData ==
  ASSUME NEW p \in Procs, IInv, NoPagingPanic, PInv, Tame, TextIsPageZero, DInv, Unmap(p)
  PROVE  DInv' /\ Visible' = Visible
<1> DEFINE c == who[p]
           i == va[p]
<1>1. /\ pst[p] = "LIVE" /\ pc[p] = "unmap" /\ i < end[p] /\ sz' = sz /\ pst' = pst
      /\ data' = data /\ pte' = [pte EXCEPT ![c][i] = NoPte] /\ op' = op /\ Others(p)
  BY DEF Unmap, InKernel, MayRun, Goto, Others, IInv, TypeOK, procVars
<1>2. /\ pte \in [Procs -> [VPages -> PTE]] /\ c \in Procs
      /\ i \in Nat /\ end[p] \in 0..MaxPages /\ sz[p] \in 0..MaxPages
      /\ op[p] \in {"none", "fault", "copyout", "grow", "growfail", "shrink",
                    "fork", "forkfail", "reap"}
  BY DEF IInv, TypeOK
<1>3. i \in VPages
  BY <1>1, <1>2, PageIntro, CowAssumption
<1>4. op[p] \in {"growfail", "forkfail", "reap"}
  BY <1>1, <1>2 DEF IInv, CallState, Tame
<1>5. (c = p /\ sz[p] <= i) \/ ~Seen(c)
  BY <1>4 DEF IInv, CallState, Workers, Seen
<1>6. /\ pte'[c][i] = NoPte
      /\ \A q \in Procs, v \in VPages : ~(q = c /\ v = i) => pte'[q][v] = pte[q][v]
      /\ \A q \in Procs : q # c => pte'[q] = pte[q]
  BY <1>1, <1>2, <1>3
<1>7. DInv'
  <2>1. SizeRule' /\ Reach(p)  BY <1>1, <1>6 DEF DInv, SizeRule, Seen, Reach
  <2>2. TextRule'  BY <1>6 DEF DInv, TextRule, NoPte
  <2> QED  BY <1>1, <1>4, <2>1, <2>2, DataCombine
<1>8. ASSUME NEW q \in Procs, NEW v \in VPages, Seen(q), v < sz[q]
      PROVE  pte'[q][v] = pte[q][v]
  <2>1. ~(q = c /\ v = i)  BY <1>2, <1>5, <1>8
  <2> QED  BY <1>6, <2>1
<1>9. \A q \in Procs : Seen(q)' <=> Seen(q)
  BY <1>1 DEF Seen
<1> QED  BY <1>1, <1>7, <1>8, <1>9, SameView

\* uvmcopy() changes flags in the parent's table, and frames in the child's only.
LEMMA CopyPageData ==
  ASSUME NEW p \in Procs, IInv, NoPagingPanic, PInv, TextIsPageZero, DInv, CopyPage(p)
  PROVE  DInv' /\ Visible' = Visible
<1> DEFINE c == who[p]
           i == va[p]
           e == pte[p][i]
<1>1. /\ pst[p] = "LIVE" /\ sz' = sz /\ pst' = pst /\ data' = data /\ op' = op /\ Others(p)
      /\ who' = who /\ va' = [va EXCEPT ![p] = @ + 1]
      /\ pte' = [pte EXCEPT ![p][i] = MarkCow(e), ![c][i] = ChildPte(e)]
  BY DEF CopyPage, InKernel, MayRun, Others, IInv, TypeOK, procVars
<1>2. i \in VPages /\ c \in Procs /\ c # p /\ op[p] = "fork" /\ e \in PTE
  BY CopyFact DEF CopyPage
<1>3. pte \in [Procs -> [VPages -> PTE]] /\ va \in [Procs -> 0..MaxPages]
  BY DEF IInv, TypeOK
<1>4. ~Seen(c)
  BY <1>1, <1>2, Target
<1>5. MarkCow(e).pa = e.pa /\ ChildPte(e).pa = e.pa /\ ~MarkCow(e).w /\ ~ChildPte(e).w
  BY <1>2, FlagFact DEF MarkCow, ChildPte, PTE
<1>6. /\ pte'[p][i] = MarkCow(e) /\ pte'[c][i] = ChildPte(e)
      /\ \A q \in Procs, v \in VPages :
           ~(q = p /\ v = i) /\ ~(q = c /\ v = i) => pte'[q][v] = pte[q][v]
      /\ \A q \in Procs : q # p /\ q # c => pte'[q] = pte[q]
  BY <1>1, <1>2, <1>3
<1>7. DInv'
  <2>1. SizeRule' /\ Reach(p)  BY <1>1, <1>6 DEF DInv, SizeRule, Seen, Reach
  <2>2. TextRule'
    <3> SUFFICES ASSUME NEW q \in Procs, NEW v \in VPages, v \in TextPages PROVE ~pte'[q][v].w
      BY DEF TextRule
    <3>1. CASE v = i /\ (q = p \/ q = c)  BY <1>5, <1>6, <3>1
    <3>2. CASE ~(v = i /\ (q = p \/ q = c))
      BY <1>6, <3>2 DEF DInv, TextRule
    <3> QED  BY <3>1, <3>2
  <2>3. ASSUME NEW v \in VPages, v < va'[p] PROVE pte'[c][v].pa = pte'[p][v].pa
    <3>1. va'[p] = i + 1 /\ v \in Nat /\ i \in Nat  BY <1>1, <1>2, <1>3, PageFact
    <3>2. CASE v = i  BY <1>5, <1>6, <3>2
    <3>3. CASE v # i
      <4>1. v < i  BY <2>3, <3>1, <3>3
      <4> QED  BY <1>2, <1>6, <3>3, <4>1 DEF DInv, CopyRule
    <3> QED  BY <3>2, <3>3
  <2> QED  BY <1>1, <1>2, <2>1, <2>2, <2>3, DataCombine
<1>8. ASSUME NEW q \in Procs, NEW v \in VPages, Seen(q)
      PROVE  pte'[q][v].pa = pte[q][v].pa
  <2>1. CASE q = p /\ v = i  BY <1>5, <1>6, <2>1
  <2>2. CASE ~(q = p /\ v = i)  BY <1>4, <1>6, <1>8, <2>2
  <2> QED  BY <2>1, <2>2
<1>9. \A q \in Procs : Seen(q)' <=> Seen(q)
  BY <1>1 DEF Seen
<1> QED  BY <1>1, <1>7, <1>8, <1>9, SameView

LEMMA CopyPageFailsData ==
  ASSUME NEW p \in Procs, IInv, NoPagingPanic, PInv, TextIsPageZero, DInv, CopyPageFails(p)
  PROVE  DInv' /\ Visible' = Visible
<1> DEFINE i == va[p]
           e == pte[p][i]
<1>1. /\ pst[p] = "LIVE" /\ sz' = sz /\ pst' = pst /\ data' = data
      /\ Enter(p, "unmap", "forkfail", who[p], 0, i)
      /\ pte' = [pte EXCEPT ![p][i] = MarkCow(e)]
  BY DEF CopyPageFails, InKernel, MayRun, memVars, procVars
<1>2. i \in VPages /\ e \in PTE
  BY CopyFact DEF CopyPageFails
<1>3. Others(p) /\ op'[p] = "forkfail"
  BY <1>1, EnterFact DEF Call, IInv
<1>4. pte \in [Procs -> [VPages -> PTE]]
  BY DEF IInv, TypeOK
<1>5. MarkCow(e).pa = e.pa /\ ~MarkCow(e).w
  BY <1>2, FlagFact DEF MarkCow, PTE
<1>6. /\ \A q \in Procs : q # p => pte'[q] = pte[q]
      /\ \A q \in Procs, v \in VPages : pte'[q][v].pa = pte[q][v].pa
      /\ \A q \in Procs, v \in VPages : pte'[q][v].w => pte[q][v].w
  BY <1>1, <1>2, <1>4, <1>5
<1>7. SizeRule' /\ TextRule' /\ Reach(p) /\ \A q \in Procs : Seen(q)' <=> Seen(q)
  BY <1>1, <1>6 DEF DInv, SizeRule, TextRule, Seen, Reach
<1>8. DInv'
  BY <1>1, <1>3, <1>7, DataCombine
<1> QED  BY <1>1, <1>6, <1>7, <1>8, SameView

LEMMA KallocPopData ==
  ASSUME NEW p \in Procs, IInv, RefCountExact, PInv, DInv, KallocPop(p)
  PROVE  DInv' /\ Visible' = Visible
<1>1. /\ pst[p] = "LIVE" /\ Others(p) /\ freelist # <<>>
      /\ data' = [data EXCEPT ![Head(freelist)] = Junk]
      /\ UNCHANGED <<pte, pst, sz, op, va, who>>
  BY DEF KallocPop, InKernel, MayRun, Goto, Others, IInv, TypeOK, procVars
<1>2. Head(freelist) \in Frames /\ refCount[Head(freelist)] = 0
  <2>1. 1 \in 1..Len(freelist) /\ freelist[1] = Head(freelist) /\ Head(freelist) \in Frames
    BY <1>1 DEF IInv, TypeOK
  <2> QED  BY <2>1 DEF PInv, FreeUnreferenced
<1>3. SameContents
  BY <1>1, <1>2, SpareUnmapped, WriteUnmapped
<1> QED  BY <1>1, <1>3, KeepData

LEMMA AfterKfreeData ==
  ASSUME NEW p \in Procs, IInv, PInv, Tame, DInv, pst[p] = "LIVE", AfterKfree(p), SameContents,
         pte' = pte, pst' = pst, sz' = sz
  PROVE  DInv' /\ Visible' = Visible
<1>1. op[p] # "copyout" /\ TypeOK
  BY DEF Tame, IInv
<1>2. Reach(p) /\ \A q \in Procs : Seen(q)' <=> Seen(q)
  BY DEF Reach, Seen
<1>3. CASE Return(p)
  BY <1>2, <1>3, ReturnData
<1>4. CASE Goto(p, "unmap") /\ pg' = [pg EXCEPT ![p] = NoFrame] /\ UNCHANGED <<op, who, va, end>>
  <2>1. Others(p)  BY <1>1, <1>4 DEF Goto, Others, TypeOK
  <2> QED  BY <1>4, <2>1, KeepData
<1> QED  BY <1>1, <1>3, <1>4 DEF AfterKfree

LEMMA KfreePushData ==
  ASSUME NEW p \in Procs, IInv, RefCountExact, PInv, Tame, DInv, KfreePush(p)
  PROVE  DInv' /\ Visible' = Visible
<1>1. /\ pst[p] = "LIVE" /\ pc[p] = "push" /\ AfterKfree(p) /\ UNCHANGED <<pte, pst, sz>>
      /\ data' = [data EXCEPT ![pg[p]] = Junk]
  BY DEF KfreePush, InKernel, MayRun, procVars
<1>2. pg[p] \in Frames /\ refCount[pg[p]] = 0
  BY <1>1 DEF IInv, CallState, InHand, PInv, Local, SpareRule, Spare
<1>3. SameContents
  BY <1>1, <1>2, SpareUnmapped, WriteUnmapped
<1> QED  BY <1>1, <1>3, AfterKfreeData

LEMMA UnmapDoneData ==
  ASSUME NEW p \in Procs, IInv, PInv, DInv, UnmapDone(p)
  PROVE  DInv' /\ Visible' = Visible
<1> DEFINE c == who[p]
<1>1. pst[p] = "LIVE" /\ pc[p] = "unmap" /\ Return(p) /\ data' = data /\ pte' = pte
  BY DEF UnmapDone, InKernel, MayRun, memVars
<1>2. /\ pst \in [Procs -> {"UNUSED", "USED", "LIVE", "ZOMBIE", "PANIC"}]
      /\ sz \in [Procs -> 0..MaxPages]
  BY DEF IInv, TypeOK
<1>3. CASE op[p] \notin {"reap", "forkfail"}
  <2>1. pst' = pst /\ sz' = sz  BY <1>3 DEF UnmapDone, procVars
  <2>2. Reach(p) /\ \A q \in Procs : Seen(q)' <=> Seen(q)  BY <1>1, <2>1 DEF Reach, Seen
  <2> QED  BY <1>1, <2>1, <2>2, SameData, ReturnData
<1>4. CASE op[p] \in {"reap", "forkfail"}
  <2>1. pst' = [pst EXCEPT ![c] = "UNUSED"] /\ sz' = [sz EXCEPT ![c] = 0]
    BY <1>4 DEF UnmapDone
  <2>2. ~Seen(c)  BY <1>4 DEF IInv, Workers, Seen
  <2>3. \A q \in Procs : Seen(q)' <=> Seen(q)  BY <1>2, <2>1, <2>2 DEF Seen
  <2>4. \A q \in Procs : q # c => sz'[q] = sz[q]  BY <1>2, <2>1
  <2>5. Reach(p)  BY <1>1, <2>4 DEF Reach
  <2>6. \A q \in Procs : Seen(q) => sz'[q] = sz[q]  BY <2>2, <2>4
  <2> QED  BY <1>1, <2>3, <2>5, <2>6, SameData, ReturnData
<1> QED  BY <1>3, <1>4

LEMMA KallocFailsData ==
  ASSUME NEW p \in Procs, IInv, PInv, Tame, DInv, KallocFails(p)
  PROVE  DInv' /\ ((p # InitProc /\ Private!Exit(p)) \/ Visible' = Visible)
<1>1. pst[p] = "LIVE"
  BY DEF KallocFails, InKernel, MayRun
<1>2. CASE p # InitProc /\ ExitEffect(p)
  BY <1>1, <1>2, ExitData
<1>3. CASE /\ pst' = [pst EXCEPT ![p] = "PANIC"]
           /\ UNCHANGED <<data, sz, pte, pc, op, who, va, end, pg>>
  <2>1. \A q \in Procs : Seen(q)' <=> Seen(q)  BY <1>1, <1>3 DEF Seen, IInv, TypeOK
  <2>2. Others(p) /\ Reach(p) /\ SameContents  BY <1>3, SameData DEF Others, Reach
  <2> QED  BY <1>1, <1>3, <2>1, <2>2, Stutter
<1>4. op[p] # "copyout"
  BY DEF Tame
<1>5. CASE Enter(p, "unmap", "growfail", p, sz[p], va[p]) /\ UNCHANGED <<data, sz, pte, pst>>
  <2>1. \A q \in Procs : Seen(q)' <=> Seen(q)  BY <1>5 DEF Seen
  <2> QED  BY <1>1, <1>5, <2>1, EnterData
<1> QED
  BY <1>2, <1>3, <1>4, <1>5 DEF KallocFails, memVars, procVars, callVars

-----------------------------------------------------------------------------
(* The refinement.                                                         *)

LEMMA StepPrivateMemory ==
  ASSUME OneHartSafe, TextIsPageZero, IInv, NoPagingPanic, RefCountExact, PInv, Tame, DInv,
         [Next]_vars
  PROVE  DInv' /\ [Private!Next]_Visible
<1>0. "copyout" \notin Calls /\ "copyoutText" \notin Calls /\ "shrink" \notin Calls
  BY DEF OneHartSafe
<1>1. CASE UNCHANGED vars
  BY <1>1 DEF vars, DInv, SizeRule, FaultRule, TextRule, CopyRule, ZeroRule, Seen, Mapped,
              Visible
<1>2. ASSUME NEW p \in Procs, Step(p) PROVE DInv' /\ [Private!Next]_Visible
  <2>0. pst[p] = "LIVE" /\ TypeOK
    BY <1>2 DEF Step, Store, StoreFault, StoreKilled, Copyout, CopyoutWrite, KallocPop,
                KallocIncref, KallocFails, InstallCopy, InstallGrow, KfreeDecref, KfreeShared,
                KfreeLast, KfreePush, Unmap, UnmapDone, Fork, Wait, CopyPage, CopyPageFails,
                ForkDone, Exit, Grow, Shrink, InUser, InKernel, MayRun, IInv
  <2>1. ASSUME NEW v \in VPages, NEW x \in Values, Store(p, v, x)
        PROVE  DInv' /\ Private!Next
    BY <2>1, StoreData DEF Private!Next, Private!VPages, VPages
  <2>2. ASSUME NEW v \in VPages, StoreFault(p, v) PROVE DInv' /\ Visible' = Visible
    <3>1. /\ Enter(p, "kalloc", "fault", p, v, v) /\ v > 0
          /\ data' = data /\ pte' = pte /\ sz' = sz /\ pst' = pst
      BY <2>2 DEF StoreFault, CowFault, memVars, procVars
    <3>2. \A q \in Procs : Seen(q)' <=> Seen(q)  BY <3>1 DEF Seen
    <3> QED  BY <2>0, <3>1, <3>2, EnterData
  <2>3. ASSUME ExitEffect(p), p # InitProc PROVE DInv' /\ Private!Next
    BY <2>0, <2>3, ExitData DEF Private!Next
  <2>4. \A v \in VPages : ~Copyout(p, v)
    BY <1>0 DEF Copyout, InUser
  <2>5. \A x \in Values : ~CopyoutWrite(p, x)
    BY DEF CopyoutWrite, InKernel, IInv, CallState, Tame
  <2>6. CASE KallocPop(p)  BY <2>6, KallocPopData
  <2>7. CASE KallocIncref(p) \/ KfreeDecref(p) \/ KfreeLast(p)
    <3>1. Others(p) /\ UNCHANGED <<data, pte, pst, sz, op, va, who>>
      BY <2>0, <2>7 DEF KallocIncref, KfreeDecref, KfreeLast, Goto, Others, TypeOK, memVars,
                        procVars
    <3>2. DInv' /\ Visible' = Visible  BY <2>0, <3>1, SameData, KeepData
    <3> QED  BY <3>2
  <2>8. CASE KallocFails(p)
    <3>1. DInv' /\ ((p # InitProc /\ Private!Exit(p)) \/ Visible' = Visible)
      BY <2>8, KallocFailsData
    <3> QED  BY <3>1 DEF Private!Next
  <2>9. CASE InstallCopy(p)  BY <2>9, InstallCopyData
  <2>10. CASE InstallGrow(p)
    <3>1. DInv' /\ ((Private!Resize(p, end[p]) /\ end[p] \in 1..MaxPages) \/ Visible' = Visible)
      BY <2>10, InstallGrowData
    <3> QED  BY <3>1 DEF Private!Next
  <2>11. CASE KfreeShared(p)
    <3>1. AfterKfree(p) /\ data' = data /\ UNCHANGED <<pte, pst, sz>>
      BY <2>11 DEF KfreeShared, memVars, procVars
    <3>2. DInv' /\ Visible' = Visible  BY <2>0, <3>1, SameData, AfterKfreeData
    <3> QED  BY <3>2
  <2>12. CASE KfreePush(p)  BY <2>12, KfreePushData
  <2>13. CASE Unmap(p)  BY <2>13, UnmapData
  <2>14. CASE UnmapDone(p)  BY <2>14, UnmapDoneData
  <2>15. ASSUME NEW c \in Procs, Fork(p, c) PROVE DInv' /\ Visible' = Visible
    <3>1. /\ Enter(p, "copy", "fork", c, 0, sz[p]) /\ data' = data /\ pte' = pte /\ sz' = sz
          /\ pst[c] = "UNUSED" /\ pst' = [pst EXCEPT ![c] = "USED"]
      BY <2>15 DEF Fork, memVars
    <3>2. \A q \in Procs : Seen(q)' <=> Seen(q)  BY <2>0, <3>1 DEF Seen, TypeOK
    <3> QED  BY <2>0, <3>1, <3>2, EnterData
  <2>16. ASSUME NEW c \in Procs, Wait(p, c) PROVE DInv' /\ Visible' = Visible
    <3>1. /\ Enter(p, "unmap", "reap", c, 0, sz[c])
          /\ data' = data /\ pte' = pte /\ sz' = sz /\ pst' = pst
      BY <2>16 DEF Wait, memVars, procVars
    <3>2. \A q \in Procs : Seen(q)' <=> Seen(q)  BY <3>1 DEF Seen
    <3> QED  BY <2>0, <3>1, <3>2, EnterData
  <2>17. CASE CopyPage(p)  BY <2>17, CopyPageData
  <2>18. CASE CopyPageFails(p)  BY <2>18, CopyPageFailsData
  <2>19. CASE ForkDone(p)
    <3>1. who[p] \in Procs  BY <2>0 DEF TypeOK
    <3>2. DInv' /\ Private!Fork(p, who[p])  BY <2>19, ForkDoneData
    <3> QED  BY <3>1, <3>2 DEF Private!Next
  <2>20. ASSUME NEW n \in 0..MaxPages, Grow(p, n) PROVE DInv' /\ Visible' = Visible
    <3>1. /\ Enter(p, "kalloc", "grow", p, sz[p], n) /\ pc[p] = "user"
          /\ data' = data /\ pte' = pte /\ sz' = sz /\ pst' = pst
      BY <2>20 DEF Grow, InUser, memVars, procVars
    <3>2. op[p] = "none"  BY <3>1 DEF IInv, CallState
    <3>3. \A q \in Procs : Seen(q)' <=> Seen(q)  BY <3>1 DEF Seen
    <3> QED  BY <2>0, <3>1, <3>2, <3>3, EnterData
  <2>21. \A n \in 0..MaxPages : ~Shrink(p, n)
    BY <1>0 DEF Shrink, InUser
  <2>22. (\E v \in VPages : StoreKilled(p, v)) \/ Exit(p) => ExitEffect(p) /\ p # InitProc
    BY DEF StoreKilled, Exit
  <2> QED  BY <1>2, <2>1, <2>2, <2>3, <2>4, <2>5, <2>6, <2>7, <2>8, <2>9, <2>10, <2>11,
              <2>12, <2>13, <2>14, <2>15, <2>16, <2>17, <2>18, <2>19, <2>20, <2>21, <2>22
           DEF Step
<1> QED  BY <1>1, <1>2 DEF Next

LEMMA InitPrivateMemory == ASSUME TextIsPageZero PROVE Init => DInv /\ Private!Init
<1> SUFFICES ASSUME Init PROVE DInv /\ Private!Init
  OBVIOUS
<1>1. InitSize \in 1..MaxPages /\ InitSize <= NumFrames /\ InitProc \in Procs
      /\ MaxPages \in Nat /\ NumFrames \in Nat
  BY CowAssumption
<1>2. \A q \in Procs : Seen(q) => q = InitProc
  BY DEF Init, Seen
<1>3. DInv
  <2>1. SizeRule  BY <1>1, <1>2 DEF Init, SizeRule
  <2>2. FaultRule /\ CopyRule /\ ZeroRule  BY DEF Init, FaultRule, CopyRule, ZeroRule
  <2>3. TextRule  BY DEF Init, TextRule, NoPte
  <2> QED  BY <2>1, <2>2, <2>3 DEF DInv
<1>4. ASSUME NEW q \in Procs, NEW v \in VPages
      PROVE  Visible[q][v] = IF q = InitProc /\ v < InitSize THEN Zero ELSE NoPage
  <2>1. CASE q = InitProc /\ v < InitSize
    <3>1. v + 1 \in Frames /\ v + 1 <= InitSize
      BY <1>1, <2>1, PageFact DEF Frames
    <3>2. pte[q][v].pa = v + 1  BY <2>1 DEF Init
    <3>3. data[v + 1] = Zero  BY <3>1 DEF Init
    <3>4. pst[q] = "LIVE" /\ sz[q] = InitSize  BY <2>1 DEF Init
    <3> QED  BY <2>1, <3>2, <3>3, <3>4 DEF Visible
  <2>2. CASE ~(q = InitProc /\ v < InitSize)
    <3>1. ~(Seen(q) /\ v < sz[q])  BY <1>1, <1>2, <2>2 DEF Init
    <3> QED  BY <2>2, <3>1 DEF Visible, Seen
  <2> QED  BY <2>1, <2>2
<1>5. Visible = [q \in Procs |-> [v \in VPages |-> Visible[q][v]]]
  BY DEF Visible
<1> HIDE DEF Visible
<1>6. Private!Init
  BY <1>4, <1>5 DEF Private!Init, Private!Empty, Private!VPages, VPages
<1> QED  BY <1>3, <1>6

\* On one hart, with text on page 0 only and without shrinking sbrk() and system
\* calls that write user memory, nobody can tell that fork() shares pages: for any
\* number of processes, frames and pages every behaviour is one of PrivateMemory,
\* also when frames run out, mappages() fails or a process is killed half-way.
THEOREM SharingInvisible == ASSUME OneHartSafe, TextIsPageZero PROVE Spec => Isolation
<1>1. IInv /\ NoPagingPanic /\ RefCountExact /\ PInv /\ Tame /\ DInv /\ [Next]_vars
      => DInv' /\ [Private!Next]_Visible
  BY StepPrivateMemory
<1>2. Init => DInv /\ Private!Init
  BY InitPrivateMemory
<1> QED
  BY <1>1, <1>2, Inductive, PanicFree, CountsExact, OneHartInvariant, PTL
     DEF Spec, Isolation, Private!Spec
=============================================================================
