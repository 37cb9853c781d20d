----------------------------- MODULE CowMemory -----------------------------
(***************************************************************************)
(* Copy-on-write fork of src/cow_xv6: the physical page allocator with its *)
(* reference counts (kalloc.c), the page-table operations that share,      *)
(* copy, add and remove user pages (vm.c), the store page fault (trap.c)   *)
(* and the process operations that call them (proc.c).                     *)
(*                                                                         *)
(* A process that runs kernel code advances one lock-protected section at  *)
(* a time: kfree() is three steps because decref(), ref_count_returner()   *)
(* and the push on the free list take and release their locks separately.  *)
(*                                                                         *)
(* The page tables of an embryonic child, of a zombie and of a process     *)
(* inside its own system call are read by nobody else, so the write of     *)
(* such a PTE is merged with the neighbouring step on a shared structure.  *)
(* Page-table pages, trapframes and pipe buffers also come out of          *)
(* kalloc(); they never have a second user and are left out, except that   *)
(* mappages() may fail at any moment for want of a page-table page.        *)
(***************************************************************************)
EXTENDS Integers, FiniteSets, Sequences

CONSTANTS
  Procs,      \* the slots of the process table
  InitProc,   \* the first process, which never exits
  NumFrames,  \* physical pages between end and PHYSTOP
  MaxPages,   \* largest size of a user address space, in pages
  InitSize,   \* size of the first process' image, in pages
  TextPages,  \* pages the program image maps without PTE_W
  Values,     \* contents a program stores in a page
  Zero, Junk, \* contents left by memset(mem, 0), and by the junk fills
  CPUS,       \* number of harts (Makefile: CPUS := 3)
  Calls       \* what the user programs do, a subset of AllCalls

AllCalls == {"store", "fork", "exit", "wait", "grow", "shrink",
             "copyout", "copyoutText"}

ASSUME CowAssumption ==
  /\ IsFiniteSet(Procs) /\ InitProc \in Procs
  /\ NumFrames \in Nat /\ MaxPages \in Nat /\ InitSize \in 1..MaxPages
  /\ InitSize <= NumFrames
  /\ TextPages \subseteq 0..(MaxPages - 1)
  /\ CPUS \in Nat \ {0}
  /\ Calls \subseteq AllCalls

Frames   == 1..NumFrames
NoFrame  == 0
VPages   == 0..(MaxPages - 1)
Contents == Values \cup {Zero, Junk}

\* A page-table entry: the frame it names (NoFrame: PTE_V clear), PTE_W, PTE_COW.
PTE   == [pa: Frames \cup {NoFrame}, w: BOOLEAN, cow: BOOLEAN]
NoPte == [pa |-> NoFrame, w |-> FALSE, cow |-> FALSE]

VARIABLES
  refCount,  \* ref_count[], per frame
  freelist,  \* kmem.freelist, head first
  data,      \* contents of each frame
  pst,       \* p->state of each slot (RUNNABLE, RUNNING and SLEEPING are "LIVE")
  parent,    \* p->parent
  sz,        \* p->sz in pages
  pte,       \* p->pagetable: the leaf entries
  pc,        \* where the process stands in the kernel, "user" outside it
  op,        \* the kernel operation it is in, "none" outside the kernel
  who,       \* the process whose page table the operation works on
  va,        \* the operation's current page
  end,       \* the first page the operation does not reach
  pg         \* the frame in the operation's hand

memVars  == <<refCount, freelist, data>>
procVars == <<pst, parent, sz>>
callVars == <<pc, op, who, va, end, pg>>
vars     == <<refCount, freelist, data, pst, parent, sz, pte,
              pc, op, who, va, end, pg>>

-----------------------------------------------------------------------------
Mapped(p, v) == pte[p][v].pa # NoFrame

\* Interrupts are off from trap entry to return on a store fault, and fork()
\* and wait() hold a p->lock across uvmcopy() and freeproc(). growproc() and
\* copyout() run with interrupts on.
IntrOff(p) == op[p] \in {"fault", "fork", "forkfail", "reap"}

\* A process inside an interrupts-off section keeps its hart; any other may
\* be preempted between two steps. An exit of the first process is a panic.
MayRun(p) ==
  /\ pst[p] = "LIVE"
  /\ pst[InitProc] = "LIVE"
  /\ Cardinality({q \in Procs \ {p} : IntrOff(q)}) < CPUS

InUser(p, call) == MayRun(p) /\ pc[p] = "user" /\ call \in Calls
InKernel(p, label) == MayRun(p) /\ pc[p] = label

Goto(p, label) == pc' = [pc EXCEPT ![p] = label]

Return(p) ==
  /\ pc' = [pc EXCEPT ![p] = "user"]
  /\ op' = [op EXCEPT ![p] = "none"]
  /\ who' = [who EXCEPT ![p] = p]
  /\ va' = [va EXCEPT ![p] = 0]
  /\ end' = [end EXCEPT ![p] = 0]
  /\ pg' = [pg EXCEPT ![p] = NoFrame]

Enter(p, label, o, w, first, last) ==
  /\ pc' = [pc EXCEPT ![p] = label]
  /\ op' = [op EXCEPT ![p] = o]
  /\ who' = [who EXCEPT ![p] = w]
  /\ va' = [va EXCEPT ![p] = first]
  /\ end' = [end EXCEPT ![p] = last]
  /\ UNCHANGED pg

\* exit(): the children go to the first process, the page table stays until
\* the parent's wait(). exit() of the first process is panic("init exiting").
ExitEffect(p) ==
  /\ pst' = [pst EXCEPT ![p] = "ZOMBIE"]
  /\ parent' = [q \in Procs |-> IF parent[q] = p THEN InitProc ELSE parent[q]]
  /\ Return(p)
  /\ UNCHANGED <<refCount, freelist, data, sz, pte>>

Init ==
  /\ refCount = [f \in Frames |-> IF f <= InitSize THEN 1 ELSE 0]
  /\ freelist = [i \in 1..(NumFrames - InitSize) |-> InitSize + i]
  /\ data = [f \in Frames |-> IF f <= InitSize THEN Zero ELSE Junk]
  /\ pst = [p \in Procs |-> IF p = InitProc THEN "LIVE" ELSE "UNUSED"]
  /\ parent = [p \in Procs |-> InitProc]
  /\ sz = [p \in Procs |-> IF p = InitProc THEN InitSize ELSE 0]
  /\ pte = [p \in Procs |-> [v \in VPages |->
              IF p = InitProc /\ v < InitSize
              THEN [pa |-> v + 1, w |-> v \notin TextPages, cow |-> FALSE]
              ELSE NoPte]]
  /\ pc = [p \in Procs |-> "user"]
  /\ op = [p \in Procs |-> "none"]
  /\ who = [p \in Procs |-> p]
  /\ va = [p \in Procs |-> 0]
  /\ end = [p \in Procs |-> 0]
  /\ pg = [p \in Procs |-> NoFrame]

-----------------------------------------------------------------------------
(* User mode: stores, and the entry of the store fault in usertrap().      *)

\* A store to a page mapped writable.
Store(p, v, x) ==
  /\ InUser(p, "store")
  /\ v < sz[p] /\ Mapped(p, v) /\ pte[p][v].w
  /\ data' = [data EXCEPT ![pte[p][v].pa] = x]
  /\ UNCHANGED <<refCount, freelist, procVars, pte, callVars>>

\* handle_page_fault() serves a fault above page 0 on a present, read-only
\* PTE marked PTE_COW.
CowFault(p, v) ==
  /\ v > 0
  /\ Mapped(p, v) /\ pte[p][v].cow /\ ~pte[p][v].w

StoreFault(p, v) ==
  /\ InUser(p, "store")
  /\ v < sz[p] /\ CowFault(p, v)
  /\ Enter(p, "kalloc", "fault", p, v, v)
  /\ UNCHANGED <<memVars, procVars, pte>>

\* Every other store fault: usertrap() sets p->killed and calls exit(-1).
StoreKilled(p, v) ==
  /\ InUser(p, "store")
  /\ p # InitProc
  /\ ~CowFault(p, v) /\ ~(Mapped(p, v) /\ pte[p][v].w)
  /\ ExitEffect(p)

\* copyout(): a COW page goes through handle_page_fault() first; the write is
\* made through walkaddr() without a look at PTE_W. A failure returns -1.
Copyout(p, v) ==
  /\ InUser(p, IF v \in TextPages THEN "copyoutText" ELSE "copyout")
  /\ v < sz[p] /\ Mapped(p, v)
  /\ pte[p][v].cow => CowFault(p, v)
  /\ Enter(p, IF pte[p][v].cow THEN "kalloc" ELSE "write", "copyout", p, v, v)
  /\ UNCHANGED <<memVars, procVars, pte>>

CopyoutWrite(p, x) ==
  /\ InKernel(p, "write")
  /\ data' = [data EXCEPT ![pte[p][va[p]].pa] = x]
  /\ Return(p)
  /\ UNCHANGED <<refCount, freelist, procVars, pte>>

-----------------------------------------------------------------------------
(* kalloc(), called by handle_page_fault() and by uvmalloc().              *)

KallocPop(p) ==
  /\ InKernel(p, "kalloc")
  /\ freelist # <<>>
  /\ freelist' = Tail(freelist)
  /\ pg' = [pg EXCEPT ![p] = Head(freelist)]
  /\ data' = [data EXCEPT ![Head(freelist)] = Junk]
  /\ Goto(p, "newref")
  /\ UNCHANGED <<refCount, procVars, pte, op, who, va, end>>

KallocIncref(p) ==
  /\ InKernel(p, "newref")
  /\ refCount' = [refCount EXCEPT ![pg[p]] = @ + 1]
  /\ Goto(p, "install")
  /\ UNCHANGED <<freelist, data, procVars, pte, op, who, va, end, pg>>

\* No free page: the fault kills the process, copyout() returns -1, uvmalloc()
\* unmaps what it had added.
KallocFails(p) ==
  /\ InKernel(p, "kalloc")
  /\ freelist = <<>>
  /\ \/ op[p] = "fault" /\ p # InitProc /\ ExitEffect(p)
     \/ op[p] = "fault" /\ p = InitProc   \* panic("init exiting")
        /\ pst' = [pst EXCEPT ![p] = "PANIC"]
        /\ UNCHANGED <<memVars, parent, sz, pte, callVars>>
     \/ op[p] = "copyout" /\ Return(p) /\ UNCHANGED <<memVars, procVars, pte>>
     \/ op[p] = "grow"
        /\ Enter(p, "unmap", "growfail", p, sz[p], va[p])
        /\ UNCHANGED <<memVars, procVars, pte>>

-----------------------------------------------------------------------------
(* handle_page_fault() after kalloc(): copy, switch the PTE, kfree(old).   *)

\* Bug variant: the memmove() of the old contents is forgotten.
InstallNoCopy(p) ==
  /\ InKernel(p, "install") /\ op[p] \in {"fault", "copyout"}
  /\ pte' = [pte EXCEPT ![p][va[p]] = [pa |-> pg[p], w |-> TRUE, cow |-> FALSE]]
  /\ pg' = [pg EXCEPT ![p] = pte[p][va[p]].pa]
  /\ Goto(p, "decref")
  /\ UNCHANGED <<memVars, procVars, op, who, va, end>>

InstallCopy(p) ==
  /\ InKernel(p, "install") /\ op[p] \in {"fault", "copyout"}
  /\ LET old == pte[p][va[p]].pa IN
       /\ data' = [data EXCEPT ![pg[p]] = data[old]]
       /\ pte' = [pte EXCEPT ![p][va[p]] = [pa |-> pg[p], w |-> TRUE, cow |-> FALSE]]
       /\ pg' = [pg EXCEPT ![p] = old]
  /\ Goto(p, "decref")
  /\ UNCHANGED <<refCount, freelist, procVars, op, who, va, end>>

\* uvmalloc(): the zeroed page is mapped at the next address, or mappages()
\* fails and the page is freed together with the ones mapped before it.
InstallGrow(p) ==
  /\ InKernel(p, "install") /\ op[p] = "grow"
  /\ \/ /\ data' = [data EXCEPT ![pg[p]] = Zero]
        /\ pte' = [pte EXCEPT ![p][va[p]] = [pa |-> pg[p], w |-> TRUE, cow |-> FALSE]]
        /\ pg' = [pg EXCEPT ![p] = NoFrame]
        /\ IF va[p] + 1 = end[p]
           THEN /\ sz' = [sz EXCEPT ![p] = end[p]]
                /\ pc' = [pc EXCEPT ![p] = "user"]
                /\ op' = [op EXCEPT ![p] = "none"]
                /\ va' = [va EXCEPT ![p] = 0]
                /\ end' = [end EXCEPT ![p] = 0]
           ELSE /\ va' = [va EXCEPT ![p] = @ + 1]
                /\ Goto(p, "kalloc")
                /\ UNCHANGED <<sz, op, end>>
        /\ UNCHANGED <<refCount, freelist, pst, parent, who>>
     \/ /\ data' = [data EXCEPT ![pg[p]] = Zero]
        /\ Goto(p, "decref")
        /\ op' = [op EXCEPT ![p] = "growfail"]
        /\ end' = [end EXCEPT ![p] = va[p]]
        /\ va' = [va EXCEPT ![p] = sz[p]]
        /\ UNCHANGED <<refCount, freelist, procVars, pte, who, pg>>

-----------------------------------------------------------------------------
(* kfree(): decref(), then ref_count_returner(), then the free list.       *)

KfreeDecref(p) ==
  /\ InKernel(p, "decref")
  /\ refCount' = [refCount EXCEPT ![pg[p]] = @ - 1]
  /\ Goto(p, "count")
  /\ UNCHANGED <<freelist, data, procVars, pte, op, who, va, end, pg>>

\* Where kfree() returns to: handle_page_fault() ends there (copyout() goes on
\* to write), uvmunmap() takes its next page.
AfterKfree(p) ==
  \/ op[p] = "fault" /\ Return(p)
  \/ /\ op[p] = "copyout" /\ Goto(p, "write")
     /\ pg' = [pg EXCEPT ![p] = NoFrame]
     /\ UNCHANGED <<op, who, va, end>>
  \/ /\ op[p] \notin {"fault", "copyout"} /\ Goto(p, "unmap")
     /\ pg' = [pg EXCEPT ![p] = NoFrame]
     /\ UNCHANGED <<op, who, va, end>>

\* Bug variant: kfree() returns at count 0.
KfreeSharedAtZero(p) ==
  /\ InKernel(p, "count") /\ refCount[pg[p]] >= 0
  /\ AfterKfree(p)
  /\ UNCHANGED <<memVars, procVars, pte>>

\* ref_count_returner() > 0: other users remain and kfree() returns.
KfreeShared(p) ==
  /\ InKernel(p, "count")
  /\ refCount[pg[p]] > 0
  /\ AfterKfree(p)
  /\ UNCHANGED <<memVars, procVars, pte>>

\* Bug variant: a page with one other user is freed.
KfreeLastAtOne(p) ==
  /\ InKernel(p, "count")
  /\ refCount[pg[p]] <= 1
  /\ Goto(p, "push")
  /\ UNCHANGED <<memVars, procVars, pte, op, who, va, end, pg>>

KfreeLast(p) ==
  /\ InKernel(p, "count")
  /\ refCount[pg[p]] <= 0
  /\ Goto(p, "push")
  /\ UNCHANGED <<memVars, procVars, pte, op, who, va, end, pg>>

KfreePush(p) ==
  /\ InKernel(p, "push")
  /\ data' = [data EXCEPT ![pg[p]] = Junk]
  /\ freelist' = <<pg[p]>> \o freelist
  /\ AfterKfree(p)
  /\ UNCHANGED <<refCount, procVars, pte>>

-----------------------------------------------------------------------------
(* uvmunmap(table of who[p], va[p] .. end[p] - 1, do_free = 1).            *)

\* kfree(pa)'s decref() and *pte = 0 of the next page.
Unmap(p) ==
  /\ InKernel(p, "unmap") /\ va[p] < end[p]
  /\ LET f == pte[who[p]][va[p]].pa IN
       /\ refCount' = [refCount EXCEPT ![f] = @ - 1]
       /\ pg' = [pg EXCEPT ![p] = f]
  /\ pte' = [pte EXCEPT ![who[p]][va[p]] = NoPte]
  /\ va' = [va EXCEPT ![p] = @ + 1]
  /\ Goto(p, "count")
  /\ UNCHANGED <<freelist, data, procVars, op, who, end>>

\* The end of the loop. freeproc() makes the slot of a reaped child, or of a
\* child whose uvmcopy() failed, UNUSED again.
UnmapDone(p) ==
  /\ InKernel(p, "unmap") /\ va[p] >= end[p]
  /\ IF op[p] \in {"reap", "forkfail"}
     THEN /\ pst' = [pst EXCEPT ![who[p]] = "UNUSED"]
          /\ sz' = [sz EXCEPT ![who[p]] = 0]
          /\ parent' = [parent EXCEPT ![who[p]] = InitProc]
     ELSE UNCHANGED procVars
  /\ Return(p)
  /\ UNCHANGED <<memVars, pte>>

-----------------------------------------------------------------------------
(* System calls.                                                           *)

\* fork(): allocproc() finds a free slot.
Fork(p, c) ==
  /\ InUser(p, "fork")
  /\ pst[c] = "UNUSED"
  /\ pst' = [pst EXCEPT ![c] = "USED"]
  /\ Enter(p, "copy", "fork", c, 0, sz[p])
  /\ UNCHANGED <<memVars, parent, sz, pte>>

\* Bug variant: the parent keeps PTE_W.
MarkCowKeepsWrite(entry) == [entry EXCEPT !.cow = TRUE]

\* uvmcopy(), the parent's side of one page: *pte = (*pte | PTE_COW) & ~PTE_W,
\* whatever the page's own permission was.
MarkCow(entry) == [entry EXCEPT !.cow = TRUE, !.w = FALSE]

\* ... and the flags the child gets: PTE_COW only when the page was writable.
ChildPte(entry) ==
  IF entry.w THEN [entry EXCEPT !.w = FALSE, !.cow = TRUE] ELSE entry

\* Bug variant: uvmcopy() without incref().
CopyPageNoIncref(p) ==
  /\ InKernel(p, "copy") /\ va[p] < end[p]
  /\ pte' = [pte EXCEPT ![p][va[p]] = MarkCow(@),
                        ![who[p]][va[p]] = ChildPte(pte[p][va[p]])]
  /\ va' = [va EXCEPT ![p] = @ + 1]
  /\ UNCHANGED <<memVars, procVars, pc, op, who, end, pg>>

\* The page is mapped in the child and its reference counted.
CopyPage(p) ==
  /\ InKernel(p, "copy") /\ va[p] < end[p]
  /\ LET e == pte[p][va[p]] IN
       /\ pte' = [pte EXCEPT ![p][va[p]] = MarkCow(e), ![who[p]][va[p]] = ChildPte(e)]
       /\ refCount' = [refCount EXCEPT ![e.pa] = @ + 1]
  /\ va' = [va EXCEPT ![p] = @ + 1]
  /\ UNCHANGED <<freelist, data, procVars, pc, op, who, end, pg>>

\* Bug variant: the clean-up also unmaps the page that could not be mapped.
CopyPageFailsOneMore(p) ==
  /\ InKernel(p, "copy") /\ va[p] < end[p]
  /\ pte' = [pte EXCEPT ![p][va[p]] = MarkCow(@)]
  /\ Enter(p, "unmap", "forkfail", who[p], 0, va[p] + 1)
  /\ UNCHANGED <<memVars, procVars>>

\* mappages() fails: uvmcopy() unmaps the pages before this one and fork()
\* frees the slot. The parent keeps its PTE_COW mark.
CopyPageFails(p) ==
  /\ InKernel(p, "copy") /\ va[p] < end[p]
  /\ pte' = [pte EXCEPT ![p][va[p]] = MarkCow(@)]
  /\ Enter(p, "unmap", "forkfail", who[p], 0, va[p])
  /\ UNCHANGED <<memVars, procVars>>

ForkDone(p) ==
  /\ InKernel(p, "copy") /\ va[p] >= end[p]
  /\ pst' = [pst EXCEPT ![who[p]] = "LIVE"]
  /\ sz' = [sz EXCEPT ![who[p]] = sz[p]]
  /\ parent' = [parent EXCEPT ![who[p]] = p]
  /\ Return(p)
  /\ UNCHANGED <<memVars, pte>>

Exit(p) ==
  /\ InUser(p, "exit")
  /\ p # InitProc
  /\ ExitEffect(p)

\* wait() finds a zombie child and frees its memory in freeproc().
Wait(p, c) ==
  /\ InUser(p, "wait")
  /\ pst[c] = "ZOMBIE" /\ parent[c] = p
  /\ Enter(p, "unmap", "reap", c, 0, sz[c])
  /\ UNCHANGED <<memVars, procVars, pte>>

\* sbrk(n > 0): uvmalloc() adds pages sz .. n - 1; p->sz moves at the end.
Grow(p, n) ==
  /\ InUser(p, "grow")
  /\ sz[p] < n
  /\ Enter(p, "kalloc", "grow", p, sz[p], n)
  /\ UNCHANGED <<memVars, procVars, pte>>

\* sbrk(n < 0): uvmdealloc() removes pages n .. sz - 1. p->sz is written when
\* the pages are gone; nobody reads it before the call ends.
Shrink(p, n) ==
  /\ InUser(p, "shrink")
  /\ 0 < n /\ n < sz[p]
  /\ Enter(p, "unmap", "shrink", p, n, sz[p])
  /\ sz' = [sz EXCEPT ![p] = n]
  /\ UNCHANGED <<memVars, pst, parent, pte>>

-----------------------------------------------------------------------------
Step(p) ==
  \/ \E v \in VPages, x \in Values : Store(p, v, x)
  \/ \E v \in VPages : StoreFault(p, v) \/ StoreKilled(p, v) \/ Copyout(p, v)
  \/ \E x \in Values : CopyoutWrite(p, x)
  \/ KallocPop(p) \/ KallocIncref(p) \/ KallocFails(p)
  \/ InstallCopy(p) \/ InstallGrow(p)
  \/ KfreeDecref(p) \/ KfreeShared(p) \/ KfreeLast(p) \/ KfreePush(p)
  \/ Unmap(p) \/ UnmapDone(p)
  \/ \E c \in Procs : Fork(p, c) \/ Wait(p, c)
  \/ CopyPage(p) \/ CopyPageFails(p) \/ ForkDone(p)
  \/ Exit(p)
  \/ \E n \in 0..MaxPages : Grow(p, n) \/ Shrink(p, n)

Next == \E p \in Procs : Step(p)

Spec == Init /\ [][Next]_vars

-----------------------------------------------------------------------------
(* Properties.                                                             *)

TypeOK ==
  /\ refCount \in [Frames -> Int]
  /\ freelist \in Seq(Frames)
  /\ data \in [Frames -> Contents]
  /\ pst \in [Procs -> {"UNUSED", "USED", "LIVE", "ZOMBIE", "PANIC"}]
  /\ parent \in [Procs -> Procs]
  /\ sz \in [Procs -> 0..MaxPages]
  /\ pte \in [Procs -> [VPages -> PTE]]
  /\ pc \in [Procs -> {"user", "kalloc", "newref", "install", "decref", "count",
                       "push", "unmap", "copy", "write"}]
  /\ op \in [Procs -> {"none", "fault", "copyout", "grow", "growfail", "shrink",
                       "fork", "forkfail", "reap"}]
  /\ who \in [Procs -> Procs]
  /\ va \in [Procs -> 0..MaxPages]
  /\ end \in [Procs -> 0..MaxPages]
  /\ pg \in [Procs -> Frames \cup {NoFrame}]

\* The places that hold a counted reference: a present PTE, the new page of a
\* kernel operation before it is installed, the old page of a fault before its
\* decref().
HoldsInHand(p) == pc[p] \in {"install", "decref"}
RefersTo(t) == IF t[2] = MaxPages
               THEN IF HoldsInHand(t[1]) THEN pg[t[1]] ELSE NoFrame
               ELSE pte[t[1]][t[2]].pa
Refs(f) == {t \in Procs \X (0..MaxPages) : RefersTo(t) = f}

\* ref_count[] is the number of references to the frame, at every step of every
\* process: what kalloc.c:14 says the array holds.
RefCountExact == \A f \in Frames : refCount[f] = Cardinality(Refs(f))

\* A page no reference is left to is on the free list, or a process is about to
\* put it there or has just taken it off: no path of kfree() loses a page.
NoLeak == \A f \in Frames : refCount[f] = 0 =>
  \/ \E i \in 1..Len(freelist) : freelist[i] = f
  \/ \E p \in Procs : pc[p] \in {"newref", "count", "push"} /\ pg[p] = f

\* The panics of vm.c are unreachable: uvmunmap() finds every page it is asked to
\* remove ("uvmunmap: not mapped"), uvmcopy() every page of the parent ("uvmcopy:
\* page not present"), and mappages() maps nothing twice ("mappages: remap").
NoPagingPanic == \A p \in Procs :
  /\ pc[p] = "unmap" /\ va[p] < end[p] => Mapped(who[p], va[p])
  /\ pc[p] = "copy" /\ va[p] < end[p] => Mapped(p, va[p]) /\ ~Mapped(who[p], va[p])
  /\ pc[p] = "install" => (Mapped(p, va[p]) <=> op[p] # "grow")

\* kfree() "will free only if the refernce count == 0" (kalloc.c:89): a page on
\* the free list has no reference and is there once.
FreeUnreferenced ==
  /\ \A i \in 1..Len(freelist) : refCount[freelist[i]] = 0
  /\ \A i, j \in 1..Len(freelist) : freelist[i] = freelist[j] => i = j

\* The process is past the last reference to the frame in its hand: nothing but the
\* test and the push of kfree(), or the incref() of kalloc(), is left to come.
Spare(q) == \/ pc[q] \in {"newref", "push"}
            \/ pc[q] = "count" /\ refCount[pg[q]] = 0

\* No two processes are past the last reference to the same frame. kfree() releases
\* ref_lock between decref() and ref_count_returner() (kalloc.c:89-91), so the last
\* two users of a frame can both find its count 0: then Apart fails, and both push it.
Apart == \A q, r \in Procs : Spare(q) /\ Spare(r) /\ pg[q] = pg[r] => q = r

\* A process that may store to a page without a fault is its only user: its
\* stores cannot show up as "wrong content" (lazytest.c:107) in another process.
WritableIsPrivate == \A p, q \in Procs : \A v, u \in VPages :
  /\ pst[p] = "LIVE" /\ v < sz[p] /\ pte[p][v].w
  /\ <<p, v>> # <<q, u>>
  => pte[q][u].pa # pte[p][v].pa

\* What a process reads in its address space.
NoPage == "nopage"
Visible == [p \in Procs |-> [v \in VPages |->
  IF pst[p] \in {"LIVE", "PANIC"} /\ v < sz[p] THEN data[pte[p][v].pa] ELSE NoPage]]

Private == INSTANCE PrivateMemory WITH mem <- Visible

\* Sharing pages is invisible: the system behaves as if fork() copied them.
Isolation == Private!Spec
=============================================================================
