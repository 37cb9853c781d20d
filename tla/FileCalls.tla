----------------------------- MODULE FileCalls ------------------------------
(***************************************************************************)
(* The system calls of the cow_xv6 kernel that use files, directories,     *)
(* pipes and processes: sysfile.c, file.c, pipe.c, the path names of fs.c, *)
(* exec.c, and fork, exit, wait, kill and the trap of proc.c and trap.c.   *)
(*                                                                         *)
(* A process runs a program (Code) one system call after the other.  In    *)
(* the kernel it holds a stack of frames k, what is left to do, the first  *)
(* frame next; a call it makes is pushed on top and leaves its result in   *)
(* ret.  What a process does while it holds the sleep lock of an inode is  *)
(* one step, unless it takes or gives up another inode in between.         *)
(***************************************************************************)
EXTENDS Inodes
LOCAL INSTANCE SequencesExt
LOCAL INSTANCE FiniteSetsExt

CONSTANTS
  Code,      \* the user programs: sequences of system calls, by name
  Commands,  \* the command lines one of which is typed at the console
  Files,     \* the files mkfs puts in the root directory: name, content
  NPROC,     \* entries of the process table
  NFILE,     \* entries of the file table
  NOFILE,    \* files a process may have open
  NPIPE,     \* pages kalloc() finds for pipes
  PIPESIZE   \* cells in a pipe

ASSUME {NPROC, NFILE, NOFILE, NPIPE, PIPESIZE} \subseteq Nat \ {0}

VARIABLES
  fs,      \* disk, inode table and log (module Inodes)
  lock,    \* the process that holds each inode's sleep lock, or 0
  ftable,  \* the file table
  pipes,   \* the pages of the pipes; 0 is the console
  proc     \* the process table

vars == <<fs, lock, ftable, pipes, proc>>

Procs    == 1 .. NPROC
initproc == 1
NDEV     == 10
CONSOLE  == 1
\* Bug variant: a write of as many blocks as a transaction may hold.
MAXWRITEAll == MAXOPBLOCKS * BSIZE
MAXWRITE == ((MAXOPBLOCKS - 1 - 1 - 2) \div 2) * BSIZE

NoFile  == [type |-> "none", ref |-> 0, readable |-> FALSE, writable |-> FALSE,
            ip |-> 0, off |-> 0, major |-> 0, pipe |-> 0]
NoPipe  == [readopen |-> FALSE, writeopen |-> FALSE, data |-> <<>>]
Awake   == <<"none", 0>>
NoProc  == [state |-> "unused", parent |-> 0, killed |-> FALSE, xstate |-> 0,
            chan |-> Awake, cwd |-> 0, ofile |-> [n \in 0 .. NOFILE - 1 |-> 0],
            prog |-> "none", at |-> 0, reg |-> <<>>, k |-> <<>>, ret |-> 0]

-----------------------------------------------------------------------------
(* The process table.  Pids are the slots: no program uses a pid after it  *)
(* has waited for it.                                                      *)

\* wakeup(chan), called by process p.
Wakeup(pt, chan, p) ==
  [q \in Procs |-> IF q # p /\ pt[q].state = "sleeping" /\ pt[q].chan = chan
                   THEN [pt[q] EXCEPT !.state = "runnable", !.chan = Awake] ELSE pt[q]]

\* The frame on top of p's stack is replaced by frames, with r as result.
Go(pt, p, frames, r) == [pt EXCEPT ![p].k = frames \o Tail(@), ![p].ret = r]

\* p goes to sleep on chan and resumes with the same frame.
Sleep(pt, p, chan) == [pt EXCEPT ![p].state = "sleeping", ![p].chan = chan]

Runs(p)      == proc[p].state = "runnable" /\ fs.panic = "none"
Top(p)       == Head(proc[p].k)
At(p, label) == Runs(p) /\ proc[p].k # <<>> /\ Top(p).at = label

F(label)         == [at |-> label]
IputF(i, r)      == [at |-> "iput", ip |-> i, r |-> r]
EndOpF(r)        == [at |-> "end_op", r |-> r]
CloseF(f)        == [at |-> "fileclose", f |-> f]
NamexF(path, par) == [at |-> "namex0", path |-> path, par |-> par]
CreateF(path, type, major) ==
  <<NamexF(path, TRUE), [at |-> "create_in", path |-> path, type |-> type, major |-> major]>>
Fail             == <<EndOpF(-1)>>

Continue(p, frames, r) == proc' = Go(proc, p, frames, r)

Locked(i)  == lock[i] # 0
Acquire(i, p) == lock' = [lock EXCEPT ![i] = p]
Release(i) == lock' = [lock EXCEPT ![i] = 0]

-----------------------------------------------------------------------------
(* begin_op() waits for space in the log; end_op() returns r.              *)

BeginOpStep(p) ==
  /\ At(p, "begin_op")
  /\ ~BeginOpWaits(fs)
  /\ fs' = BeginOp(fs, p)
  /\ Continue(p, <<>>, proc[p].ret)
  /\ UNCHANGED <<lock, ftable, pipes>>

EndOpStep(p) ==
  /\ At(p, "end_op")
  /\ fs' = EndOp(fs, p)
  /\ Continue(p, <<>>, Top(p).r)
  /\ UNCHANGED <<lock, ftable, pipes>>

-----------------------------------------------------------------------------
(* iput(): drops a reference; frees the inode of the last one when it has  *)
(* no links.  The sleep lock is taken under itable.lock, the rest is not.  *)

Iput(p) ==
  /\ At(p, "iput")
  /\ LET i == Top(p).ip
     IN  IF IputFrees(fs, i)
         THEN /\ ~Locked(i) /\ Acquire(i, p)
              /\ Continue(p, <<[Top(p) EXCEPT !.at = "iput_free"]>>, 0)
              /\ UNCHANGED fs
         ELSE /\ fs' = DropRef(fs, i)
              /\ Continue(p, <<>>, Top(p).r)
              /\ UNCHANGED lock
  /\ UNCHANGED <<ftable, pipes>>

IputFree(p) ==
  /\ At(p, "iput_free")
  /\ fs' = FreeInodeOf(fs, p, Top(p).ip)
  /\ Release(Top(p).ip)
  /\ Continue(p, <<[Top(p) EXCEPT !.at = "iput_drop"]>>, 0)
  /\ UNCHANGED <<ftable, pipes>>

IputDrop(p) ==
  /\ At(p, "iput_drop")
  /\ fs' = DropRef(fs, Top(p).ip)
  /\ Continue(p, <<>>, Top(p).r)
  /\ UNCHANGED <<lock, ftable, pipes>>

-----------------------------------------------------------------------------
(* namex(): one element of the path after the other.  The result is the    *)
(* inode, or 0; with par, the parent of the last element.                  *)

NamexStart(p) ==
  /\ At(p, "namex0")
  /\ LET path == Top(p).path
         ip   == IF path.abs THEN ROOTINO ELSE proc[p].cwd
     IN  /\ fs' = IF path.abs THEN Iget(fs, ip) ELSE Idup(fs, ip)
         /\ Continue(p, <<[at |-> "namex", elems |-> path.elems, ip |-> ip, par |-> Top(p).par]>>, 0)
  /\ UNCHANGED <<lock, ftable, pipes>>

NamexStep(p) ==
  /\ At(p, "namex")
  /\ LET f == Top(p)
         read == IlockRead(fs, f.ip)
         next == Dirlookup(read, f.ip, Head(f.elems)).inum
     IN  IF f.elems = <<>>
         THEN /\ Continue(p, IF f.par THEN <<IputF(f.ip, 0)>> ELSE <<>>, f.ip)
              /\ UNCHANGED fs
         ELSE /\ ~Locked(f.ip)
              /\ IF read.ic[f.ip].d.type # "dir" \/ (~(f.par /\ Len(f.elems) = 1) /\ next = 0)
                 THEN fs' = read /\ Continue(p, <<IputF(f.ip, 0)>>, 0)
                 ELSE IF f.par /\ Len(f.elems) = 1
                 THEN fs' = read /\ Continue(p, <<>>, f.ip)
                 ELSE /\ fs' = Iget(read, next)
                      /\ Continue(p, <<IputF(f.ip, 0),
                                       [f EXCEPT !.elems = Tail(@), !.ip = next]>>, 0)
  /\ UNCHANGED <<lock, ftable, pipes>>

-----------------------------------------------------------------------------
(* create(): an inode of the given type, locked, or 0.  It looks up the    *)
(* parent directory first.                                                 *)

\* With the parent locked: the name is there, or an inode is allocated for it.
CreateIn(p) ==
  /\ At(p, "create_in")
  /\ LET f     == Top(p)
         dp    == proc[p].ret
         read  == IlockRead(fs, dp)
         found == Dirlookup(read, dp, Last(f.path.elems)).inum
         new   == Ialloc(read, p, f.type)
         next  == [at |-> "create_new", path |-> f.path, type |-> f.type, major |-> f.major,
                   dp |-> dp, ip |-> new.val]
     IN  IF dp = 0 THEN Continue(p, <<>>, 0) /\ UNCHANGED <<fs, lock>>
         ELSE /\ ~Locked(dp)
              /\ IF found # 0
                 THEN /\ fs' = Iget(read, found)
                      /\ Continue(p, <<IputF(dp, 0), [next EXCEPT !.at = "create_old", !.ip = found]>>, 0)
                      /\ UNCHANGED lock
                 ELSE /\ fs' = new.st
                      /\ IF new.val = 0
                         THEN Continue(p, <<IputF(dp, 0)>>, 0) /\ UNCHANGED lock
                         ELSE Continue(p, <<next>>, 0) /\ Acquire(dp, p)
  /\ UNCHANGED <<ftable, pipes>>

\* An existing file or device may be opened by creating a file.
CreateOld(p) ==
  /\ At(p, "create_old")
  /\ LET f == Top(p)
     IN  /\ ~Locked(f.ip)
         /\ fs' = IlockRead(fs, f.ip)
         /\ IF f.type = "file" /\ fs'.ic[f.ip].d.type \in {"file", "device"}
            THEN Continue(p, <<>>, f.ip) /\ Acquire(f.ip, p)
            ELSE Continue(p, <<IputF(f.ip, 0)>>, 0) /\ UNCHANGED lock
  /\ UNCHANGED <<ftable, pipes>>

\* What create() does to the new inode and its parent once both are locked.
Then(r, Rest(_)) == IF r.val = 0 THEN Rest(r.st) ELSE r
LinkParent(r, p, f) ==
  IF r.val # 0 THEN Ret(Iupdate([r.st EXCEPT !.ic[f.ip].d.nlink = 0], p, f.ip), -1)
  ELSE IF f.type = "dir" THEN Ret(Iupdate([r.st EXCEPT !.ic[f.dp].d.nlink = @ + 1], p, f.dp), 0)
  ELSE r
MakeInode(st, p, f) ==
  LET named == Iupdate([st EXCEPT !.ic[f.ip].d.major = f.major, !.ic[f.ip].d.nlink = 1], p, f.ip)
      dots  == IF f.type = "dir"
               THEN Then(Dirlink(named, p, f.ip, ".", f.ip), LAMBDA s : Dirlink(s, p, f.ip, "..", f.dp))
               ELSE Ret(named, 0)
  IN  LinkParent(Then(dots, LAMBDA s : Dirlink(s, p, f.dp, Last(f.path.elems), f.ip)), p, f)

CreateNew(p) ==
  /\ At(p, "create_new")
  /\ LET f == Top(p) IN
     /\ ~Locked(f.ip)
     /\ \E made \in {MakeInode(IlockRead(fs, f.ip), p, f)} :
          /\ fs' = made.st
          /\ IF made.val = 0
             THEN /\ Continue(p, <<IputF(f.dp, f.ip)>>, 0)
                  /\ lock' = [lock EXCEPT ![f.dp] = 0, ![f.ip] = p]
             ELSE /\ Continue(p, <<IputF(f.ip, 0), [at |-> "unlockput", ip |-> f.dp]>>, 0)
                  /\ UNCHANGED lock
  /\ UNCHANGED <<ftable, pipes>>

\* iunlockput() of an inode that stayed locked meanwhile; the result is 0.
UnlockPut(p) ==
  /\ At(p, "unlockput")
  /\ Release(Top(p).ip)
  /\ Continue(p, <<IputF(Top(p).ip, 0)>>, 0)
  /\ UNCHANGED <<fs, ftable, pipes>>


-----------------------------------------------------------------------------
(* The file table and the descriptors of a process.                        *)

\* filealloc() and fdalloc(): the first free entry, none when there is none.
FreeFiles  == {f \in 1 .. NFILE : ftable[f].ref = 0}
FreeFds(p) == {d \in 0 .. NOFILE - 1 : proc[p].ofile[d] = 0}

\* fileclose(): the last reference also gives up the pipe end or the inode.
ClosedFile(f) == IF ftable[f].ref = 1 THEN NoFile ELSE [ftable[f] EXCEPT !.ref = @ - 1]
\* Bug variant: it takes the last reference for one of two.
CloseRestKeeps(f) == IF ftable[f].ref > 0 THEN <<>> ELSE <<EndOpF(0)>>
CloseRest(f) ==
  LET ff == ftable[f]
  IN  CASE ff.ref > 1        -> <<>>
        [] ff.type = "pipe"  -> <<[at |-> "pipeclose", pipe |-> ff.pipe, w |-> ff.writable]>>
        [] OTHER             -> <<F("begin_op"), IputF(ff.ip, 0), EndOpF(0)>>

FileClose(p) ==
  /\ At(p, "fileclose")
  /\ LET f == Top(p).f
     IN  IF ftable[f].ref < 1 THEN fs' = Panic(fs, "fileclose") /\ UNCHANGED <<ftable, proc>>
         ELSE /\ ftable' = [ftable EXCEPT ![f] = ClosedFile(f)]
              /\ Continue(p, CloseRest(f), 0)
              /\ UNCHANGED fs
  /\ UNCHANGED <<lock, pipes>>

-----------------------------------------------------------------------------
(* open().                                                                 *)

\* From the inode locked to the descriptor: st is fs with the inode read.
OpenTail(p, st, ip, mode) ==
  LET inode == st.ic[ip].d
      f     == Min(FreeFiles)
      fd    == Min(FreeFds(p))
      file  == [NoFile EXCEPT !.ref = 1, !.ip = ip,
                  !.type  = IF inode.type = "device" THEN "device" ELSE "inode",
                  !.major = IF inode.type = "device" THEN inode.major ELSE 0,
                  !.readable = "wronly" \notin mode,
                  !.writable = mode \cap {"wronly", "rdwr"} # {}]
  IN  IF (inode.type = "device" /\ inode.major \notin 0 .. NDEV - 1)
         \/ FreeFiles = {} \/ FreeFds(p) = {}
      THEN /\ fs' = st
           /\ Release(ip)
           /\ Continue(p, <<IputF(ip, 0)>> \o Fail, 0)
           /\ UNCHANGED ftable
      ELSE /\ fs' = IF "trunc" \in mode /\ inode.type = "file" THEN Itrunc(st, p, ip) ELSE st
           /\ Release(ip)
           /\ ftable' = [ftable EXCEPT ![f] = file]
           /\ proc' = [Go(proc, p, <<EndOpF(fd)>>, 0) EXCEPT ![p].ofile[fd] = f]

\* The name was looked up, or the file created (then it is locked already).
Open(p) ==
  /\ At(p, "open")
  /\ LET ip   == proc[p].ret
         mode == Top(p).mode
         read == IlockRead(fs, ip)
     IN  IF ip = 0 THEN Continue(p, Fail, 0) /\ UNCHANGED <<fs, lock, ftable>>
         ELSE IF "create" \in mode THEN OpenTail(p, fs, ip, mode)
         ELSE /\ ~Locked(ip)
              /\ IF read.ic[ip].d.type = "dir" /\ mode # {}
                 THEN /\ fs' = read
                      /\ Continue(p, <<IputF(ip, 0)>> \o Fail, 0)
                      /\ UNCHANGED <<lock, ftable>>
                 ELSE OpenTail(p, read, ip, mode)
  /\ UNCHANGED pipes

-----------------------------------------------------------------------------
(* link(): counts the link first, then writes the entry, or takes the      *)
(* count back.                                                             *)

AddLinks(st, p, i, n) == Iupdate([st EXCEPT !.ic[i].d.nlink = @ + n], p, i)

Link(p) ==
  /\ At(p, "link")
  /\ LET ip   == proc[p].ret
         read == IlockRead(fs, ip)
     IN  IF ip = 0 THEN Continue(p, Fail, 0) /\ UNCHANGED fs
         ELSE /\ ~Locked(ip)
              /\ IF read.ic[ip].d.type = "dir"
                 THEN fs' = read /\ Continue(p, <<IputF(ip, 0)>> \o Fail, 0)
                 ELSE /\ fs' = AddLinks(read, p, ip, 1)
                      /\ Continue(p, <<NamexF(Top(p).new, TRUE),
                                       [at |-> "link_in", ip |-> ip, new |-> Top(p).new]>>, 0)
  /\ UNCHANGED <<lock, ftable, pipes>>

LinkIn(p) ==
  /\ At(p, "link_in")
  /\ LET f    == Top(p)
         dp   == proc[p].ret
         bad  == [f EXCEPT !.at = "link_bad"]
     IN  IF dp = 0 THEN Continue(p, <<bad>>, 0) /\ UNCHANGED fs
         ELSE /\ ~Locked(dp)
              /\ \E done \in {Dirlink(IlockRead(fs, dp), p, dp, Last(f.new.elems), f.ip)} :
                   /\ fs' = done.st
                   /\ Continue(p, <<IputF(dp, 0)>> \o
                                  IF done.val = 0 THEN <<IputF(f.ip, 0), EndOpF(0)>> ELSE <<bad>>, 0)
  /\ UNCHANGED <<lock, ftable, pipes>>

LinkBad(p) ==
  /\ At(p, "link_bad")
  /\ ~Locked(Top(p).ip)
  /\ fs' = AddLinks(IlockRead(fs, Top(p).ip), p, Top(p).ip, -1)
  /\ Continue(p, <<IputF(Top(p).ip, 0)>> \o Fail, 0)
  /\ UNCHANGED <<lock, ftable, pipes>>

-----------------------------------------------------------------------------
(* unlink(): holds the directory while it waits for the inode.             *)

Unlink(p) ==
  /\ At(p, "unlink")
  /\ LET dp   == proc[p].ret
         name == Last(Top(p).path.elems)
         read == IlockRead(fs, dp)
         hit  == Dirlookup(read, dp, name)
     IN  IF dp = 0 THEN Continue(p, Fail, 0) /\ UNCHANGED <<fs, lock>>
         ELSE /\ ~Locked(dp)
              /\ IF Cut(name) \in {".", ".."} \/ hit.inum = 0
                 THEN /\ fs' = read
                      /\ Continue(p, <<IputF(dp, 0)>> \o Fail, 0)
                      /\ UNCHANGED lock
                 ELSE /\ fs' = Iget(read, hit.inum)
                      /\ Acquire(dp, p)
                      /\ Continue(p, <<[at |-> "unlink_entry", dp |-> dp, ip |-> hit.inum, off |-> hit.off]>>, 0)
  /\ UNCHANGED <<ftable, pipes>>

Erased(w, p, dp, isdir) ==
  LET st == IF w.val # 1 THEN Panic(w.st, "unlink: writei") ELSE w.st
  IN  IF isdir THEN AddLinks(st, p, dp, -1) ELSE st

UnlinkEntry(p) ==
  /\ At(p, "unlink_entry")
  /\ LET f     == Top(p)
         read  == IlockRead(fs, f.ip)
         isdir == read.ic[f.ip].d.type = "dir"
     IN  /\ ~Locked(f.ip)
         /\ IF read.ic[f.ip].d.nlink < 1
            THEN fs' = Panic(read, "unlink: nlink < 1") /\ UNCHANGED <<lock, proc>>
            ELSE IF isdir /\ ~Isdirempty(read, f.ip)
            THEN /\ fs' = read
                 /\ Continue(p, <<IputF(f.ip, 0), [at |-> "unlockput", ip |-> f.dp]>> \o Fail, 0)
                 /\ UNCHANGED lock
            ELSE /\ fs' = Erased(Writei(read, p, f.dp, <<Zero>>, f.off, TRUE), p, f.dp, isdir)
                 /\ lock' = [lock EXCEPT ![f.dp] = 0, ![f.ip] = p]
                 /\ Continue(p, <<IputF(f.dp, 0), [f EXCEPT !.at = "unlink_inode"]>>, 0)
  /\ UNCHANGED <<ftable, pipes>>

UnlinkInode(p) ==
  /\ At(p, "unlink_inode")
  /\ fs' = AddLinks(fs, p, Top(p).ip, -1)
  /\ Release(Top(p).ip)
  /\ Continue(p, <<IputF(Top(p).ip, 0), EndOpF(0)>>, 0)
  /\ UNCHANGED <<ftable, pipes>>

-----------------------------------------------------------------------------
(* mkdir() and mknod() give back the inode create() made; chdir() keeps    *)
(* the directory and gives back the old one.                               *)

Made(p) ==
  /\ At(p, "made")
  /\ LET ip == proc[p].ret
     IN  IF ip = 0 THEN Continue(p, Fail, 0) /\ UNCHANGED lock
         ELSE Release(ip) /\ Continue(p, <<IputF(ip, 0), EndOpF(0)>>, 0)
  /\ UNCHANGED <<fs, ftable, pipes>>

Chdir(p) ==
  /\ At(p, "chdir")
  /\ LET ip == proc[p].ret
     IN  IF ip = 0 THEN Continue(p, Fail, 0) /\ UNCHANGED fs
         ELSE /\ ~Locked(ip)
              /\ fs' = IlockRead(fs, ip)
              /\ IF fs'.ic[ip].d.type # "dir"
                 THEN Continue(p, <<IputF(ip, 0)>> \o Fail, 0)
                 ELSE Continue(p, <<IputF(proc[p].cwd, 0), EndOpF(0), [at |-> "chdir_done", ip |-> ip]>>, 0)
  /\ UNCHANGED <<lock, ftable, pipes>>

ChdirDone(p) ==
  /\ At(p, "chdir_done")
  /\ proc' = [Go(proc, p, <<>>, 0) EXCEPT ![p].cwd = Top(p).ip]
  /\ UNCHANGED <<fs, lock, ftable, pipes>>

-----------------------------------------------------------------------------
(* read(), write(), fstat().  What is read goes to the variable "buf".     *)

Got(pt, p, data) == [pt EXCEPT ![p].reg = ("buf" :> data) @@ @]

Pipelike(ff) == ff.type = "pipe" \/ (ff.type = "device" /\ ff.major = CONSOLE)

\* Reading a file or a directory, which moves the offset; what fails at once.
FileRead(p) ==
  /\ At(p, "fileread")
  /\ LET f  == Top(p)
         ff == ftable[f.f]
         st == IlockRead(fs, ff.ip)
         r  == Readi(st, ff.ip, ff.off, f.n, f.ok)
     IN  /\ ~(ff.readable /\ Pipelike(ff))
         /\ IF ~ff.readable \/ ff.type = "device"
            THEN Continue(p, <<>>, -1) /\ UNCHANGED <<fs, ftable>>
            ELSE /\ ~Locked(ff.ip)
                 /\ fs' = st
                 /\ ftable' = [ftable EXCEPT ![f.f].off = @ + Max({r.val, 0})]
                 /\ proc' = Got(Go(proc, p, <<>>, r.val), p, r.data)
  /\ UNCHANGED <<lock, pipes>>

\* piperead() sleeps while the pipe is empty and somebody may still write;
\* consoleread() sleeps until a line, one cell here, has been typed.
PipeRead(p) ==
  /\ At(p, "fileread") /\ ftable[Top(p).f].readable /\ Pipelike(ftable[Top(p).f])
  /\ LET f  == Top(p)
         i  == ftable[f.f].pipe
         pi == pipes[i]
         m  == IF f.ok THEN Min({f.n, Len(pi.data)}) ELSE 0
         lost == IF f.ok THEN m ELSE Min({f.n, Len(pi.data), 1})
     IN  IF pi.data = <<>> /\ pi.writeopen
         THEN /\ proc' = IF proc[p].killed THEN Go(proc, p, <<>>, -1) ELSE Sleep(proc, p, <<"nread", i>>)
              /\ UNCHANGED pipes
         ELSE /\ pipes' = [pipes EXCEPT ![i].data = SubSeq(@, lost + 1, Len(@))]
              /\ proc' = Got(Go(Wakeup(proc, <<"nwrite", i>>, p), p, <<>>, m), p, SubSeq(pi.data, 1, m))
  /\ UNCHANGED <<fs, lock, ftable>>

\* Writing to a file goes in chunks of MAXWRITE cells, each a call of the log.
FileWrite(p) ==
  /\ At(p, "filewrite")
  /\ LET f  == Top(p)
         ff == ftable[f.f]
     IN  /\ ff.type # "pipe" \/ ~ff.writable
         /\ Continue(p, IF ff.writable /\ ff.type = "inode" /\ f.i < Len(f.data)
                        THEN <<F("begin_op"), [f EXCEPT !.at = "write_chunk"]>> ELSE <<>>,
                     CASE ~ff.writable \/ (ff.type = "device" /\ ff.major # CONSOLE) -> -1
                       [] ff.type = "device" /\ ~f.ok -> 0
                       [] OTHER -> Len(f.data))
  /\ UNCHANGED <<fs, lock, ftable, pipes>>

WriteChunk(p) ==
  /\ At(p, "write_chunk")
  /\ LET f  == Top(p)
         ff == ftable[f.f]
         n1 == Min({Len(f.data) - f.i, MAXWRITE})
     IN  /\ ~Locked(ff.ip)
         /\ \E w \in {Writei(IlockRead(fs, ff.ip), p, ff.ip, SubSeq(f.data, f.i + 1, f.i + n1), ff.off, f.ok)} :
              /\ fs' = w.st
              /\ ftable' = [ftable EXCEPT ![f.f].off = @ + Max({w.val, 0})]
              /\ Continue(p, IF w.val # n1 THEN Fail
                             ELSE <<EndOpF(0), [f EXCEPT !.at = "filewrite", !.i = @ + n1]>>, 0)
  /\ UNCHANGED <<lock, pipes>>

\* pipewrite() fills the pipe and sleeps until a reader has made room.
PipeWrite(p) ==
  /\ At(p, "filewrite") /\ ftable[Top(p).f].type = "pipe" /\ ftable[Top(p).f].writable
  /\ LET f    == Top(p)
         i    == ftable[f.f].pipe
         pi   == pipes[i]
         m    == IF f.ok THEN Min({Len(f.data) - f.i, PIPESIZE - Len(pi.data)}) ELSE 0
         pt   == Wakeup(proc, <<"nread", i>>, p)
         left == Len(f.data) - f.i - m
     IN  IF f.i < Len(f.data) /\ (~pi.readopen \/ proc[p].killed)
         THEN Continue(p, <<>>, -1) /\ UNCHANGED pipes
         ELSE /\ pipes' = [pipes EXCEPT ![i].data = @ \o SubSeq(f.data, f.i + 1, f.i + m)]
              /\ proc' = IF left = 0 \/ (~f.ok /\ Len(pi.data) < PIPESIZE)
                         THEN Go(pt, p, <<>>, f.i + m)
                         ELSE Sleep(Go(pt, p, <<[f EXCEPT !.i = @ + m]>>, 0), p, <<"nwrite", i>>)
  /\ UNCHANGED <<fs, lock, ftable>>

\* The page goes when both ends are closed.
PipeClose(p) ==
  /\ At(p, "pipeclose")
  /\ LET i  == Top(p).pipe
         pi == IF Top(p).w THEN [pipes[i] EXCEPT !.writeopen = FALSE]
                           ELSE [pipes[i] EXCEPT !.readopen = FALSE]
     IN  /\ pipes' = [pipes EXCEPT ![i] = IF pi.readopen \/ pi.writeopen THEN pi ELSE NoPipe]
         /\ proc' = Go(Wakeup(proc, <<IF Top(p).w THEN "nread" ELSE "nwrite", i>>, p), p, <<>>, 0)
  /\ UNCHANGED <<fs, lock, ftable>>

\* fstat() leaves what it finds in the variable "st".
FileStat(p) ==
  /\ At(p, "filestat")
  /\ LET ff == ftable[Top(p).f]
         st == IlockRead(fs, ff.ip)
     IN  IF ff.type = "pipe" THEN Continue(p, <<>>, -1) /\ UNCHANGED fs
         ELSE /\ ~Locked(ff.ip)
              /\ fs' = st
              /\ proc' = [Go(proc, p, <<>>, 0) EXCEPT
                            ![p].reg = ("st" :> [type |-> st.ic[ff.ip].d.type, nlink |-> st.ic[ff.ip].d.nlink,
                                                 size |-> st.ic[ff.ip].d.size, ino |-> ff.ip]) @@ @]
  /\ UNCHANGED <<lock, ftable, pipes>>

-----------------------------------------------------------------------------
(* dup() and pipe().                                                       *)

Dup(p) ==
  /\ At(p, "dup")
  /\ LET f == Top(p).f
         d == Min(FreeFds(p))
     IN  IF FreeFds(p) = {} THEN Continue(p, <<>>, -1) /\ UNCHANGED ftable
         ELSE /\ ftable' = [ftable EXCEPT ![f].ref = @ + 1]
              /\ proc' = [Go(proc, p, <<>>, d) EXCEPT ![p].ofile[d] = f]
  /\ UNCHANGED <<fs, lock, pipes>>

\* Everything pipe() took is given back when a file, a page or a descriptor
\* is missing or the caller's array is not there.
Pipe(p) ==
  /\ At(p, "pipe")
  /\ LET page == {i \in 1 .. NPIPE : pipes[i] = NoPipe}
         rf == Min(FreeFiles)
         wf == Min(FreeFiles \ {rf})
         d0 == Min(FreeFds(p))
         d1 == Min(FreeFds(p) \ {d0})
         end == [NoFile EXCEPT !.type = "pipe", !.ref = 1, !.pipe = Min(page)]
     IN  IF Cardinality(FreeFiles) < 2 \/ page = {} \/ Cardinality(FreeFds(p)) < 2 \/ ~Top(p).ok
         THEN Continue(p, <<>>, -1) /\ UNCHANGED <<ftable, pipes>>
         ELSE /\ pipes' = [pipes EXCEPT ![Min(page)] =
                             [readopen |-> TRUE, writeopen |-> TRUE, data |-> <<>>]]
              /\ ftable' = [ftable EXCEPT ![rf] = [end EXCEPT !.readable = TRUE],
                                          ![wf] = [end EXCEPT !.writable = TRUE]]
              /\ proc' = [Go(proc, p, <<>>, 0) EXCEPT
                            ![p].ofile[d0] = rf, ![p].ofile[d1] = wf,
                            ![p].reg = ("r" :> d0) @@ ("w" :> d1) @@ @]
  /\ UNCHANGED <<fs, lock>>

-----------------------------------------------------------------------------
(* Processes.                                                              *)

\* fork(): the child shares the open files and the current directory.
Fork(p) ==
  /\ At(p, "fork")
  /\ LET unused == {q \in Procs : proc[q].state = "unused"}
         np     == Min(unused)
         child  == [proc[p] EXCEPT !.parent = p, !.prog = Top(p).child, !.at = 0, !.k = <<>>,
                                   !.ret = 0, !.killed = FALSE]
     IN  IF unused = {} THEN Continue(p, <<>>, -1) /\ UNCHANGED <<fs, ftable>>
         ELSE /\ proc' = [Go(proc, p, <<>>, np) EXCEPT ![np] = child]
              /\ fs' = Idup(fs, proc[p].cwd)
              /\ ftable' = [f \in 1 .. NFILE |->
                   [ftable[f] EXCEPT !.ref = @ + Cardinality({d \in 0 .. NOFILE - 1 : proc[p].ofile[d] = f})]]
  /\ UNCHANGED <<lock, pipes>>

\* exit() closes the descriptors one by one, each with fileclose(), and gives
\* up the current directory.
Exit(p) ==
  /\ At(p, "exit")
  /\ LET open == {d \in 0 .. NOFILE - 1 : proc[p].ofile[d] # 0}
         d    == Min(open)
         f    == proc[p].ofile[d]
     IN  IF p = initproc THEN fs' = Panic(fs, "init exiting") /\ UNCHANGED <<ftable, proc>>
         ELSE IF open # {}
         THEN IF ftable[f].ref < 1 THEN fs' = Panic(fs, "fileclose") /\ UNCHANGED <<ftable, proc>>
              ELSE /\ ftable' = [ftable EXCEPT ![f] = ClosedFile(f)]
                   /\ proc' = [Go(proc, p, CloseRest(f) \o <<Top(p)>>, 0) EXCEPT ![p].ofile[d] = 0]
                   /\ UNCHANGED fs
         ELSE /\ Continue(p, <<F("begin_op"), IputF(proc[p].cwd, 0), EndOpF(0),
                               [Top(p) EXCEPT !.at = "exit_done"]>>, 0)
              /\ UNCHANGED <<fs, ftable>>
  /\ UNCHANGED <<lock, pipes>>

\* Under wait_lock: the children go to init, the parent is woken.
ExitDone(p) ==
  /\ At(p, "exit_done")
  /\ LET kids == {q \in Procs : proc[q].parent = p}
         up   == [q \in Procs |-> IF q \in kids THEN [proc[q] EXCEPT !.parent = initproc] ELSE proc[q]]
         told == IF kids = {} THEN up ELSE Wakeup(up, <<"wait", initproc>>, p)
     IN  proc' = [Wakeup(told, <<"wait", proc[p].parent>>, p) EXCEPT
                    ![p] = [NoProc EXCEPT !.state = "zombie", !.parent = proc[p].parent,
                                          !.killed = proc[p].killed, !.xstate = Top(p).status]]
  /\ UNCHANGED <<fs, lock, ftable, pipes>>

\* wait() takes the first zombie of the table; -1 without children.
Wait(p) ==
  /\ At(p, "wait")
  /\ LET kids == {q \in Procs : proc[q].parent = p}
         dead == {q \in kids : proc[q].state = "zombie"}
         q    == Min(dead)
     IN  proc' = IF dead # {}
                 THEN [Go(proc, p, <<>>, q) EXCEPT
                         ![q] = NoProc, ![p].reg = ("xstatus" :> proc[q].xstate) @@ @]
                 ELSE IF kids = {} \/ proc[p].killed THEN Go(proc, p, <<>>, -1)
                 ELSE Sleep(proc, p, <<"wait", p>>)
  /\ UNCHANGED <<fs, lock, ftable, pipes>>

Kill(p) ==
  /\ At(p, "kill")
  /\ LET q == Top(p).pid
     IN  IF q \notin Procs \/ proc[q].state = "unused" THEN Continue(p, <<>>, -1)
         ELSE proc' = [Go(proc, p, <<>>, 0) EXCEPT ![q].killed = TRUE,
                         ![q].chan  = Awake,
                         ![q].state = IF @ = "sleeping" THEN "runnable" ELSE @]
  /\ UNCHANGED <<fs, lock, ftable, pipes>>

\* The variables of a program that starts: its arguments and the descriptors
\* of input, output and errors.
Fresh == [v \in {"argv", "0", "1", "2"} |-> CASE v = "0" -> 0 [] v = "1" -> 1 [] v = "2" -> 2 [] OTHER -> <<>>]

\* exec(): the image is read with the inode locked, and replaced at the end.
\* An executable file starts with the ELF header; its program follows.
Exec(p) ==
  /\ At(p, "exec")
  /\ LET ip   == proc[p].ret
         st   == IlockRead(fs, ip)
         elf  == Readi(st, ip, 0, 1, TRUE)
         prog == CellAt(st, st.ic[ip].d, 1).name
     IN  IF ip = 0 THEN Continue(p, Fail, 0) /\ UNCHANGED fs
         ELSE /\ ~Locked(ip)
              /\ fs' = st
              /\ Continue(p, IF elf.val # 1 \/ elf.data # <<Cell("ELF")>> \/ st.ic[ip].d.size < 2
                             THEN <<IputF(ip, 0)>> \o Fail
                             ELSE <<IputF(ip, 0), EndOpF(0), [at |-> "exec_done", prog |-> prog,
                                                                   big |-> Top(p).big, argv |-> Top(p).argv]>>, 0)
  /\ UNCHANGED <<lock, ftable, pipes>>

\* The arguments must fit the page of the new stack.
ExecDone(p) ==
  /\ At(p, "exec_done")
  /\ proc' = IF Top(p).big THEN Go(proc, p, <<>>, -1)
             ELSE [Go(proc, p, <<>>, 0) EXCEPT ![p].prog = Top(p).prog, ![p].at = 0,
                                               ![p].reg = [Fresh EXCEPT !["argv"] = Top(p).argv]]
  /\ UNCHANGED <<fs, lock, ftable, pipes>>

-----------------------------------------------------------------------------
(* The trap: from one system call of the program to the next.  An          *)
(* instruction is a record: op and its arguments; to, the variable that    *)
(* takes the result; want, the results it goes on with; els, the           *)
(* instruction it goes to with any other result, exit(1) when 0.           *)

\* argfd(): the open file behind the descriptor that variable v holds, or 0.
FileOf(pr, v) == LET d == IF v \in DOMAIN pr.reg THEN pr.reg[v] ELSE -1
                 IN  IF d \in 0 .. NOFILE - 1 THEN pr.ofile[d] ELSE 0

\* A path or the name of a program, as it is or out of a variable.
Value(pr, x) == CASE "argv"  \in DOMAIN x -> pr.reg["argv"][x.argv]
                  [] "entry" \in DOMAIN x -> [ok |-> TRUE, abs |-> FALSE, prog |-> pr.reg[x.entry][1].name,
                                              elems |-> <<pr.reg[x.entry][1].name>>]
                  [] OTHER -> x

\* What a system call of process record pr has left to do in the kernel once
\* its arguments are fetched; nothing when one is bad.
Frames(pr, ins) ==
  LET f     == FileOf(pr, ins.fd)
      path  == Value(pr, ins.path)
      op    == F("begin_op")
      cells == IF ins.from # "" THEN pr.reg[ins.from] ELSE ins.data
  IN CASE ins.op \in {"dup", "read", "write", "fstat", "close"} /\ f = 0  -> <<>>
       [] ins.op \in {"open", "link", "unlink", "exec"} /\ ~path.ok      -> <<>>
       [] ins.op \in {"mkdir", "mknod", "chdir"} /\ ~path.ok             -> <<op>> \o Fail
       [] ins.op = "dup"    -> <<[at |-> "dup", f |-> f]>>
       [] ins.op = "read"   -> <<[at |-> "fileread", f |-> f, n |-> ins.n, ok |-> ins.ok]>>
       [] ins.op = "write"  -> <<[at |-> "filewrite", f |-> f, i |-> 0, ok |-> ins.ok, data |-> cells]>>
       [] ins.op = "fstat"  -> <<[at |-> "filestat", f |-> f]>>
       [] ins.op = "close"  -> <<CloseF(f)>>
       [] ins.op = "open"   -> <<op>> \o (IF "create" \in ins.mode THEN CreateF(path, "file", 0)
                                          ELSE <<NamexF(path, FALSE)>>)
                                     \o <<[at |-> "open", mode |-> ins.mode]>>
       [] ins.op = "link"   -> IF ~Value(pr, ins.new).ok THEN <<>>
                               ELSE <<op, NamexF(path, FALSE), [at |-> "link", new |-> Value(pr, ins.new)]>>
       [] ins.op = "unlink" -> <<op, NamexF(path, TRUE), [at |-> "unlink", path |-> path]>>
       [] ins.op = "mkdir"  -> <<op>> \o CreateF(path, "dir", 0) \o <<F("made")>>
       [] ins.op = "mknod"  -> <<op>> \o CreateF(path, "device", ins.major) \o <<F("made")>>
       [] ins.op = "chdir"  -> <<op, NamexF(path, FALSE), F("chdir")>>
       [] ins.op = "exec"   -> <<op, NamexF(path, FALSE), [at |-> "exec", big |-> ins.big, argv |-> ins.arg]>>
       [] ins.op = "pipe"   -> <<[at |-> "pipe", ok |-> ins.ok]>>
       [] ins.op = "fork"   -> <<[at |-> "fork", child |-> Value(pr, ins.child).prog]>>
       [] ins.op = "wait"   -> <<F("wait")>>
       [] ins.op = "kill"   -> <<[at |-> "kill", pid |-> pr.reg[ins.pid]]>>
       [] ins.op = "exit"   -> <<[at |-> "exit", status |-> IF ins.var = "" THEN ins.status ELSE pr.reg[ins.var]]>>
       [] OTHER -> <<>>

\* The results of what needs no kernel step: a test of the program on its own
\* variables, getpid(), sleep() (time passes), a system call refused at once.
Results(p, pr, ins) ==
  LET cells      == pr.reg[ins.var]
      Holds(b)   == {IF b THEN 0 ELSE -1}
      Count(Ok(_)) == Cardinality({n \in DOMAIN cells : Ok(cells[n])})
  IN CASE ins.op = "goto"   -> ins.among
       [] ins.op = "is"     -> Holds(cells = ins.v)
       [] ins.op = "has"    -> Holds(Count(LAMBDA c : c.name = ins.v) = ins.n)
       [] ins.op = "lists"  -> Holds(\A v \in ins.v : Count(LAMBDA c : c.inum # 0 /\ c.name = v) = 1)
       [] ins.op = "same"   -> Holds(pr.reg[ins.var] = pr.reg[ins.v])
       [] ins.op = "equals" -> Holds(pr.reg[ins.var] = ins.v)
       [] ins.op = "getpid" -> {p}
       [] ins.op \in {"sleep", "spin", "keep"} -> {0}
       [] OTHER -> {-1}

\* The variables a program has once a call has returned: its result, and what
\* has been read so far.
Variables(pr, old) ==
  IF old.to # "" THEN (old.to :> pr.ret) @@ pr.reg
  ELSE IF old.op = "keep"
  THEN (old.var :> (IF old.var \in DOMAIN pr.reg THEN pr.reg[old.var] ELSE <<>>) \o pr.reg["buf"]) @@ pr.reg
  ELSE pr.reg

Spinning(p) == proc[p].at > 0 /\ Code[proc[p].prog][proc[p].at].op = "spin"

\* usertrap() and syscall(): back from one system call, into the next.  A killed
\* process, and one that touches memory it does not have, exits with -1.
Trap(p) ==
  /\ Runs(p) /\ proc[p].k = <<>>
  /\ LET pr   == proc[p]
         old  == Code[pr.prog][pr.at]
         n    == CASE pr.at = 0               -> 1
                   [] old.op = "goto"         -> pr.ret
                   [] pr.ret \in old.want     -> pr.at + 1
                   [] OTHER                   -> old.els
         here == [pr EXCEPT !.reg = IF pr.at = 0 THEN @ ELSE Variables(pr, old), !.at = n]
         ins  == Code[pr.prog][n]
         Dies(st) == proc' = [proc EXCEPT ![p].k = <<[at |-> "exit", status |-> st]>>]
     IN  /\ Spinning(p) => pr.killed
         /\ IF pr.killed THEN Dies(-1)
            ELSE IF n = 0 THEN Dies(1)
            ELSE IF ins.op = "fault" THEN Dies(-1)
            ELSE \E r \in Results(p, here, ins) :
                   proc' = [proc EXCEPT ![p] =
                     [here EXCEPT !.k = Frames(here, ins), !.ret = r,
                        !.ofile = IF ins.op = "close" /\ FileOf(here, ins.fd) # 0
                                  THEN [@ EXCEPT ![here.reg[ins.fd]] = 0] ELSE @]]
  /\ UNCHANGED <<fs, lock, ftable, pipes>>

-----------------------------------------------------------------------------
(* A disk as mkfs leaves it: the root directory and the files in it.       *)

RootEntries == <<Dirent(ROOTINO, "."), Dirent(ROOTINO, "..")>> \o
               [n \in 1 .. Len(Files) |-> Dirent(ROOTINO + n, Files[n].name)]

\* mkfs writes every file through iappend(); writei() lays blocks out alike.
\* At last the size of the root directory goes up to a multiple of the block.
Mkfs ==
  LET free == [used |-> {}, blk |-> [b \in Blocks |-> <<>>], di |-> [i \in Inums |-> FreeInode],
               ic |-> [i \in Inums |-> Unused], ops |-> (0 :> {}), lh |-> {}, panic |-> "none"]
      Inode(type) == [ref |-> 1, valid |-> TRUE, d |-> [FreeInode EXCEPT !.type = type, !.nlink = 1]]
      Put(st, i, type, cells) ==
        LET w == Writei([st EXCEPT !.ic[i] = Inode(type)], 0, i, cells, 0, TRUE).st
        IN  [w EXCEPT !.ic[i] = Unused, !.lh = {}]
      PutFile(st, n) == Put(st, ROOTINO + n, "file", Files[n].content)
      all == FoldLeft(PutFile, Put(free, ROOTINO, "dir", RootEntries), [n \in 1 .. Len(Files) |-> n])
  IN  [all EXCEPT !.ops = <<>>, !.di[ROOTINO].size = (@ \div BSIZE + 1) * BSIZE]

\* userinit(): the first process, with the root as its directory; a line is
\* typed at the console.
Init ==
  /\ fs = Idup(Mkfs, ROOTINO)
  /\ lock = [i \in Inums |-> 0]
  /\ ftable = [f \in 1 .. NFILE |-> NoFile]
  /\ \E c \in Commands :
       pipes = [i \in 0 .. NPIPE |-> IF i > 0 THEN NoPipe
                  ELSE [readopen |-> TRUE, writeopen |-> TRUE, data |-> <<Cell(c)>>]]
  /\ proc = [p \in Procs |-> IF p # initproc THEN NoProc
               ELSE [NoProc EXCEPT !.state = "runnable", !.cwd = ROOTINO, !.prog = "initcode", !.reg = Fresh]]

\* The command is done: the shell waits for the console and init for the shell.
Idle ==
  /\ fs.panic = "none"
  /\ \A p \in Procs :
       \/ proc[p].state = "unused"
       \/ /\ proc[p].state = "sleeping"
          /\ proc[p].chan \in {<<"wait", initproc>>, <<"nread", 0>>}
Quiet == Idle /\ UNCHANGED vars

Step(p) ==
  \/ Trap(p)
  \/ BeginOpStep(p) \/ EndOpStep(p)
  \/ Iput(p) \/ IputFree(p) \/ IputDrop(p) \/ UnlockPut(p)
  \/ NamexStart(p) \/ NamexStep(p)
  \/ CreateIn(p) \/ CreateOld(p) \/ CreateNew(p)
  \/ Open(p) \/ FileClose(p) \/ FileRead(p) \/ FileWrite(p) \/ WriteChunk(p) \/ FileStat(p)
  \/ Link(p) \/ LinkIn(p) \/ LinkBad(p)
  \/ Unlink(p) \/ UnlinkEntry(p) \/ UnlinkInode(p)
  \/ Made(p) \/ Chdir(p) \/ ChdirDone(p)
  \/ Dup(p) \/ Pipe(p) \/ PipeRead(p) \/ PipeWrite(p) \/ PipeClose(p)
  \/ Fork(p) \/ Exit(p) \/ ExitDone(p) \/ Wait(p) \/ Kill(p)
  \/ Exec(p) \/ ExecDone(p)

\* What a process does in user mode, and going to sleep in wait(), nobody else
\* can see: whoever is there goes first, so that only steps on shared state are
\* interleaved.
Alone(p) ==
  /\ Runs(p)
  /\ \/ proc[p].k = <<>> /\ (Spinning(p) => proc[p].killed)
     \/ proc[p].k # <<>> /\ Top(p).at = "wait" /\ \A q \in Procs : proc[q].parent = p => proc[q].state # "zombie"

Next ==
  \/ Quiet
  \/ \E p \in Procs : /\ Step(p)
                      /\ \A q \in Procs : Alone(q) => Alone(p) /\ p <= q

Spec == Init /\ [][Next]_vars

-----------------------------------------------------------------------------
(* Properties.                                                             *)

\* The inodes a frame of the kernel stack holds a reference of; 0 is none.
Held(f) ==
  CASE f.at \in {"iput", "iput_free", "iput_drop"} -> <<f.ip, f.r>>
    [] f.at \in {"create_new", "unlink_entry"}     -> <<f.dp, f.ip>>
    [] f.at \in {"namex", "unlockput", "create_old", "link_in", "link_bad",
                 "unlink_inode", "chdir_done"}     -> <<f.ip>>
    [] OTHER -> <<>>

\* The references of inodes there are: of open files, of current directories
\* (exit() and chdir() hand theirs to iput() first), of frames, of lookups whose
\* result nobody has put away yet.
InKernel(p) == proc[p].k # <<>>
HasCwd(p) == /\ proc[p].cwd # 0
             /\ \A n \in DOMAIN proc[p].k : proc[p].k[n].at \notin {"chdir_done", "exit_done"}
LooksUp == {"create_in", "open", "link", "link_in", "unlink", "made", "chdir", "exec"}

InodeRefs ==
  {<<ftable[f].ip, "file", f>> : f \in {f \in 1 .. NFILE : ftable[f].type \in {"inode", "device"}}}
  \cup {<<proc[p].cwd, "cwd", p>> : p \in {p \in Procs : HasCwd(p)}}
  \cup {<<proc[p].ret, "ret", p>> : p \in {p \in Procs : InKernel(p) /\ Top(p).at \in LooksUp}}
  \cup UNION {UNION {{<<Held(proc[p].k[n])[j], "frame", p, n, j>> : j \in DOMAIN Held(proc[p].k[n])} :
                     n \in DOMAIN proc[p].k} : p \in Procs}

FileRefs ==
  UNION {{<<proc[p].ofile[d], p, d>> : d \in 0 .. NOFILE - 1} : p \in Procs}
  \cup {<<Top(p).f, p, -1>> : p \in {p \in Procs : InKernel(p) /\ Top(p).at = "fileclose"}}

\* count[x] is the number of elements of refs that stand for x.
Counted(count, refs) ==
  LET named == {r[1] : r \in refs} \ {0}
  IN  /\ {x \in DOMAIN count : count[x] # 0} = named
      /\ \A x \in named : count[x] = Cardinality({r \in refs : r[1] = x})

\* A pipe's end is open as long as a file, or a close under way, stands for it.
PipeEnd(i, w) ==
  \/ \E f \in 1 .. NFILE : ftable[f].type = "pipe" /\ ftable[f].pipe = i /\ ftable[f].writable = w
  \/ \E p \in Procs : InKernel(p) /\ Top(p).at = "pipeclose" /\ Top(p).pipe = i /\ Top(p).w = w

\* Every reference count is exact: of the inodes in memory, of the open files
\* and of the pipes, whatever calls are half done, so that the last one to go
\* frees the object and no earlier one does (fs.c iput, file.c fileclose,
\* pipe.c pipeclose).
RefsExact ==
  fs.panic = "none" =>
    /\ Counted([i \in Inums |-> fs.ic[i].ref], InodeRefs)
    /\ Counted([f \in 1 .. NFILE |-> ftable[f].ref], FileRefs)
    /\ \A i \in 1 .. NPIPE : pipes[i].readopen = PipeEnd(i, FALSE) /\ pipes[i].writeopen = PipeEnd(i, TRUE)

\* What is on the disk once no call is under way: the inodes in use, and the
\* names in directories that have a name themselves ("." is not one).
Live == {i \in Inums : fs.di[i].type # "free"}
Dirs == {d \in Live : fs.di[d].type = "dir" /\ fs.di[d].nlink > 0}
Links ==
  UNION {{<<e.inum, e.name, d>> : e \in {CellAt(fs, fs.di[d], off) : off \in 0 .. fs.di[d].size - 1}} : d \in Dirs}

\* An inode without names is kept only while somebody holds a reference to it:
\* iput() frees it with the last one (the comment at fs.c:329).
NoOrphans ==
  DOMAIN fs.ops = {} /\ fs.panic = "none" =>
    \A i \in Live : fs.di[i].nlink = 0 => fs.ic[i].ref > 0

\* An inode is lost in one way only: iput() has freed it, another process takes
\* its number for a file of its own and unlinks that again before iput() drops
\* its reference, the last one, without a second look (fs.c:355 to 361).  No
\* other interleaving of calls that create, link, unlink, open, close, change
\* directory or exit leaves an inode behind.
Lost(i) == fs.di[i].type # "free" /\ fs.di[i].nlink = 0 /\ fs.ic[i].ref = 0
LostOnlyToReuse ==
  [][\A i \in Inums : ~Lost(i) /\ Lost(i)' =>
       \E p \in Procs : At(p, "iput_drop") /\ Top(p).ip = i]_vars

\* Between calls the disk is what fsck would call clean, but for inodes lost as
\* above: a block belongs to one file exactly when it is marked used, files
\* have no holes, link counts are the number of names, no name leads to a free
\* inode, and the copies in memory are those on disk (fs.c; sysfile.c create,
\* sys_link, sys_unlink).
Clean ==
  DOMAIN fs.ops = {} /\ fs.panic = "none" =>
    LET blocks == [i \in Live |-> BlocksOf(fs, fs.di[i])]
        names  == {l \in Links : l[1] # 0}
    IN  /\ fs.used = UNION {blocks[i] : i \in Live}
        /\ Cardinality(fs.used) = FoldSet(LAMBDA i, n : n + Cardinality(blocks[i]), 0, Live)
        /\ {l[1] : l \in names} \subseteq Live
        /\ \A i \in Live :
             /\ \A n \in 0 .. (fs.di[i].size + BSIZE - 1) \div BSIZE - 1 : Mapped(fs, fs.di[i], n) # 0
             /\ fs.di[i].nlink = Cardinality({l \in names : l[1] = i /\ l[2] # "."})
             /\ fs.ic[i].valid => fs.ic[i].d = fs.di[i]

\* No call writes more blocks in a transaction than begin_op() set aside for it
\* (log.c begin_op, file.c filewrite).
OpFits == \A q \in DOMAIN fs.ops : Cardinality(fs.ops[q]) <= MAXOPBLOCKS

\* usertests.c: every test passes, in every interleaving of its processes.
TestsPass == \A p \in Procs : proc[p].prog = "usertests" /\ InKernel(p) =>
                              ~(Top(p).at = "exit" /\ Top(p).status # 0)

NoPanic == fs.panic = "none"

=============================================================================
