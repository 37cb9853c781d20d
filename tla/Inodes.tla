------------------------------- MODULE Inodes -------------------------------
(***************************************************************************)
(* The block, inode and directory layers of cow_xv6/kernel/fs.c, as        *)
(* operators on one record:                                                *)
(*                                                                         *)
(*   used   the set of data blocks whose bit is set in the free map        *)
(*   blk    what each data block holds; a zeroed block holds nothing       *)
(*   di     the inodes on disk                                             *)
(*   ic     the inode table in memory, by inode number, with its copies d  *)
(*   ops    the file-system calls in progress, with the blocks each has    *)
(*          handed to log_write()                                          *)
(*   lh     the blocks in the log header                                   *)
(*   panic  the message of the panic() the kernel stopped in, or "none"    *)
(*                                                                         *)
(* The unit of data is the cell: as many bytes as a directory entry.  An   *)
(* operator that changes the record and also returns a value gives         *)
(* [st |-> the new record, val |-> the value].                             *)
(***************************************************************************)
EXTENDS Integers, Sequences, FiniteSets, TLC
LOCAL INSTANCE SequencesExt
LOCAL INSTANCE FiniteSetsExt

CONSTANTS
  BSIZE,        \* cells in a block
  NDIRECT,      \* direct block addresses of an inode
  NINDIRECT,    \* addresses in an indirect block
  NBLOCKS,      \* data blocks on the disk
  NINODES,      \* inodes on the disk, 0 included
  IPB,          \* inodes in a disk block
  NINODE,       \* entries of the inode table in memory
  DIRSIZ,       \* characters of a name in a directory entry
  MAXOPBLOCKS,  \* blocks a file-system call may write
  LOGSIZE       \* blocks in the log

ASSUME SizesArePositive ==
  /\ {BSIZE, NDIRECT, NINDIRECT, NBLOCKS, IPB, NINODE, DIRSIZ} \subseteq Nat \ {0}
  /\ NINODES \in Nat /\ NINODES > 1
  /\ MAXOPBLOCKS \in Nat /\ MAXOPBLOCKS > 4 /\ LOGSIZE >= MAXOPBLOCKS

ROOTINO == 1
MAXFILE == NDIRECT + NINDIRECT
Inums   == 1 .. NINODES - 1
Blocks  == 1 .. NBLOCKS

\* The free map and the inodes have blocks of their own; data blocks follow.
BBLOCK    == 0
IBLOCK(i) == -1 - (i \div IPB)

\* A directory entry, and a cell of a file: an entry whose inum is zero.
Dirent(i, name) == [inum |-> i, name |-> name]
Cell(c)         == Dirent(0, c)
Zero            == Cell("")

NoAddrs   == [n \in 0 .. NDIRECT |-> 0]
FreeInode == [type |-> "free", major |-> 0, nlink |-> 0, size |-> 0, addrs |-> NoAddrs]
Unused    == [ref |-> 0, valid |-> FALSE, d |-> FreeInode]

Ret(st, v)      == [st |-> st, val |-> v]
Panic(st, what) == IF st.panic = "none" THEN [st EXCEPT !.panic = what] ELSE st

-----------------------------------------------------------------------------
(* The log, as far as its callers see it.                                  *)

BeginOpWaits(st) ==
  Cardinality(st.lh) + (Cardinality(DOMAIN st.ops) + 1) * MAXOPBLOCKS > LOGSIZE

BeginOp(st, p) == [st EXCEPT !.ops = [q \in DOMAIN @ \cup {p} |-> IF q = p THEN {} ELSE @[q]]]

\* The last call in progress commits: the log is empty again.
EndOp(st, p) ==
  LET rest == [q \in DOMAIN st.ops \ {p} |-> st.ops[q]]
  IN  [st EXCEPT !.ops = rest, !.lh = IF DOMAIN rest = {} THEN {} ELSE @]

LogWrite(st, p, b) ==
  CASE Cardinality(st.lh) >= LOGSIZE -> Panic(st, "too big a transaction")
    [] DOMAIN st.ops = {}            -> Panic(st, "log_write outside of trans")
    [] OTHER -> [st EXCEPT !.lh  = @ \cup {b},
                           !.ops = [q \in DOMAIN @ |-> @[q] \cup (IF q = p THEN {b} ELSE {})]]

-----------------------------------------------------------------------------
(* Blocks.                                                                 *)

\* balloc() takes the first free block and zeroes it; 0 when there is none.
Balloc(st, p) ==
  LET free == Blocks \ st.used
  IN  IF free = {} THEN Ret(st, 0)
      ELSE LET b == Min(free)
           IN  Ret(LogWrite(LogWrite([st EXCEPT !.used = @ \cup {b}, !.blk[b] = <<>>],
                                     p, BBLOCK), p, b), b)

Bfree(st, p, b) ==
  IF b \notin st.used THEN Panic(st, "freeing free block")
  ELSE LogWrite([st EXCEPT !.used = @ \ {b}], p, BBLOCK)

-----------------------------------------------------------------------------
(* Inodes.                                                                 *)

\* iget(): the entry of inode i, one reference more; a new entry is not valid.
Iget(st, i) ==
  CASE st.ic[i].ref > 0 -> [st EXCEPT !.ic[i].ref = @ + 1]
    [] Cardinality({j \in Inums : st.ic[j].ref > 0}) >= NINODE -> Panic(st, "iget: no inodes")
    [] OTHER -> [st EXCEPT !.ic[i] = [Unused EXCEPT !.ref = 1]]

Idup(st, i) == [st EXCEPT !.ic[i].ref = @ + 1]

\* The first disk inode of type 0 becomes one of the given type; 0 if there is none.
Ialloc(st, p, type) ==
  LET free == {i \in Inums : st.di[i].type = "free"}
  IN  IF free = {} THEN Ret(st, 0)
      ELSE LET i == Min(free)
           IN  Ret(Iget(LogWrite([st EXCEPT !.di[i] = [FreeInode EXCEPT !.type = type]],
                                 p, IBLOCK(i)), i), i)

Iupdate(st, p, i) ==
  LogWrite([st EXCEPT !.di[i] = st.ic[i].d], p, IBLOCK(i))

\* What ilock() does once it has the sleep lock: read the inode if need be.
IlockRead(st, i) ==
  CASE st.ic[i].ref < 1 -> Panic(st, "ilock")
    [] st.ic[i].valid   -> st
    [] st.di[i].type = "free" -> Panic(st, "ilock: no type")
    [] OTHER -> [st EXCEPT !.ic[i].valid = TRUE, !.ic[i].d = st.di[i]]

\* Bug variant: whoever gives up an inode without links frees it.
IputFreesShared(st, i) == st.ic[i].valid /\ st.ic[i].d.nlink = 0

\* Bug variant: an inode that was never written to is not freed.
IputFreesData(st, i) == st.ic[i].ref = 1 /\ st.ic[i].valid /\ st.ic[i].d.nlink = 0 /\ st.ic[i].d.size > 0

\* The last reference to an inode without links: iput() must free it.
IputFrees(st, i) == st.ic[i].ref = 1 /\ st.ic[i].valid /\ st.ic[i].d.nlink = 0

\* iput() gives up its reference; the entry of the last one is free again.
DropRef(st, i) ==
  [st EXCEPT !.ic[i] = IF @.ref = 1 THEN Unused ELSE [@ EXCEPT !.ref = @ - 1]]

-----------------------------------------------------------------------------
(* Inode content.                                                          *)

Slot(st, b, n) == IF n \in DOMAIN st.blk[b] THEN st.blk[b][n] ELSE 0

\* The address of block n of an inode as it stands, 0 when there is none.
Mapped(st, inode, n) ==
  LET a == inode.addrs
  IN  IF n < NDIRECT THEN a[n]
      ELSE IF a[NDIRECT] = 0 THEN 0 ELSE Slot(st, a[NDIRECT], n - NDIRECT)

\* bmap() through the inode: the address in addrs[n], allocated if need be.
FillAddr(a, i, n) == IF a.val = 0 THEN a ELSE Ret([a.st EXCEPT !.ic[i].d.addrs[n] = a.val], a.val)
BmapAddr(st, p, i, n) ==
  IF st.ic[i].d.addrs[n] # 0 THEN Ret(st, st.ic[i].d.addrs[n]) ELSE FillAddr(Balloc(st, p), i, n)

\* The address in slot n of the indirect block ind.val, which may be missing.
FillSlot(a, p, b, n) ==
  IF a.val = 0 THEN a ELSE Ret(LogWrite([a.st EXCEPT !.blk[b] = (n :> a.val) @@ @], p, b), a.val)
BmapSlot(ind, p, n) ==
  CASE ind.val = 0                    -> ind
    [] Slot(ind.st, ind.val, n) # 0   -> Ret(ind.st, Slot(ind.st, ind.val, n))
    [] OTHER                          -> FillSlot(Balloc(ind.st, p), p, ind.val, n)

Bmap(st, p, i, n) ==
  CASE n < NDIRECT  -> BmapAddr(st, p, i, n)
    [] n >= MAXFILE -> Ret(Panic(st, "bmap: out of range"), 0)
    [] OTHER        -> BmapSlot(BmapAddr(st, p, i, NDIRECT), p, n - NDIRECT)

\* The blocks an inode holds, the indirect block included.
BlocksOf(st, inode) ==
  ({Mapped(st, inode, n) : n \in 0 .. MAXFILE - 1} \cup {inode.addrs[NDIRECT]}) \ {0}

\* Bug variant: the indirect block is not freed.
ItruncDirect(st, p, i) ==
  LET freed == FoldSet(LAMBDA b, s : Bfree(s, p, b), st,
                       BlocksOf(st, st.ic[i].d) \ {st.ic[i].d.addrs[NDIRECT]})
  IN  Iupdate([freed EXCEPT !.ic[i].d.addrs = NoAddrs, !.ic[i].d.size = 0], p, i)

Itrunc(st, p, i) ==
  LET freed == FoldSet(LAMBDA b, s : Bfree(s, p, b), st, BlocksOf(st, st.ic[i].d))
  IN  Iupdate([freed EXCEPT !.ic[i].d.addrs = NoAddrs, !.ic[i].d.size = 0], p, i)

\* iput() of the last reference to an unlinked inode, with its lock held.
FreeInodeOf(st, p, i) ==
  LET trunc == Itrunc(st, p, i)
  IN  [Iupdate([trunc EXCEPT !.ic[i].d.type = "free"], p, i) EXCEPT !.ic[i].valid = FALSE]

\* The cell at an offset below the size; bmap() finds its block there.
CellAt(st, inode, off) ==
  LET b == st.blk[Mapped(st, inode, off \div BSIZE)]
      n == off % BSIZE
  IN  IF n \in DOMAIN b THEN b[n] ELSE Zero

\* readi() of n cells; -1 when the reader's memory is not there.
Readi(st, i, off, n, ok) ==
  LET size == st.ic[i].d.size
      m    == IF off > size THEN 0 ELSE IF off + n > size THEN size - off ELSE n
  IN  [val  |-> IF m > 0 /\ ~ok THEN -1 ELSE m,
       data |-> IF ok THEN [k \in 1 .. m |-> CellAt(st, st.ic[i].d, off + k - 1)] ELSE <<>>]

\* One turn of the loop of writei(): the part of the data that falls in block bn.
WriteInto(b, acc, p, data, off, ok, bn) ==
  LET from == Max({off, bn * BSIZE})
      to   == Min({off + Len(data), (bn + 1) * BSIZE}) - 1
      part == [n \in from % BSIZE .. to % BSIZE |-> data[bn * BSIZE + n - off + 1]]
  IN  IF b.val = 0 \/ ~ok THEN [acc EXCEPT !.st = b.st, !.stop = TRUE]
      ELSE [acc EXCEPT !.st  = LogWrite([b.st EXCEPT !.blk[b.val] = part @@ @], p, b.val),
                       !.tot = @ + to - from + 1]
WriteBlock(acc, p, i, data, off, ok, bn) ==
  IF acc.stop THEN acc ELSE WriteInto(Bmap(acc.st, p, i, bn), acc, p, data, off, ok, bn)

\* writei(): how much was written, which is less when the disk is full or the
\* writer's memory is not there; the inode goes to disk in every case.
WriteEnds(end, p, i, off) ==
  Ret(Iupdate([end.st EXCEPT !.ic[i].d.size = Max({@, off + end.tot})], p, i), end.tot)
Writei(st, p, i, data, off, ok) ==
  LET parts == IF data = <<>> THEN <<>>
               ELSE [k \in 1 .. (off + Len(data) - 1) \div BSIZE - off \div BSIZE + 1
                       |-> off \div BSIZE + k - 1]
  IN  IF off > st.ic[i].d.size \/ off + Len(data) > MAXFILE * BSIZE THEN Ret(st, -1)
      ELSE WriteEnds(FoldLeft(LAMBDA acc, bn : WriteBlock(acc, p, i, data, off, ok, bn),
                              [st |-> st, tot |-> 0, stop |-> FALSE], parts), p, i, off)

-----------------------------------------------------------------------------
(* Directories.                                                            *)

\* Bug variant: a lookup compares all of a long name.
CutNothing(name) == name

\* A name as a directory entry holds it.
Cut(name) == IF Len(name) > DIRSIZ THEN SubSeq(name, 1, DIRSIZ) ELSE name

EntriesAt(st, d, Which(_)) ==
  {off \in 0 .. st.ic[d].d.size - 1 : Which(CellAt(st, st.ic[d].d, off))}

\* dirlookup(): where the entry is and which inode it names, none when 0.
Dirlookup(st, d, name) ==
  LET at == EntriesAt(st, d, LAMBDA de : de.inum # 0 /\ de.name = Cut(name))
  IN  IF at = {} THEN [inum |-> 0, off |-> 0]
      ELSE [inum |-> CellAt(st, st.ic[d].d, Min(at)).inum, off |-> Min(at)]

WroteOne(w) == Ret(w.st, IF w.val # 1 THEN -1 ELSE 0)

\* dirlink(): into the first empty entry, else at the end; -1 when the name is
\* there (iput() gives back what the lookup took) or the disk is full.
Dirlink(st, p, d, name, i) ==
  LET empty == EntriesAt(st, d, LAMBDA de : de.inum = 0)
      off   == IF empty = {} THEN st.ic[d].d.size ELSE Min(empty)
      found == Dirlookup(st, d, name).inum
  IN  IF found # 0 THEN Ret(DropRef(Iget(st, found), found), -1)
      ELSE WroteOne(Writei(st, p, d, <<Dirent(i, Cut(name))>>, off, TRUE))

\* The first two entries are "." and "..".
Isdirempty(st, d) == EntriesAt(st, d, LAMBDA de : de.inum # 0) \subseteq {0, 1}

=============================================================================
