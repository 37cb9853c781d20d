----------------------------- MODULE MCUserTests -----------------------------
(* The programs of UserTests on a small file system. *)
EXTENDS FileCalls

CONSTANTS Turns, Rounds, Children

U == INSTANCE UserTests WITH
  BufCells <- (MAXOPBLOCKS + 2) * BSIZE, LongCells <- MAXWRITE + 1, FreeProcs <- NPROC - 4, BlockCells <- BSIZE,
  FileBlocks <- MAXFILE, DiskBlocks <- NBLOCKS, DiskInodes <- NINODES, TableInodes <- NINODE,
  PipeCells <- PIPESIZE, DirEntries <- NDIRECT * BSIZE

MCCode == U!Programs
\* createdelete alone has 1 263 004 states, more than all the others together,
\* and two processes that create and unlink meet in linkunlink as well.
MCCommands == {U!TestLine(t) : t \in U!Tests \ {"createdelete"}} \cup U!Lines
\* The tests in which such processes may lose an inode (NoOrphans).
MCLosing   == {U!TestLine(t) : t \in {"linkunlink", "createdelete", "manywrites"}}

Executable(n) == [name |-> n, content |-> <<Cell("ELF"), Cell(n)>>]
MCFiles ==
  <<[name |-> "README", content |-> [n \in 1 .. 5 |-> Cell("readme")]],
    Executable("cat"), Executable("echo"), Executable("init"), Executable("ln"), Executable("ls"),
    Executable("mkdir"), Executable("rm"), Executable("sh"), Executable("stressfs"),
    Executable("usertests"), Executable("wc"), Executable("zombie")>>

=============================================================================
