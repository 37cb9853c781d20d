CONSTANTS
  Code <- MCCode
  Commands <- MCLosing
  Files <- MCFiles
  BSIZE = 2
  NDIRECT = 2
  NINDIRECT = 22
  NBLOCKS = 56
  NINODES = 26
  IPB = 8
  NINODE = 7
  DIRSIZ = 14
  MAXOPBLOCKS = 10
  LOGSIZE = 30
  NPROC = 8
  NFILE = 8
  NOFILE = 6
  NPIPE = 1
  PIPESIZE = 2
  Turns = 2
  Rounds = 2
  Children = 2
SPECIFICATION Spec
INVARIANTS NoOrphans
