----------------------------- MODULE UserTests ------------------------------
(***************************************************************************)
(* The tests of cow_xv6/user/usertests.c as programs of module FileCalls.  *)
(* Loops are cut to the turns that differ; a block is BlockCells cells, so *)
(* what a test writes in one call stays in as many transactions.           *)
(***************************************************************************)
EXTENDS UserPrograms
LOCAL INSTANCE SequencesExt

CONSTANTS
  Children,    \* children of a test that forks several
  FreeProcs,   \* processes a test can have besides itself
  LongCells,   \* cells of a write that takes two transactions
  BlockCells,  \* BSIZE
  FileBlocks,  \* MAXFILE
  DiskBlocks,  \* no fewer blocks than the disk has
  DiskInodes,  \* no fewer inodes than the disk has
  TableInodes, \* NINODE
  PipeCells,   \* PIPESIZE
  DirEntries   \* more entries than the direct blocks of a directory hold

WaitAll(n) == Loop(n, LAMBDA k : <<Wait("got"), Equals("xstatus", 0)>>)
ExitStatus == <<Wait("got"), ExitWith("xstatus")>>

-----------------------------------------------------------------------------
(* System calls with bad pointers and strings.                             *)

copyin ==
  Loop(2, LAMBDA k :
    <<Ok(Open("fd", Name("copyin1"), CREATE \cup WRONLY)), Fails(AtBad(Write("fd", Fill(16, "?")))),
      Close("fd"), Unlink(Name("copyin1")), NotMore(AtBad(Write("1", Fill(16, "?")))),
      Ok(Pipe), NotMore(AtBad(Write("w", Fill(16, "?")))), Close("r"), Close("w")>>) \o <<Exit(0)>>

copyout ==
  Loop(2, LAMBDA k :
    <<Ok(Open("fd", Name("README"), RDONLY)), NotMore(AtBad(Read("fd", 16))), Close("fd"),
      Ok(Pipe), Gives(Write("w", <<"x">>), 1), NotMore(AtBad(Read("r", 16))), Close("r"), Close("w")>>)
  \o <<Exit(0)>>

copyinstr1 == Loop(2, LAMBDA k : <<Fails(Open("fd", NoString, CREATE \cup WRONLY))>>) \o <<Exit(0)>>

\* A path of MAXPATH characters, then arguments that do not fit a page.
copyinstr2 ==
  <<Fails(Unlink(NoString)), Fails(Open("fd", NoString, CREATE \cup WRONLY)),
    Fails(Link(NoString, NoString)), Fails(Exec(NoString, <<"xx">>)),
    Ok(Fork("pid", "copyinstr2_child")), Wait("got"), Equals("xstatus", 747), Exit(0)>>
copyinstr2_child == <<Fails(TooBig(Exec(Name("echo"), <<"x">>))), Exit(747)>>

\* A string that runs over the end of the last page.
copyinstr3 ==
  <<Fails(Unlink(NoString)), Fails(Open("fd", NoString, CREATE \cup WRONLY)),
    Fails(Link(NoString, NoString)), Fails(Exec(NoString, <<"xx">>)), Exit(0)>>

\* Memory given back with sbrk() is no longer there for read() and write().
rwsbrk ==
  <<Ok(Open("fd", Name("rwsbrk"), CREATE \cup WRONLY)), Fails(AtBad(Write("fd", Fill(2, "?")))), Close("fd"),
    Unlink(Name("rwsbrk")), Ok(Open("fd", Name("README"), RDONLY)), Fails(AtBad(Read("fd", 1))), Close("fd"), Exit(0)>>

validatetest == Loop(2, LAMBDA k : <<Fails(Link(Name("nosuchfile"), NoString))>>) \o <<Exit(0)>>

argptest == <<Ok(Open("fd", Name("init"), RDONLY)), AtBad(Read("fd", 99)), Close("fd"), Exit(0)>>

pgbug == <<Exec(NoString, <<"x">>), AtBad(Pipe), Exit(0)>>

badarg == Loop(Turns, LAMBDA k : <<Exec(NoString, <<"x">>)>>) \o <<Exit(0)>>

-----------------------------------------------------------------------------
(* Truncation.                                                             *)

truncate1 ==
  <<Unlink(Name("truncfile")), Open("fd1", Name("truncfile"), CREATE \cup WRONLY \cup TRUNC),
    Write("fd1", <<"a", "b", "c", "d">>), Close("fd1"),
    Open("fd2", Name("truncfile"), RDONLY), Gives(Read("fd2", 8), 4),
    Open("fd1", Name("truncfile"), WRONLY \cup TRUNC),
    Open("fd3", Name("truncfile"), RDONLY), Gives(Read("fd3", 8), 0), Gives(Read("fd2", 8), 0),
    Write("fd1", <<"a", "b", "c", "d", "e", "f">>), Gives(Read("fd3", 8), 6), Gives(Read("fd2", 8), 2),
    Unlink(Name("truncfile")), Close("fd1"), Close("fd2"), Close("fd3"), Exit(0)>>

\* A write beyond the end, which truncation brought nearer, fails.
truncate2 ==
  <<Unlink(Name("truncfile")), Open("fd1", Name("truncfile"), CREATE \cup TRUNC \cup WRONLY),
    Write("fd1", <<"a", "b", "c", "d">>), Open("fd2", Name("truncfile"), TRUNC \cup WRONLY),
    Fails(Write("fd1", <<"x">>)), Unlink(Name("truncfile")), Close("fd1"), Close("fd2"), Exit(0)>>

truncate3 ==
  <<Open("fd", Name("truncfile"), CREATE \cup TRUNC \cup WRONLY), Close("fd"), Ok(Fork("pid", "truncate3_child"))>>
  \o Loop(Turns, LAMBDA k :
       <<Ok(Open("fd", Name("truncfile"), CREATE \cup WRONLY \cup TRUNC)), Gives(Write("fd", <<"x">>), 1), Close("fd")>>)
  \o <<Wait("got"), Unlink(Name("truncfile")), ExitWith("xstatus")>>
truncate3_child ==
  <<Ok(Open("fd", Name("truncfile"), WRONLY)), Gives(Write("fd", <<"1", "2">>), 2), Close("fd"),
    Open("fd", Name("truncfile"), RDONLY), Read("fd", 4), Close("fd"), Exit(0)>>

-----------------------------------------------------------------------------
(* Current directories that are removed.                                   *)

iputcalls ==
  <<Ok(Mkdir(Name("iputdir"))), Ok(Chdir(Name("iputdir"))), Ok(Unlink(Path(<<"..", "iputdir">>)))>>

iputtest     == iputcalls \o <<Ok(Chdir(Abs(<<>>))), Exit(0)>>
exitiputtest == <<Ok(Fork("pid", "exitiput_child"))>> \o ExitStatus
exitiput_child == iputcalls \o <<Exit(0)>>

openiputtest ==
  <<Ok(Mkdir(Name("oidir"))), Ok(Fork("pid", "openiput_child")), Sleep, Ok(Unlink(Name("oidir")))>> \o ExitStatus
openiput_child == <<Fails(Open("fd", Name("oidir"), RDWR)), Exit(0)>>

-----------------------------------------------------------------------------
(* Files.                                                                  *)

opentest == <<Ok(Open("fd", Name("echo"), RDONLY)), Close("fd"), Fails(Open("fd", Name("doesnotexist"), RDONLY)), Exit(0)>>

writetest ==
  <<Ok(Open("fd", Name("small"), CREATE \cup RDWR))>>
  \o Loop(Turns, LAMBDA k : <<Gives(Write("fd", <<"a">>), 1), Gives(Write("fd", <<"b">>), 1)>>)
  \o <<Close("fd"), Ok(Open("fd", Name("small"), RDONLY)), Gives(Read("fd", 2 * Turns), 2 * Turns),
       Close("fd"), Ok(Unlink(Name("small"))), Exit(0)>>

writebig ==
  LET block(k) == <<ToString(k)>> \o Fill(BlockCells - 1, "")
  IN <<Ok(Open("fd", Name("big"), CREATE \cup RDWR))>>
     \o Loop(FileBlocks, LAMBDA k : <<Gives(Write("fd", block(k)), BlockCells)>>)
     \o <<Close("fd"), Ok(Open("fd", Name("big"), RDONLY))>>
     \o Loop(FileBlocks, LAMBDA k : <<Gives(Read("fd", BlockCells), BlockCells), Is("buf", block(k))>>)
     \o <<Gives(Read("fd", BlockCells), 0), Close("fd"), Ok(Unlink(Name("big"))), Exit(0)>>

createtest ==
  Loop(4, LAMBDA k : <<Open("fd", Name(Nth("a", k)), CREATE \cup RDWR), Close("fd")>>)
  \o Loop(4, LAMBDA k : <<Unlink(Name(Nth("a", k)))>>) \o <<Exit(0)>>

unlinkread ==
  <<Ok(Open("fd", Name("unlinkread"), CREATE \cup RDWR)), Write("fd", <<"h", "e", "l", "l", "o">>), Close("fd"),
    Ok(Open("fd", Name("unlinkread"), RDWR)), Ok(Unlink(Name("unlinkread"))),
    Open("fd1", Name("unlinkread"), CREATE \cup RDWR), Write("fd1", <<"y", "y", "y">>), Close("fd1"),
    Gives(Read("fd", BufCells), 5), Is("buf", <<"h", "e", "l", "l", "o">>),
    Gives(Write("fd", Fill(10, "h")), 10), Close("fd"), Unlink(Name("unlinkread")), Exit(0)>>

linktest ==
  <<Unlink(Name("lf1")), Unlink(Name("lf2")), Ok(Open("fd", Name("lf1"), CREATE \cup RDWR)),
    Gives(Write("fd", <<"h", "e", "l", "l", "o">>), 5), Close("fd"), Ok(Link(Name("lf1"), Name("lf2"))),
    Unlink(Name("lf1")), Fails(Open("fd", Name("lf1"), RDONLY)), Ok(Open("fd", Name("lf2"), RDONLY)),
    Gives(Read("fd", BufCells), 5), Close("fd"), Fails(Link(Name("lf2"), Name("lf2"))), Unlink(Name("lf2")),
    Fails(Link(Name("lf2"), Name("lf1"))), Fails(Link(Name("."), Name("lf1"))), Exit(0)>>

\* Writes larger than the log, of every size relative to its chunks.
bigwrite ==
  LET twice(sz) == <<Gives(Write("fd", Fill(sz, "w")), sz), Gives(Write("fd", Fill(sz, "w")), sz)>>
  IN <<Unlink(Name("bigwrite"))>>
     \o Loop((BufCells - 1) \div 3, LAMBDA k :
          <<Ok(Open("fd", Name("bigwrite"), CREATE \cup RDWR))>> \o twice(3 * k + 1)
          \o <<Close("fd"), Unlink(Name("bigwrite"))>>)
     \o <<Exit(0)>>

bigfile ==
  LET N == 4 IN
  <<Unlink(Name("bigfile.dat")), Ok(Open("fd", Name("bigfile.dat"), CREATE \cup RDWR))>>
  \o Loop(N, LAMBDA k : <<Gives(Write("fd", Fill(2, ToString(k))), 2)>>)
  \o <<Close("fd"), Ok(Open("fd", Name("bigfile.dat"), RDONLY))>>
  \o Loop(2 * N, LAMBDA k : <<Gives(Read("fd", 1), 1), Is("buf", <<ToString(k \div 2)>>)>>)
  \o <<Gives(Read("fd", 1), 0), Close("fd"), Unlink(Name("bigfile.dat")), Exit(0)>>

-----------------------------------------------------------------------------
(* Processes.                                                              *)

dirtest ==
  <<Ok(Mkdir(Name("dir0"))), Ok(Chdir(Name("dir0"))), Ok(Chdir(Name(".."))), Ok(Unlink(Name("dir0"))), Exit(0)>>

\* A descriptor that is closed is the next one given out.
exectest ==
  <<Unlink(Name("echo-ok")), Ok(Fork("pid", "exectest_child")), Wait("got"), Equals("xstatus", 0),
    Ok(Open("fd", Name("echo-ok"), RDONLY)), Gives(Read("fd", 2), 2), Unlink(Name("echo-ok")),
    Is("buf", <<"O", "K">>), Exit(0)>>
exectest_child ==
  <<Close("1"), Gives(Open("1", Name("echo-ok"), CREATE \cup WRONLY), 1),
    Ok(Exec(Name("echo"), Cells(<<"O", "K">>)))>>

\* The writer's pieces are larger than the pipe, the reader's sizes double.
pipe1 ==
  LET N == 2  SZ == 2 * PipeCells + 1 IN
  <<Ok(Pipe), Ok(Fork("pid", "pipe1_child")), Close("w"),
    Else(Some(Read("r", 1)), 11), Keep("all"), Else(Some(Read("r", 2)), 11), Keep("all"),
    Else(Some(Read("r", 4)), 11), Keep("all"), Goto({8}),
    Is("all", [k \in 1 .. N * SZ |-> ToString((k - 1) \div SZ)]), Close("r")>> \o ExitStatus
pipe1_child ==
  LET N == 2  SZ == 2 * PipeCells + 1 IN
  <<Close("r")>> \o Loop(N, LAMBDA k : <<Gives(Write("w", Fill(SZ, ToString(k))), SZ)>>) \o <<Exit(0)>>

\* A child that only runs must die of kill(), with status -1.
killstatus ==
  Loop(Turns, LAMBDA k :
    <<Ok(Fork("pid", "forever")), Sleep, Kill("pid"), Wait("got"), Equals("xstatus", -1)>>) \o <<Exit(0)>>
forever == <<Spin>>

preempt ==
  <<Ok(Fork("pid1", "forever")), Ok(Fork("pid2", "forever")), Pipe, Ok(Fork("pid3", "preempt_child")),
    Close("w"), Gives(Read("r", BufCells), 1), Close("r"),
    Kill("pid1"), Kill("pid2"), Kill("pid3"), Wait(""), Wait(""), Wait(""), Exit(0)>>
preempt_child == <<Close("r"), Gives(Write("w", <<"x">>), 1), Close("w"), Spin>>

exitwait ==
  Loop(Turns, LAMBDA k : <<Ok(Fork("pid", Nth("exit", k))), Wait("got"), Same("got", "pid"), Equals("xstatus", k)>>)
  \o <<Exit(0)>>
exit_status == Named("exit", Turns, LAMBDA k : <<Exit(k)>>)

reparent ==
  <<Getpid("master_pid")>> \o Loop(Turns, LAMBDA k : <<Ok(Fork("pid", "reparent_child")), Wait("got"), Same("got", "pid")>>)
  \o <<Exit(0)>>
reparent_child == <<Else(Ok(Fork("pid2", "exit0")), 3), Exit(0), Kill("master_pid"), Exit(1)>>

twochildren ==
  Loop(Turns, LAMBDA k : <<Ok(Fork("pid1", "exit0")), Ok(Fork("pid2", "exit0")), Wait(""), Wait("")>>) \o <<Exit(0)>>

forkfork == Loop(2, LAMBDA k : <<Ok(Fork("pid", "forkfork_child"))>>) \o WaitAll(2) \o <<Exit(0)>>
forkfork_child == Loop(Turns, LAMBDA k : <<Ok(Fork("pid1", "exit0")), Wait("")>>) \o <<Exit(0)>>

\* One turn: what lives on into the next ones are grandchildren about to exit.
reparent2 == <<Ok(Fork("pid1", "reparent2_child")), Wait(""), Exit(0)>>
reparent2_child == <<Fork("pid", "exit0"), Fork("pid", "exit0"), Exit(0)>>

forktest ==
  Fill(FreeProcs, Ok(Fork("pid", "exit0"))) \o <<Fails(Fork("pid", "exit0"))>>
  \o Fill(FreeProcs, Ok(Wait(""))) \o <<Fails(Wait("")), Exit(0)>>

-----------------------------------------------------------------------------
(* Several processes, the same directory or file.                          *)

sharedfd ==
  <<Unlink(Name("sharedfd")), Ok(Open("fd", Name("sharedfd"), CREATE \cup RDWR)), Fork("pid", "sharedfd_child")>>
  \o Fill(Turns, Gives(Write("fd", <<"p">>), 1))
  \o <<Wait("got"), Equals("xstatus", 0), Close("fd"), Ok(Open("fd", Name("sharedfd"), RDONLY)),
       Read("fd", BufCells), Close("fd"), Unlink(Name("sharedfd")),
       Has("buf", "c", Turns), Has("buf", "p", Turns), Exit(0)>>
sharedfd_child == Fill(Turns, Gives(Write("fd", <<"c">>), 1)) \o <<Exit(0)>>

fourfiles ==
  Loop(Children, LAMBDA pi : <<Unlink(Name(Nth("f", pi))), Ok(Fork("pid", Nth("fourfiles", pi)))>>)
  \o WaitAll(Children)
  \o Loop(Children, LAMBDA i :
       <<Open("fd", Name(Nth("f", i)), RDONLY), Gives(Read("fd", BufCells), Turns),
         Is("buf", Fill(Turns, ToString(i))), Close("fd"), Unlink(Name(Nth("f", i)))>>) \o <<Exit(0)>>
fourfiles_child ==
  Named("fourfiles", Children, LAMBDA pi :
    <<Ok(Open("fd", Name(Nth("f", pi)), CREATE \cup RDWR))>>
    \o Fill(Turns, Gives(Write("fd", <<ToString(pi)>>), 1)) \o <<Exit(0)>>)

createdelete ==
  LET N == 4
      name(pi, i) == Name(Nth(Nth("p", pi), i)) IN
  Loop(Children, LAMBDA pi : <<Ok(Fork("pid", Nth("createdelete", pi)))>>) \o WaitAll(Children)
  \o Loop(N, LAMBDA i : Loop(Children, LAMBDA pi :
       IF i = 0 \/ i >= N \div 2 THEN <<Ok(Open("fd", name(pi, i), RDONLY)), Close("fd")>>
       ELSE <<Fails(Open("fd", name(pi, i), RDONLY))>>))
  \o Loop(N, LAMBDA i : Loop(Children, LAMBDA pi : <<Unlink(name(pi, i))>>)) \o <<Exit(0)>>
createdelete_child ==
  LET N == 4 IN
  Named("createdelete", Children, LAMBDA pi :
    Loop(N, LAMBDA i : <<Ok(Open("fd", Name(Nth(Nth("p", pi), i)), CREATE \cup RDWR)), Close("fd")>>
      \o IF i > 0 /\ i % 2 = 0 THEN <<Ok(Unlink(Name(Nth(Nth("p", pi), i \div 2))))>> ELSE <<>>) \o <<Exit(0)>>)

\* Parent and child create or link the same name, then open or unlink it.
concreates == 5
concreate_make(i, links) ==
  IF links THEN <<Link(Name("C0"), Name(Nth("C", i)))>>
  ELSE <<Ok(Open("fd", Name(Nth("C", i)), CREATE \cup RDWR)), Close("fd")>>
concreate_drop(i, opens) ==
  IF opens THEN Loop(Turns, LAMBDA k : <<Open("fd", Name(Nth("C", i)), RDONLY), Close("fd")>>)
  ELSE Fill(Turns, Unlink(Name(Nth("C", i))))
concreate ==
  Loop(concreates, LAMBDA i :
    <<Unlink(Name(Nth("C", i))), Fork("pid", Nth("concreate_make", i))>> \o concreate_make(i, i % 3 = 1)
    \o <<Wait("got"), Equals("xstatus", 0)>>)
  \o <<Open("fd", Name("."), RDONLY), Read("fd", 99), Lists("buf", {Nth("C", i) : i \in 0 .. concreates - 1}), Close("fd")>>
  \o Loop(concreates, LAMBDA i :
       <<Ok(Fork("pid", Nth("concreate_drop", i)))>> \o concreate_drop(i, i % 3 = 1) \o <<Wait("")>>)
  \o <<Exit(0)>>
concreate_child ==
  Named("concreate_make", concreates, LAMBDA i : concreate_make(i, i % 5 = 1) \o <<Exit(0)>>)
  @@ Named("concreate_drop", concreates, LAMBDA i : concreate_drop(i, i % 3 = 0) \o <<Exit(0)>>)

\* Each turn creates x, links it to another file or unlinks it.
linkunlink_turn(b) ==
  <<Goto({b + 1, b + 4, b + 6}), Open("fd", Name("x"), RDWR \cup CREATE), Close("fd"), Goto({b + 7}),
    Link(Name("cat"), Name("x")), Goto({b + 7}), Unlink(Name("x"))>>
linkunlink ==
  <<Unlink(Name("x")), Ok(Fork("pid", "linkunlink_child"))>>
  \o Loop(Rounds, LAMBDA i : linkunlink_turn(7 * i + 3)) \o <<Wait(""), Exit(0)>>
linkunlink_child == Loop(Rounds, LAMBDA i : linkunlink_turn(7 * i + 1)) \o <<Exit(0)>>

\* Child ci writes its file ci + 1 times over, each time more than a transaction takes.
manywrites == Loop(Children, LAMBDA ci : <<Ok(Fork("pid", Nth("manywrites", ci)))>>) \o WaitAll(Children) \o <<Exit(0)>>
manywrites_child ==
  Named("manywrites", Children, LAMBDA ci :
    LET name == Name(Nth("b", ci)) IN
    <<Unlink(name)>>
    \o Loop(ci + 1, LAMBDA i :
         <<Ok(Open("fd", name, CREATE \cup RDWR)), Gives(Write("fd", Fill(LongCells, "b")), LongCells), Close("fd")>>)
    \o <<Unlink(name), Unlink(name), Exit(0)>>)

-----------------------------------------------------------------------------
(* Directories.                                                            *)

subdir ==
  LET dd(e) == Path(<<"dd">> \o e) IN
  <<Unlink(Name("ff")), Ok(Mkdir(Name("dd"))), Ok(Open("fd", dd(<<"ff">>), CREATE \cup RDWR)),
    Write("fd", <<"f", "f">>), Close("fd"), Fails(Unlink(Name("dd"))), Ok(Mkdir(Abs(<<"dd", "dd">>))),
    Ok(Open("fd", dd(<<"dd", "ff">>), CREATE \cup RDWR)), Write("fd", <<"F", "F">>), Close("fd"),
    Ok(Open("fd", dd(<<"dd", "..", "ff">>), RDONLY)), Gives(Read("fd", BufCells), 2), Is("buf", <<"f", "f">>), Close("fd"),
    Ok(Link(dd(<<"dd", "ff">>), dd(<<"dd", "ffff">>))), Ok(Unlink(dd(<<"dd", "ff">>))),
    Fails(Open("fd", dd(<<"dd", "ff">>), RDONLY)),
    Ok(Chdir(Name("dd"))), Ok(Chdir(dd(<<"..", "..", "dd">>))), Ok(Chdir(dd(<<"..", "..", "..", "dd">>))),
    Ok(Chdir(Path(<<".", "..">>))), Ok(Open("fd", dd(<<"dd", "ffff">>), RDONLY)), Gives(Read("fd", BufCells), 2), Close("fd")>>
  \o <<Fails(Open("fd", dd(<<"dd", "ff">>), RDONLY)), Fails(Open("fd", dd(<<"ff", "ff">>), CREATE \cup RDWR)),
       Fails(Open("fd", dd(<<"xx", "ff">>), CREATE \cup RDWR)), Fails(Open("fd", Name("dd"), CREATE)),
       Fails(Open("fd", Name("dd"), RDWR)), Fails(Open("fd", Name("dd"), WRONLY)),
       Fails(Link(dd(<<"ff", "ff">>), dd(<<"dd", "xx">>))), Fails(Link(dd(<<"xx", "ff">>), dd(<<"dd", "xx">>))),
       Fails(Link(dd(<<"ff">>), dd(<<"dd", "ffff">>))),
       Fails(Mkdir(dd(<<"ff", "ff">>))), Fails(Mkdir(dd(<<"xx", "ff">>))), Fails(Mkdir(dd(<<"dd", "ffff">>))),
       Fails(Unlink(dd(<<"xx", "ff">>))), Fails(Unlink(dd(<<"ff", "ff">>))),
       Fails(Chdir(dd(<<"ff">>))), Fails(Chdir(dd(<<"xx">>)))>>
  \o <<Ok(Unlink(dd(<<"dd", "ffff">>))), Ok(Unlink(dd(<<"ff">>))), Fails(Unlink(Name("dd"))),
       Ok(Unlink(dd(<<"dd">>))), Ok(Unlink(Name("dd"))), Exit(0)>>

\* Names longer than a directory entry holds.
fourteen ==
  LET n14 == "12345678901234"
      n15 == "123456789012345" IN
  <<Ok(Mkdir(Name(n14))), Ok(Mkdir(Path(<<n14, n15>>))), Ok(Open("fd", Path(<<n15, n15, n15>>), CREATE)), Close("fd"),
    Ok(Open("fd", Path(<<n14, n14, n14>>), RDONLY)), Close("fd"),
    Fails(Mkdir(Path(<<n14, n14>>))), Fails(Mkdir(Path(<<n15, n14>>))),
    Unlink(Path(<<n15, n14>>)), Unlink(Path(<<n14, n14>>)), Unlink(Path(<<n14, n14, n14>>)),
    Unlink(Path(<<n15, n15, n15>>)), Unlink(Path(<<n14, n15>>)), Unlink(Name(n14)), Exit(0)>>

rmdot ==
  <<Ok(Mkdir(Name("dots"))), Ok(Chdir(Name("dots"))), Fails(Unlink(Name("."))), Fails(Unlink(Name(".."))),
    Ok(Chdir(Abs(<<>>))), Fails(Unlink(Path(<<"dots", ".">>))), Fails(Unlink(Path(<<"dots", "..">>))),
    Ok(Unlink(Name("dots"))), Exit(0)>>

dirfile ==
  LET xx == Path(<<"dirfile", "xx">>) IN
  <<Ok(Open("fd", Name("dirfile"), CREATE)), Close("fd"), Fails(Chdir(Name("dirfile"))),
    Fails(Open("fd", xx, RDONLY)), Fails(Open("fd", xx, CREATE)), Fails(Mkdir(xx)), Fails(Unlink(xx)),
    Fails(Link(Name("README"), xx)), Ok(Unlink(Name("dirfile"))), Fails(Open("fd", Name("."), RDWR)),
    Open("fd", Name("."), RDONLY), NotMore(Write("fd", <<"x">>)), Close("fd"), Exit(0)>>

\* One directory more than the inode table has entries, each in the one before.
iref ==
  Loop(TableInodes + 1, LAMBDA i :
    <<Ok(Mkdir(Name("irefd"))), Ok(Chdir(Name("irefd"))), Mkdir(Empty), Link(Name("README"), Empty),
      Fails(Open("fd", Empty, CREATE)), Ok(Open("fd", Name("xx"), CREATE)), Close("fd"), Unlink(Name("xx"))>>)
  \o Loop(TableInodes + 1, LAMBDA i : <<Chdir(Name("..")), Unlink(Name("irefd"))>>)
  \o <<Chdir(Abs(<<>>)), Exit(0)>>

\* More names for one file than the direct blocks of a directory hold.
bigdir ==
  <<Unlink(Name("bd")), Ok(Open("fd", Name("bd"), CREATE)), Close("fd")>>
  \o Loop(DirEntries, LAMBDA i : <<Ok(Link(Name("bd"), Name(Nth("x", i))))>>) \o <<Unlink(Name("bd"))>>
  \o Loop(DirEntries, LAMBDA i : <<Ok(Unlink(Name(Nth("x", i))))>>) \o <<Exit(0)>>

-----------------------------------------------------------------------------
(* Memory the process does not have: the kernel must kill it.              *)

faults     == <<Ok(Fork("pid", "fault_child")), Wait("got"), Equals("xstatus", -1)>>
kernmem    == Loop(Turns, LAMBDA k : faults) \o <<Exit(0)>>
MAXVAplus  == Loop(Turns, LAMBDA k : faults) \o <<Exit(0)>>
\* The test passes on the status the kernel gives, else returns the child's.
stacktest  == <<Ok(Fork("pid", "fault_child")), Wait("got"), Else(Equals("xstatus", -1), 5), Exit(0), ExitWith("xstatus")>>
textwrite  == stacktest
fault_child == <<Fault, Exit(1)>>

sbrkarg ==
  <<Open("fd", Name("sbrk"), CREATE \cup WRONLY), Unlink(Name("sbrk")), Ok(Write("fd", Fill(4 * BlockCells, ""))),
    Close("fd"), Ok(Pipe), Exit(0)>>

bigargtest ==
  <<Unlink(Name("bigarg-ok")), Ok(Fork("pid", "bigarg_child")), Wait("got"), Equals("xstatus", 0),
    Ok(Open("fd", Name("bigarg-ok"), RDONLY)), Close("fd"), Unlink(Name("bigarg-ok")), Exit(0)>>
bigarg_child ==
  <<TooBig(Exec(Name("echo"), <<>>)), Open("fd", Name("bigarg-ok"), CREATE), Close("fd"), Exit(0)>>

-----------------------------------------------------------------------------
(* No more blocks, no more inodes.                                         *)

\* A write that fails must not keep a block for ever.
badwrite ==
  LET junk == <<Ok(Open("fd", Name("junk"), CREATE \cup WRONLY))>> IN
  <<Unlink(Name("junk"))>>
  \o Loop(DiskBlocks, LAMBDA i : junk \o <<AtBad(Write("fd", <<"x">>)), Close("fd"), Unlink(Name("junk"))>>)
  \o junk \o <<Gives(Write("fd", <<"x">>), 1), Close("fd"), Unlink(Name("junk")), Exit(0)>>

\* Files of the largest size until a write or a creation fails, then small
\* files and a directory until one finds no block; everything is removed again.
Make(path, out) == <<Unlink(path), Else(Ok(Open("fd", path, CREATE \cup RDWR \cup TRUNC)), out)>>
diskfull ==
  LET files == DiskBlocks \div FileBlocks + 1
      zz    == 4
      full  == files * (FileBlocks + 3) + 2
      after == full + 3 * zz + 1 IN
  <<Unlink(Name("diskfulldir"))>>
  \o Loop(files, LAMBDA fi :
       Make(Name(Nth("big", fi)), full + 1)
       \o Fill(FileBlocks, Else(Gives(Write("fd", Fill(BlockCells, "")), BlockCells), full)) \o <<Close("fd")>>)
  \o <<Close("fd")>>
  \o Loop(zz, LAMBDA i : Make(Name(Nth("zz", i)), after) \o <<Close("fd")>>)
  \o <<Mkdir(Name("diskfulldir")), Unlink(Name("diskfulldir"))>>
  \o Loop(zz, LAMBDA i : <<Unlink(Name(Nth("zz", i)))>>)
  \o Loop(files, LAMBDA fi : <<Unlink(Name(Nth("big", fi)))>>) \o <<Exit(0)>>

outofinodes ==
  Loop(DiskInodes, LAMBDA i : Make(Name(Nth("zz", i)), 3 * DiskInodes + 1) \o <<Close("fd")>>)
  \o Loop(DiskInodes, LAMBDA i : <<Unlink(Name(Nth("zz", i)))>>) \o <<Exit(0)>>

-----------------------------------------------------------------------------
(* The tests, each run in a process of its own.                            *)

\* run(): the test named in the arguments must exit with 0.
usertests == <<Ok(ForkAs("pid", Argv(1))), Wait("got"), Equals("xstatus", 0), Exit(0)>>

exit0 == <<Exit(0)>>

quicktests ==
  [copyin |-> copyin, copyout |-> copyout, copyinstr1 |-> copyinstr1, copyinstr2 |-> copyinstr2,
   copyinstr3 |-> copyinstr3, rwsbrk |-> rwsbrk, truncate1 |-> truncate1, truncate2 |-> truncate2,
   truncate3 |-> truncate3, openiput |-> openiputtest, exitiput |-> exitiputtest, iput |-> iputtest,
   opentest |-> opentest, writetest |-> writetest, writebig |-> writebig, createtest |-> createtest,
   dirtest |-> dirtest, exectest |-> exectest, pipe1 |-> pipe1, killstatus |-> killstatus]
  @@
  [preempt |-> preempt, exitwait |-> exitwait, reparent |-> reparent, twochildren |-> twochildren,
   forkfork |-> forkfork, reparent2 |-> reparent2, sharedfd |-> sharedfd, fourfiles |-> fourfiles,
   createdelete |-> createdelete, unlinkread |-> unlinkread, linktest |-> linktest, concreate |-> concreate,
   linkunlink |-> linkunlink, subdir |-> subdir, bigwrite |-> bigwrite, bigfile |-> bigfile,
   fourteen |-> fourteen, rmdot |-> rmdot, dirfile |-> dirfile, iref |-> iref, forktest |-> forktest]
  @@
  [kernmem |-> kernmem, MAXVAplus |-> MAXVAplus, sbrkarg |-> sbrkarg, validatetest |-> validatetest,
   bigargtest |-> bigargtest, argptest |-> argptest, stacktest |-> stacktest, textwrite |-> textwrite,
   pgbug |-> pgbug, badarg |-> badarg]

slowtests ==
  [bigdir |-> bigdir, manywrites |-> manywrites, badwrite |-> badwrite, diskfull |-> diskfull,
   outofinodes |-> outofinodes]

children ==
  [exit0 |-> exit0, forever |-> forever, copyinstr2_child |-> copyinstr2_child,
   truncate3_child |-> truncate3_child, exitiput_child |-> exitiput_child, openiput_child |-> openiput_child,
   exectest_child |-> exectest_child, pipe1_child |-> pipe1_child, preempt_child |-> preempt_child,
   reparent_child |-> reparent_child, forkfork_child |-> forkfork_child, reparent2_child |-> reparent2_child,
   sharedfd_child |-> sharedfd_child, linkunlink_child |-> linkunlink_child,
   fault_child |-> fault_child, bigarg_child |-> bigarg_child]
  @@ exit_status @@ fourfiles_child @@ createdelete_child @@ concreate_child @@ manywrites_child

\* "usertests t" at the console, for each test t.
TestLine(t) == "usertests " \o t
TestLines(S) == [l \in {TestLine(t) : t \in S} |->
                   <<Exec(Name("usertests"), <<[prog |-> CHOOSE t \in S : TestLine(t) = l]>>), Exit(0)>>]
Tests == DOMAIN quicktests \cup DOMAIN slowtests

Programs == [usertests |-> usertests] @@ quicktests @@ slowtests @@ children @@ TestLines(Tests) @@ Tools

=============================================================================
