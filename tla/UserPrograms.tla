---------------------------- MODULE UserPrograms -----------------------------
(***************************************************************************)
(* The user programs of cow_xv6/user as programs of module FileCalls: the  *)
(* system calls usys.pl gives them, and init, sh and the small commands.   *)
(* A test of a result is the set of results a program goes on with (want); *)
(* with any other it goes to instruction els, or exits with 1 when els is  *)
(* 0.  What is printed is left out, except the text echo and cat copy.     *)
(***************************************************************************)
EXTENDS Integers, Sequences, TLC
LOCAL INSTANCE SequencesExt

CONSTANTS
  Turns,     \* turns of a loop that repeats the same calls
  Rounds,    \* turns of such a loop when another process runs it too
  BufCells   \* cells of a buffer that takes a whole file

-----------------------------------------------------------------------------
(* Path names: a string the kernel cannot fetch, or the elements of a path *)
(* from the root or from the current directory, or one held by a variable. *)

Path(e)   == [ok |-> TRUE, abs |-> FALSE, elems |-> e]
Abs(e)    == [ok |-> TRUE, abs |-> TRUE, elems |-> e]
Name(n)   == Path(<<n>>)
Empty     == Path(<<>>)
NoString  == [ok |-> FALSE]
Argv(n)   == [argv |-> n]
ReadName  == [entry |-> "buf"]

(* System calls.                                                           *)

Good == 0 .. 999
Bad  == {-1}
Sys(op)       == [op |-> op, to |-> "", want |-> Good \cup Bad, els |-> 0]
Ok(i)         == [i EXCEPT !.want = Good]
Some(i)       == [i EXCEPT !.want = Good \ {0}]
Fails(i)      == [i EXCEPT !.want = Bad]
NotMore(i)    == [i EXCEPT !.want = Bad \cup {0}]
Gives(i, v)   == [i EXCEPT !.want = {v}]
Else(i, n)    == [i EXCEPT !.els = n]

Open(v, path, mode) == [path |-> path, mode |-> mode] @@ [Sys("open") EXCEPT !.to = v]
Close(v)      == [fd |-> v] @@ Sys("close")
Read(v, n)    == [fd |-> v, n |-> n, ok |-> TRUE] @@ Sys("read")
Cells(d)      == [n \in DOMAIN d |-> [inum |-> 0, name |-> d[n]]]
Write(v, d)   == [fd |-> v, data |-> Cells(d), from |-> "", ok |-> TRUE] @@ Sys("write")
Copy(v, b)    == [Write(v, <<>>) EXCEPT !.from = b]
AtBad(i)      == [i EXCEPT !.ok = FALSE]
Link(old, new) == [path |-> old, new |-> new] @@ Sys("link")
Unlink(path)  == [path |-> path] @@ Sys("unlink")
Mkdir(path)   == [path |-> path] @@ Sys("mkdir")
Mknod(path, major) == [path |-> path, major |-> major] @@ Sys("mknod")
Chdir(path)   == [path |-> path] @@ Sys("chdir")
Dup(v, w)     == [fd |-> v] @@ [Sys("dup") EXCEPT !.to = w]
Fstat(v)      == [fd |-> v] @@ Sys("fstat")
Pipe          == [ok |-> TRUE] @@ Sys("pipe")
ForkAs(v, child) == [child |-> child] @@ [Sys("fork") EXCEPT !.to = v]
Fork(v, child) == ForkAs(v, [prog |-> child])
Wait(v)       == [Sys("wait") EXCEPT !.to = v]
Kill(v)       == [pid |-> v] @@ Sys("kill")
Exec(path, arg) == [path |-> path, arg |-> arg, big |-> FALSE] @@ Sys("exec")
TooBig(i)     == [i EXCEPT !.big = TRUE]
Getpid(v)     == [Sys("getpid") EXCEPT !.to = v]
Sleep         == Sys("sleep")
Exit(n)       == [status |-> n, var |-> ""] @@ Sys("exit")
ExitWith(v)   == [status |-> 0, var |-> v] @@ Sys("exit")

\* What a program does without the kernel: it spins, jumps, touches memory it
\* does not have, looks at its variables, keeps what it has read.
Spin          == Sys("spin")
Goto(s)       == [among |-> s] @@ Sys("goto")
Fault         == Sys("fault")
Is(v, d)      == [var |-> v, v |-> Cells(d)] @@ Gives(Sys("is"), 0)
Has(v, c, n)  == [var |-> v, v |-> c, n |-> n] @@ Gives(Sys("has"), 0)
Lists(v, s)   == [var |-> v, v |-> s] @@ Gives(Sys("lists"), 0)
Same(a, b)    == [var |-> a, v |-> b] @@ Gives(Sys("same"), 0)
Equals(v, n)  == [var |-> v, v |-> n] @@ Gives(Sys("equals"), 0)
Keep(v)       == [var |-> v] @@ Sys("keep")

RDONLY == {}
WRONLY == {"wronly"}
RDWR   == {"rdwr"}
CREATE == {"create"}
TRUNC  == {"trunc"}

\* A body for each of the turns 0 .. n - 1 of a loop.
Loop(n, Body(_)) == FlattenSeq([k \in 1 .. n |-> Body(k - 1)])
Fill(n, c)       == [k \in 1 .. n |-> c]
Nth(s, n)        == s \o ToString(n)
Named(s, n, Body(_)) == [x \in {Nth(s, k) : k \in 0 .. n - 1} |->
                           Body(CHOOSE k \in 0 .. n - 1 : Nth(s, k) = x)]

-----------------------------------------------------------------------------
(* From the first process to the shell.                                    *)

console == Name("console")

initcode == <<Exec(Abs(<<"init">>), <<>>), Exit(0)>>

\* init opens the console, making it first if need be, starts the shell and
\* waits for children of its own and of others.
init ==
  <<Else(Ok(Open("0", console, RDWR)), 3), Goto({5}),
    Mknod(console, 1), Open("0", console, RDWR), Dup("0", "1"), Dup("0", "2"),
    Ok(Fork("pid", "init_child")),
    Ok(Wait("wpid")), Else(Same("wpid", "pid"), 8), Goto({7})>>
init_child == <<Exec(Name("sh"), <<>>), Exit(1)>>

\* The shell makes sure of three descriptors, then reads one command after the
\* other from the console, and a child runs it.
sh ==
  <<Open("3", console, RDWR), Close("3"),
    Ok(Read("0", 1)), Ok(ForkAs("child", ReadName)), Wait("got"), Goto({3})>>

-----------------------------------------------------------------------------
(* Commands.                                                               *)

echo  == <<Copy("1", "argv"), Exit(0)>>
ln    == <<Link(Argv(1), Argv(2)), Exit(0)>>
rm    == <<Unlink(Argv(1)), Exit(0)>>
mkdir == <<Mkdir(Argv(1)), Exit(0)>>

cat ==
  <<Ok(Open("fd", Argv(1), RDONLY)),
    Else(Some(Read("fd", 2)), 5), Ok(Copy("1", "buf")), Goto({2}), Close("fd"), Exit(0)>>

wc == <<Else(Some(Read("0", 2)), 3), Goto({1}), Exit(0)>>

\* ls looks up every entry of the directory by its name.
ls ==
  <<Ok(Open("fd", Name("."), RDONLY)), Ok(Fstat("fd")),
    Else(Some(Read("fd", 1)), 9), Else(Has("buf", "", 0), 3),
    Else(Ok(Open("fd2", ReadName, RDONLY)), 3), Ok(Fstat("fd2")), Close("fd2"), Goto({3}),
    Close("fd"), Exit(0)>>

zombie       == <<Ok(Fork("pid", "zombie_child")), Sleep, Exit(0)>>
zombie_child == <<Exit(0)>>

\* Parent and child write a file each and read it back.
stress(path) ==
  <<Open("fd", path, CREATE \cup RDWR)>> \o Loop(Rounds, LAMBDA k : <<Write("fd", <<"a">>)>>)
  \o <<Close("fd"), Open("fd", path, RDONLY)>> \o Loop(Rounds, LAMBDA k : <<Read("fd", 1)>>)
  \o <<Close("fd"), Wait("got"), Exit(0)>>
stressfs       == <<Fork("pid", "stressfs_child")>> \o stress(Name("stressfs0"))
stressfs_child == stress(Name("stressfs1"))

-----------------------------------------------------------------------------
(* Command lines, as runcmd() of the shell's child goes through them.      *)

line_ls     == <<Exec(Name("ls"), <<>>), Exit(0)>>
line_zombie == <<Exec(Name("zombie"), <<>>), Exit(0)>>
line_stress == <<Exec(Name("stressfs"), <<>>), Exit(0)>>
line_none   == <<Exec(Name("nosuch"), <<>>), Exit(0)>>

\* mkdir d; ln README d/r; rm d  -- a list runs its left side first.
line_list   == <<Ok(Fork("left", "line_mkdir")), Wait("got"), Ok(Fork("left", "line_ln")), Wait("got"),
                 Exec(Name("rm"), <<Name("d")>>), Exit(0)>>
line_mkdir  == <<Exec(Name("mkdir"), <<Name("d")>>), Exit(0)>>
line_ln     == <<Exec(Name("ln"), <<Name("README"), Path(<<"d", "r">>)>>), Exit(0)>>

\* echo hi > out; cat out | wc  -- redirection and a pipe.
line_pipe   == <<Ok(Fork("left", "line_redir")), Wait("got"),
                 Ok(Pipe), Ok(Fork("left", "line_left")), Ok(Fork("right", "line_right")),
                 Close("r"), Close("w"), Wait("got"), Wait("got"), Exit(0)>>
line_redir  == <<Close("1"), Ok(Open("1", Name("out"), WRONLY \cup CREATE \cup TRUNC)),
                 Exec(Name("echo"), Cells(<<"h", "i", "!">>)), Exit(0)>>
line_left   == <<Close("1"), Dup("w", "1"), Close("r"), Close("w"),
                 Exec(Name("cat"), <<Name("out")>>), Exit(0)>>
line_right  == <<Close("0"), Dup("r", "0"), Close("r"), Close("w"),
                 Exec(Name("wc"), <<>>), Exit(0)>>

\* zombie &  -- nobody waits for a command in the background.
line_back   == <<Ok(Fork("left", "line_zombie")), Exit(0)>>

Lines == {"line_ls", "line_zombie", "line_stress", "line_none", "line_list", "line_pipe", "line_back"}

Tools ==
  [initcode |-> initcode, init |-> init, init_child |-> init_child, sh |-> sh,
   echo |-> echo, ln |-> ln, rm |-> rm, mkdir |-> mkdir, cat |-> cat, wc |-> wc, ls |-> ls,
   zombie |-> zombie, zombie_child |-> zombie_child,
   stressfs |-> stressfs, stressfs_child |-> stressfs_child]
  @@
  [line_ls |-> line_ls, line_zombie |-> line_zombie, line_stress |-> line_stress, line_none |-> line_none,
   line_list |-> line_list, line_mkdir |-> line_mkdir, line_ln |-> line_ln,
   line_pipe |-> line_pipe, line_redir |-> line_redir, line_left |-> line_left,
   line_right |-> line_right, line_back |-> line_back]

=============================================================================
