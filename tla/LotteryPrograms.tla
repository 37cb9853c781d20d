-------------------------- MODULE LotteryPrograms --------------------------
(* The programs initial-xv6/user has for the system calls it adds, as code  *)
(* for module Lottery: alarmtest, syscount and schedulertest.  An           *)
(* instruction is a system call or a step in user mode; a timer interrupt   *)
(* may come before each, any number of times, so a loop that only passes    *)
(* the time needs no instruction.  The ten alarms of test1() and the ten    *)
(* children of schedulertest are two.                                       *)
EXTENDS Integers, Sequences

Ecall(call) == [op |-> "ecall", call |-> call]
Write == Ecall("write")
Fork == Ecall("fork")
Wait == Ecall("wait")
Waitx == Ecall("waitx")
Sigreturn == Ecall("sigreturn")
Sigalarm(n, handler) == [op |-> "ecall", call |-> "sigalarm", n |-> n, handler |-> handler]
Sleep(n) == [op |-> "ecall", call |-> "sleep", n |-> n]
Exit(status) == [op |-> "ecall", call |-> "exit", n |-> status]
Exec(prog) == [op |-> "ecall", call |-> "exec", prog |-> prog]
GetSysCount(call) == [op |-> "ecall", call |-> "getSysCount", of |-> call]
SetTickets(n) == [op |-> "ecall", call |-> "settickets", n |-> n]

Zero == [op |-> "zero"]                               \* count = 0, i = j = 0
Count == [op |-> "count"]                             \* count = count + 1
Adds(n) == [op |-> "adds", n |-> n]                   \* to j - i
Until(n, to) == [op |-> "until", n |-> n, to |-> to]  \* if (count >= n) break
Jump(to) == [op |-> "jump", to |-> to]                \* to any of them
Goto(prog) == [op |-> "goto", prog |-> prog]
InChild(prog) == [op |-> "child", prog |-> prog]      \* if (fork() == 0)
Li(v) == [op |-> "li", v |-> v]                       \* a0 = v
Passes(what, v) == [op |-> "passes", what |-> what, v |-> v]

------------------------------------------------------------------------------
(* alarmtest.c *)

test0 ==
  <<Zero, Sigalarm(2, "periodic"), Write, Until(1, 6), Jump({4}), Sigalarm(0, "none"), Goto("test1")>>
test1 ==
  <<Zero, Sigalarm(2, "periodic"), Until(2, 7), Adds(1), Adds(-1), Jump({3}),
    Passes("drift", 0), Goto("test2")>>
test2 == <<Fork, InChild("test2child"), Wait, Passes("status", 0), Goto("test3")>>
test2child == <<Zero, Sigalarm(2, "slow_handler"), Until(1, 5), Jump({3}), Exit(0)>>
test3 == <<Sigalarm(1, "dummy_handler"), Write, Li(172), Passes("a0", 172), Exit(0)>>

periodic == <<Count, Write, Sigreturn>>
slow_handler == <<Count, Write, Until(2, 6), Sigalarm(0, "none"), Sigreturn, Exit(1)>>
dummy_handler == <<Sigalarm(0, "none"), Sigreturn>>

(* syscount.c with the mask of write; its command writes, and so does the *)
(* child it waits for.                                                    *)
syscount == <<Fork, InChild("exec"), Wait, GetSysCount("write"), Passes("a0", 2), Exit(0)>>
execs == <<Exec("command")>>
command == <<Fork, InChild("writer"), Write, Wait, Exit(0)>>
writer == <<Write, Exit(0)>>

(* schedulertest.c *)
schedulertest == <<Fork, InChild("io"), Fork, InChild("cpu"), Waitx, Waitx, Exit(0)>>
io == <<Sleep(2), Exit(0)>>
cpu == <<Zero, Exit(0)>>

(* A caller of settickets(), which no program of the repository is: two *)
(* children with the tickets of their parent, one of which gives some up, *)
(* and a fork() and a wait() too many.                                    *)
raffle ==
  <<SetTickets(2), Fork, InChild("cpu"), Fork, InChild("poor"), Fork, Passes("a0", -1),
    Wait, Wait, Wait, Passes("a0", -1), Exit(0)>>
poor == <<SetTickets(0), SetTickets(1), Zero, Exit(0)>>

(* What a process may be started in, and what only an alarm does. *)
Mains ==
  {"test0", "test1", "test2", "test2child", "test3", "syscount", "exec", "command", "writer",
   "schedulertest", "io", "cpu", "raffle", "poor"}
Handlers == {"periodic", "slow_handler", "dummy_handler"}

Programs == [prog \in Mains \cup Handlers |->
  CASE prog = "test0" -> test0 [] prog = "test1" -> test1 [] prog = "test2" -> test2
    [] prog = "test2child" -> test2child [] prog = "test3" -> test3
    [] prog = "periodic" -> periodic [] prog = "slow_handler" -> slow_handler
    [] prog = "dummy_handler" -> dummy_handler
    [] prog = "syscount" -> syscount [] prog = "exec" -> execs
    [] prog = "command" -> command [] prog = "writer" -> writer
    [] prog = "schedulertest" -> schedulertest [] prog = "io" -> io [] prog = "cpu" -> cpu
    [] prog = "raffle" -> raffle [] prog = "poor" -> poor]

(* init.c, which runs sh, which runs these programs one after the other. *)
InitCode(progs) ==
  [i \in 1..(3 * Len(progs) + 1) |->
     IF i > 3 * Len(progs) THEN Jump({i})
     ELSE CASE i % 3 = 1 -> Fork
            [] i % 3 = 2 -> InChild(progs[(i + 1) \div 3])
            [] OTHER -> Wait]
=============================================================================
