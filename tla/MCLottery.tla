----------------------------- MODULE MCLottery -----------------------------
EXTENDS Lottery

Work(harts, progs, interrupts) == [harts |-> harts, progs |-> progs, beats |-> interrupts]

(* alarmtest, syscount and schedulertest on the Makefile's one hart, the   *)
(* slots used twice; a raffle; small programs on two harts.                *)
MCWorks ==
  {Work(1, <<"test0">>, 8), Work(1, <<"test2">>, 5),
   Work(1, <<"schedulertest", "syscount">>, 3), Work(1, <<"raffle">>, 2), Work(1, <<"cpu", "cpu">>, 2),
   Work(2, <<"command">>, 1), Work(2, <<"io">>, 2), Work(2, <<"test3">>, 1)}
=============================================================================
