----------------------------- MODULE MCDevices -----------------------------
(* Workloads for Devices.  A call is a record with the name of the kernel   *)
(* function and its arguments.                                              *)
EXTENDS Devices, TLC

CONSTANTS p1, p2, p3, h1, h2, b1, b2, b3, b4, nl, eof, kill, bs, x

DoRead(b) == [f |-> "bread", b |-> b]
Modify(b, v) == [f |-> "modify", b |-> b, v |-> v]
Bwrite(b) == [f |-> "bwrite", b |-> b]
Brelse(b) == [f |-> "brelse", b |-> b]
Pinned(b, up) == [f |-> "pin", b |-> b, up |-> up]
Read(n) == [f |-> "read", n |-> n]
Write(c) == [f |-> "write", c |-> c]
Nap(n) == [f |-> "sleep", n |-> n]
Kill(p) == [f |-> "kill", p |-> p]
Ret == [f |-> "ret"]

Reader(b) == <<DoRead(b), Brelse(b)>>
Writer(b, v) == <<DoRead(b), Modify(b, v), Bwrite(b), Brelse(b)>>
Logger(b, v) ==
  <<DoRead(b), Modify(b, v), Pinned(b, TRUE), Brelse(b), Nap(1), DoRead(b), Bwrite(b), Pinned(b, FALSE), Brelse(b)>>
Work(hs, n, q1, q2, q3, ks) == [harts |-> hs, preemptions |-> n, calls |-> (p1 :> q1 @@ p2 :> q2 @@ p3 :> q3), keys |-> ks]

MCWorkloads ==
  { Work({h1, h2}, 1, Writer(b1, 1), Reader(b1), <<>>, <<>>),             \* one block, two harts
    Work({h1}, 0, Writer(b1, 1), Reader(b2), Reader(b3), <<>>),           \* more requests than descriptors
    Work({h1}, 0, Logger(b1, 1), Reader(b2) \o Reader(b3), <<>>, <<>>),           \* a pinned buffer nobody holds
    Work({h1}, 0, Writer(b1, 1) \o Reader(b2) \o Reader(b3) \o Reader(b4) \o Reader(b1),
                  Writer(b1, 2), <<>>, <<>>),                            \* recycling
    Work({h1, h2}, 0, <<Write(x), Write(x)>>, <<Read(3)>>, <<>>, <<x, nl>>),               \* echo and output
    Work({h1}, 1, <<Read(2)>>, <<Read(2)>>, <<>>, <<x, bs, x, kill, x, x, nl, eof>>),      \* editing, a full line, ^D
    Work({h1, h2}, 0, <<Nap(1), Ret>>, <<Kill(p1), Kill(p3)>>, <<Read(1), Ret, Write(x)>>, <<x>>) }   \* sleep(), kill()
MCLocks == {"vdisk", "cons", "uart", "ticks"}
=============================================================================
