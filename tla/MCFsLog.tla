------------------------------ MODULE MCFsLog ------------------------------
(* TLC instances of FsLog.                                                 *)
EXTENDS FsLog, TLC

Symmetry == Permutations(Procs) \cup Permutations(Blocks) \cup Permutations(Values)
=============================================================================
