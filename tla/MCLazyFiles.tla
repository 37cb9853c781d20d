---------------------------- MODULE MCLazyFiles ----------------------------
(* TLC instances of LazyFiles.                                             *)
EXTENDS LazyFiles, TLC

Symmetry == Permutations(Requests)
=============================================================================
