---------------------------- MODULE MCCowMemory ----------------------------
(* TLC instances of CowMemory: small sets for the cfg files.               *)
EXTENDS CowMemory, TLC

AnyCall     == AllCalls
SafeCall    == {"store", "fork", "exit", "wait", "grow"}
TextLow     == {0}

\* Every slot but the first process' is interchangeable.
Symmetry == Permutations(Procs \ {InitProc})
=============================================================================
