------------------------------- MODULE MCMlfq -------------------------------
(* TLC instances of Mlfq: fewer and shorter slices than time_slices[].     *)
EXTENDS Mlfq, TLC

Slices3 == 0 :> 1 @@ 1 :> 2 @@ 2 :> 2
=============================================================================
