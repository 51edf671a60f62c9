------------------------ MODULE MCServerLifecycle ------------------------
(***************************************************************************)
(* Instances of ServerLifecycle for TLC.  The configurations give the sets *)
(* of operations, faults and commands and the bounds; the workers are      *)
(* interchangeable, which the runs without liveness use.                   *)
(***************************************************************************)
EXTENDS ServerLifecycleInv, TLC

WorkerSymmetry == Permutations(Workers)
==========================================================================
