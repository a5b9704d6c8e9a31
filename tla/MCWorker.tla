------------------------------ MODULE MCWorker ------------------------------
(* Instances of Worker for TLC: MCWorker.cfg is fair and has no symmetry.    *)
EXTENDS Worker, TLC

CONSTANTS e1, e2

\* The names are in the order of the INSERTs; either transaction commits first.
InOrder == e1 :> 1 @@ e2 :> 2
=============================================================================
