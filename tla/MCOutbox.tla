------------------------------ MODULE MCOutbox ------------------------------
(* Instances of Outbox for TLC.                                             *)
EXTENDS Outbox, TLC

Symmetry == Permutations(Event) \cup Permutations(Relay)
=============================================================================
