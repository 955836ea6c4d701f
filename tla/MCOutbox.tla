------------------------------ MODULE MCOutbox ------------------------------
(* Instances of Outbox for TLC.                                             *)
EXTENDS Outbox, TLC

Symmetry == Permutations(Workers) \cup Permutations(Keys) \cup Permutations(Contents)
=============================================================================
