----------------------------- MODULE MCGateway ------------------------------
(* Instances of Gateway for TLC.                                            *)
EXTENDS Gateway, TLC

(* Connections are interchangeable.                                         *)
SessionSymmetry == Permutations(Sessions)
=============================================================================
