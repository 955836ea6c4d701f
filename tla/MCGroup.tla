------------------------------ MODULE MCGroup -------------------------------
(* Instances of Group for TLC.                                              *)
EXTENDS Group
=============================================================================
