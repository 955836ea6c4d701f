----------------------------- MODULE MCServices -----------------------------
(* Instances of Services for TLC.                                           *)
EXTENDS Services

(* BackbonService, one service that stops in its own destructor (as         *)
(* MsgService and GroupService do) and one that does not.                   *)
ThreeServices == <<"Backbon", "Msg", "Friend">>
=============================================================================
