----------------------------- MODULE MCFriends ------------------------------
(* An instance of Friends for TLC: a deals with b and with c.               *)
EXTENDS Friends, TLC

CONSTANTS a, b, c

WithA == {{a, b}, {a, c}}

(* Calls are interchangeable, and so are the two partners of a.             *)
FriendSymmetry == Permutations(Calls) \cup Permutations({b, c})
=============================================================================
