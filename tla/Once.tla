-------------------------------- MODULE Once --------------------------------
(* What an operation that clients repeat under a request id promises: it    *)
(* takes effect at most once per id, whatever number of calls carry the id, *)
(* run side by side, or come back after their answer was lost; a success    *)
(* that is answered is the effect that took place, and the same for every   *)
(* call; an id that was used with another input is refused for it.          *)
(*                                                                          *)
(* Registration and GroupRequests implement it.                             *)

CONSTANTS
    Ids,        \* request ids
    Calls,
    Inputs,
    Results,    \* what an effect hands out: an account, a group number
    None

VARIABLES
    done,       \* the input and the result of a request that took effect
    effects,    \* the effects there are, whatever they are recorded in
    asked,      \* the request id and the input of a call
    answer      \* the answer of a call

vars == <<done, effects, asked, answer>>

Effect(input, result) == [input |-> input, result |-> result]
Told(code, result) == [code |-> code, result |-> result]

Init ==
    /\ done = [i \in Ids |-> None] /\ effects = {}
    /\ asked = [c \in Calls |-> None]
    /\ answer = [c \in Calls |-> Told("none", None)]

Ask(c) ==
    /\ asked[c] = None
    /\ \E i \in Ids, x \in Inputs : asked' = [asked EXCEPT ![c] = [id |-> i, input |-> x]]
    /\ UNCHANGED <<done, effects, answer>>

(* The request of a call takes effect, with a result never given before.    *)
Perform(c) ==
    /\ asked[c] # None /\ done[asked[c].id] = None
    /\ \E r \in Results :
        /\ \A e \in effects : e.result # r
        /\ done' = [done EXCEPT ![asked[c].id] = Effect(asked[c].input, r)]
        /\ effects' = effects \cup {Effect(asked[c].input, r)}
    /\ UNCHANGED asked

(* A call is answered, once; a refusal for other reasons promises nothing.  *)
Answer(c) ==
    LET row == done'[asked[c].id] IN
    /\ asked[c] # None /\ answer[c].code = "none"
    /\ \/ /\ row # None /\ row.input = asked[c].input
          /\ answer' = [answer EXCEPT ![c] = Told("ok", row.result)]
       \/ /\ row # None /\ row.input # asked[c].input
          /\ answer' = [answer EXCEPT ![c] = Told("conflict", None)]
       \/ answer' = [answer EXCEPT ![c] = Told("refused", None)]

Next == \E c \in Calls :
    \/ Ask(c)
    \/ Perform(c) /\ UNCHANGED answer
    \/ Perform(c) /\ Answer(c)
    \/ UNCHANGED <<done, effects, asked>> /\ Answer(c)

Spec == Init /\ [][Next]_vars
=============================================================================
