------------------------------ MODULE Channel -------------------------------
(* What a Kafka partition with its consumers promises to the producer of a  *)
(* record: records are handled at least once, for the first time in the     *)
(* order of the partition, and the group's offset never passes a record     *)
(* that nobody has handled.  Records may be handled again at any time, and  *)
(* the offset may fall back.                                                *)
EXTENDS Integers

VARIABLES
    log,        \* number of records sent
    handled,    \* records handled at least once, numbered from 0
    committed   \* where a consumer begins that knows nothing else

vars == <<log, handled, committed>>

Init == log = 0 /\ handled = {} /\ committed = 0

Send == log' = log + 1 /\ UNCHANGED <<handled, committed>>

Handle ==
    /\ \E o \in 0..(log - 1) :
        /\ 0..(o - 1) \subseteq handled
        /\ handled' = handled \cup {o}
    /\ UNCHANGED log

Commit ==
    /\ \E n \in 0..log : committed' = n /\ 0..(n - 1) \subseteq handled'
    /\ UNCHANGED log

Next ==
    \/ Send
    \/ Handle /\ UNCHANGED committed
    \/ Commit /\ UNCHANGED handled
    \/ Handle /\ Commit

Spec == Init /\ [][Next]_vars
=============================================================================
