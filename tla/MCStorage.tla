----------------------------- MODULE MCStorage ------------------------------
(* Instances of Conversation and of GroupRequests for TLC.  These parts of  *)
(* MySQLHandler share no state, so a behaviour belongs to one of them:      *)
(* "rows" is one conversation with everything that happens to its rows,     *)
(* "lists" the list of an account with two conversations, into which        *)
(* messages arrive one by one, "requests" the creation of groups beside     *)
(* processes that start, "repeats" the same on a clock that is set back and *)
(* without them, "ids" the generator by itself over more milliseconds.      *)
EXTENDS Conversation, GroupRequests, TLC

CONSTANTS
    ListIds,        \* bound: ids handed out in "lists"
    RequestClock,   \* bound: milliseconds in "requests" and "repeats"
    RequestIds,     \* bound: ids issued there
    request, payload   \* the first call's

VARIABLE part

(* The second and the third message are sent in one millisecond.            *)
SendTimes == [q \in 0..MaxSeq |-> q \div 2]

RowsNext ==
    /\ MessageStep \/ OwnerStep \/ FriendStep
    /\ \A m \in queued' : m.conv = 1
    /\ 2 \in friends'

(* The other side sends and does nothing else.                              *)
ListsNext ==
    /\ Next
    /\ lastId' <= ListIds /\ Cardinality(queued') <= 1
    /\ \A m \in queued' : m.from = "peer"
    /\ \A c \in Convs : <<c, "peer">> \notin pinned' \cup hidden'
                        /\ readSeq'[<<c, "peer">>] = 0

(* Request ids and payloads are interchangeable: those of the first call    *)
(* are given.                                                               *)
RequestsNext ==
    /\ GroupNext
    /\ clock' <= RequestClock /\ Len(ids') <= RequestIds
    /\ (\A c \in Callers : input[c] = None) =>
          \A c \in Callers : input'[c] \in {None, [id |-> request, name |-> payload]}

StorageInit ==
    /\ Init /\ GroupInit
    /\ part \in {"rows", "lists", "requests", "repeats", "ids"}

StorageNext ==
    \/ part = "rows" /\ RowsNext /\ UNCHANGED <<allVars, part>>
    \/ part = "lists" /\ ListsNext /\ UNCHANGED <<allVars, part>>
    \/ part = "requests" /\ RequestsNext /\ clock' >= clock /\ UNCHANGED <<vars, part>>
    \/ part = "repeats" /\ RequestsNext /\ UNCHANGED <<vars, part>>
       /\ \A p \in Starters : pc'[p] = "idle"
    \/ part = "ids" /\ SnowflakeNext /\ UNCHANGED <<vars, requestVars, part>>

StorageSpec == StorageInit /\ [][StorageNext]_<<vars, allVars, part>>

(* Calls and processes are interchangeable.                                 *)
GroupSymmetry == Permutations(Callers) \cup Permutations(Starters)
=============================================================================
