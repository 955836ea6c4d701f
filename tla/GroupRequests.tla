--------------------------- MODULE GroupRequests ----------------------------
(* Group mutations under their request ids: executeOnPool with              *)
(* im_group_requests, for Create: a group id from Snowflake::nextId and a   *)
(* public number from allocateGroupNumber.  Processes that start give the   *)
(* groups of older versions a number, EnsureGroupNumbers, beside the calls  *)
(* of others.                                                               *)
(*                                                                          *)
(* A transaction holds the row of its request, and from allocateGroupNumber *)
(* on the cursor row, to its end.  The client is answered DB_ERROR when the *)
(* deadline of GroupClient passes or COMMIT loses its answer; the           *)
(* transaction then goes on, and the client repeats the command in a call   *)
(* of its own.  The other mutations share executeOnPool; what they do under *)
(* the group's lock is in Group.                                            *)
EXTENDS Snowflake

CONSTANTS
    Requests,   \* request ids of an actor
    Payloads,   \* payloads of Create
    Callers,    \* calls of ExecuteGroupCommand
    Starters,   \* processes that start
    Legacy,     \* groups without a number, from older versions
    MaxNumber,  \* kMaxAccount, counting the first number as 1
    None

ASSUME GroupRequestsAssumption ==
    /\ MaxNumber \in Nat /\ None \notin Callers \cup Starters \cup Payloads
    /\ Callers \cap Starters = {}

(* None is no row of a table and no input.                                  *)
ASSUME NoneIsNoRow ==
    /\ None \notin [id : Requests, name : Payloads] \cup [id : Requests, input : Payloads]
    /\ None \notin [name : Payloads, number : 1..MaxNumber]
                    \cup [input : Payloads, result : 1..MaxNumber]

VARIABLES
    requests,   \* im_group_requests: payload and, in the reply, the number
    groups,     \* im_groups: the payload a group was created with, by id
    numbers,    \* im_group_numbers: the number of a group, by id
    cursor,     \* im_group_number_cursor.next_number
    reqLock, cursorLock,    \* holders of the row locks
    pc,         \* where a call, or a starting process, is
    input,      \* request id and payload of a call
    answer,     \* its answer
    group,      \* the id it got from nextId
    missing     \* groups a starting process has yet to number

groupTables == <<requests, groups, numbers, cursor>>
groupLocks == <<reqLock, cursorLock>>
requestVars == <<groupTables, groupLocks, pc, input, answer, group, missing>>
allVars == <<snowflakeVars, requestVars>>

Actors == Callers \cup Starters
Numbers == 1..MaxNumber
Row(name, n) == [name |-> name, number |-> n]
Told(code, n) == [code |-> code, result |-> n]

GroupInit ==
    /\ SnowflakeInit
    /\ requests = [r \in Requests |-> None]
    /\ groups = [g \in Legacy |-> None] /\ numbers = <<>> /\ cursor = 1
    /\ reqLock = [r \in Requests |-> None] /\ cursorLock = None
    /\ pc = [p \in Actors |-> "idle"]
    /\ input = [c \in Callers |-> None]
    /\ answer = [c \in Callers |-> Told("none", None)]
    /\ group = [c \in Callers |-> None]
    /\ missing = [p \in Starters |-> {}]

-----------------------------------------------------------------------------
Id(c) == input[c].id
Name(c) == input[c].name

(* The end of a transaction.                                                *)
Release(p) ==
    /\ reqLock' = [r \in Requests |-> IF reqLock[r] = p THEN None ELSE reqLock[r]]
    /\ cursorLock' = IF cursorLock = p THEN None ELSE cursorLock

(* The call is over; a client that was answered already hears nothing more. *)
Ends(c, told) ==
    /\ pc' = [pc EXCEPT ![c] = "done"]
    /\ answer' = [answer EXCEPT ![c] = IF @.code = "none" THEN told ELSE @]
    /\ group' = [group EXCEPT ![c] = None]

ExecuteGroupCommand(c) ==
    /\ pc[c] = "idle" /\ pc' = [pc EXCEPT ![c] = "request"]
    /\ \E r \in Requests, x \in Payloads : input' = [input EXCEPT ![c] = [id |-> r, name |-> x]]
    /\ UNCHANGED <<snowflakeVars, groupTables, groupLocks, answer, group, missing>>

(* Mutant of LockRequest: the request row is read without its lock.         *)
ReadRequest(c) ==
    /\ pc[c] = "request"
    /\ LET row == requests[Id(c)] IN
       IF row = None THEN pc' = [pc EXCEPT ![c] = "id"] /\ UNCHANGED <<answer, group>>
       ELSE Ends(c, Told("ok", row.number))
    /\ UNCHANGED <<snowflakeVars, groupTables, groupLocks, input, missing>>

(* executeOnPool: the request row is inserted or found, under its lock.  A  *)
(* row is committed with its reply, so that one found by another call is    *)
(* complete: its reply is answered again, or another payload refused.       *)
LockRequest(c) ==
    /\ pc[c] = "request" /\ reqLock[Id(c)] = None
    /\ LET row == requests[Id(c)] IN
       IF row = None
       THEN /\ reqLock' = [reqLock EXCEPT ![Id(c)] = c]
            /\ pc' = [pc EXCEPT ![c] = "id"] /\ UNCHANGED <<answer, group>>
       ELSE /\ Ends(c, IF row.name = Name(c) THEN Told("ok", row.number)
                       ELSE Told("conflict", None))
            /\ UNCHANGED reqLock
    /\ UNCHANGED <<snowflakeVars, groupTables, cursorLock, input, missing>>

(* perform, Create: nextId returns, or waits holding its mutex.             *)
TakeId(c) ==
    /\ \/ pc[c] = "id" /\ NextId
       \/ pc[c] = "wait" /\ (Wake \/ SpinEnds)
    /\ IF at' = "none"
       THEN /\ pc' = [pc EXCEPT ![c] = "number"]
            /\ group' = [group EXCEPT ![c] = ids'[Len(ids')]]
       ELSE pc' = [pc EXCEPT ![c] = "wait"] /\ UNCHANGED group
    /\ UNCHANGED <<groupTables, groupLocks, input, answer, missing>>

(* Messages take ids from the same generator.                               *)
MessageId ==
    /\ \/ NextId
       \/ (\A c \in Callers : pc[c] # "wait") /\ (Wake \/ SpinEnds)
    /\ UNCHANGED requestVars

(* INSERT INTO im_groups, whose key refuses an id that was issued before    *)
(* (Fails); allocateGroupNumber: the cursor is locked, and read until the   *)
(* end of the transaction.                                                  *)
LockCursor(c) ==
    /\ pc[c] = "number" /\ cursorLock = None /\ cursor <= MaxNumber
    /\ group[c] \notin DOMAIN groups
    /\ cursorLock' = c /\ pc' = [pc EXCEPT ![c] = "commit"]
    /\ UNCHANGED <<snowflakeVars, groupTables, reqLock, input, answer, group, missing>>

(* GROUP_NUMBER_EXHAUSTED.                                                  *)
Exhausted(c) ==
    /\ pc[c] = "number" /\ cursorLock = None /\ cursor > MaxNumber
    /\ Ends(c, Told("refused", None)) /\ Release(c)
    /\ UNCHANGED <<snowflakeVars, groupTables, input, missing>>

(* allocateGroupNumber: INSERT of the number and UPDATE of the cursor.      *)
Allocate(g) ==
    /\ numbers' = [h \in DOMAIN numbers \cup {g} |-> IF h = g THEN cursor ELSE numbers[h]]
    /\ cursor' = cursor + 1

(* The group with its number and its owner, and the reply, in one COMMIT.   *)
Commit(c) ==
    /\ pc[c] = "commit"
    /\ Allocate(group[c])
    /\ groups' = [h \in DOMAIN groups \cup {group[c]} |->
                    IF h = group[c] THEN Name(c) ELSE groups[h]]
    /\ requests' = [requests EXCEPT ![Id(c)] = Row(Name(c), cursor)]
    /\ Release(c) /\ Ends(c, Told("ok", cursor))
    /\ UNCHANGED <<snowflakeVars, input, missing>>

(* An error before COMMIT, nextId's and that of a repeated group id too:    *)
(* the request row is rolled back.                                          *)
Fails(c) ==
    /\ pc[c] \in {"request", "id", "number", "commit"}
    /\ Ends(c, Told("refused", None)) /\ Release(c)
    /\ UNCHANGED <<snowflakeVars, groupTables, input, missing>>

(* DB_ERROR is answered while the transaction is under way.                 *)
GivesUp(c) ==
    /\ pc[c] \notin {"idle", "done"} /\ answer[c].code = "none"
    /\ answer' = [answer EXCEPT ![c] = Told("refused", None)]
    /\ UNCHANGED <<snowflakeVars, groupTables, groupLocks, pc, input, group, missing>>

-----------------------------------------------------------------------------
(* InitializeGroups, EnsureGroupNumbers of a starting process.              *)

HasNumber == DOMAIN numbers

FindMissing(p) ==
    /\ pc[p] = "idle"
    /\ missing' = [missing EXCEPT ![p] = DOMAIN groups \ HasNumber]
    /\ pc' = [pc EXCEPT ![p] = "ensure"]
    /\ UNCHANGED <<snowflakeVars, groupTables, groupLocks, input, answer, group>>

LockForEnsure(p) ==
    /\ pc[p] = "ensure" /\ missing[p] # {} /\ cursorLock = None
    /\ cursorLock' = p /\ pc' = [pc EXCEPT ![p] = "number"]
    /\ UNCHANGED <<snowflakeVars, groupTables, reqLock, input, answer, group, missing>>

(* Mutant of EnsureNumber: the group is not looked up again.                *)
EnsureBlindly(p) ==
    /\ pc[p] = "number" /\ p \in Starters
    /\ \E g \in missing[p] :
        /\ Allocate(g)
        /\ missing' = [missing EXCEPT ![p] = @ \ {g}]
    /\ UNCHANGED <<requests, groups>> /\ Release(p)
    /\ pc' = [pc EXCEPT ![p] = "ensure"]
    /\ UNCHANGED <<snowflakeVars, input, answer, group>>

(* One transaction per group, which may have got its number meanwhile.  The *)
(* order of the ids is left open.                                           *)
EnsureNumber(p) ==
    /\ pc[p] = "number" /\ p \in Starters
    /\ \E g \in missing[p] :
        /\ \/ g \in HasNumber /\ UNCHANGED <<numbers, cursor>>
           \/ g \notin HasNumber /\ cursor <= MaxNumber /\ Allocate(g)
        /\ missing' = [missing EXCEPT ![p] = @ \ {g}]
    /\ UNCHANGED <<requests, groups>> /\ Release(p)
    /\ pc' = [pc EXCEPT ![p] = "ensure"]
    /\ UNCHANGED <<snowflakeVars, input, answer, group>>

(* A failure ends the start: main leaves, and somebody starts it again.     *)
EnsureFails(p) ==
    /\ pc[p] = "number" /\ p \in Starters
    /\ Release(p) /\ pc' = [pc EXCEPT ![p] = "idle"]
    /\ missing' = [missing EXCEPT ![p] = {}]
    /\ UNCHANGED <<snowflakeVars, groupTables, input, answer, group>>

Started(p) ==
    /\ pc[p] = "ensure" /\ missing[p] = {}
    /\ pc' = [pc EXCEPT ![p] = "up"]
    /\ UNCHANGED <<snowflakeVars, groupTables, groupLocks, input, answer, group, missing>>

-----------------------------------------------------------------------------
GroupNext ==
    \/ \E c \in Callers :
        \/ ExecuteGroupCommand(c) \/ LockRequest(c) \/ TakeId(c)
        \/ LockCursor(c) \/ Exhausted(c) \/ Commit(c) \/ Fails(c) \/ GivesUp(c)
    \/ \E p \in Starters :
        FindMissing(p) \/ LockForEnsure(p) \/ EnsureNumber(p) \/ EnsureFails(p) \/ Started(p)
    \/ MessageId
    \/ (Tick \/ StepBack) /\ UNCHANGED requestVars

GroupSpec == GroupInit /\ [][GroupNext]_allVars

-----------------------------------------------------------------------------
O == INSTANCE Once WITH
    Ids <- Requests, Calls <- Callers, Inputs <- Payloads, Results <- Numbers,
    done <- [r \in Requests |-> IF requests[r] = None THEN None
              ELSE [input |-> requests[r].name, result |-> requests[r].number]],
    effects <- {[input |-> groups[g], result |-> numbers[g]] :
                  g \in (DOMAIN groups \ Legacy) \cap HasNumber},
    asked <- [c \in Callers |-> IF input[c] = None THEN None
                ELSE [id |-> Id(c), input |-> Name(c)]]

(* One group per request: calls that carry one id, side by side or after a  *)
(* lost answer, create a single group and hear of its number, and nobody is *)
(* told of a group that was rolled back, even when nextId repeats an id.    *)
ImplementsOnce == O!Spec

(* Both keys of im_group_numbers are never hit: a group keeps the number it *)
(* got, and no number is given twice, whoever creates and starts at once.   *)
NumbersOnce ==
    [][/\ \A g \in HasNumber : numbers'[g] = numbers[g]
       /\ \A g, h \in DOMAIN numbers' : numbers'[g] = numbers'[h] => g = h]_allVars
=============================================================================
