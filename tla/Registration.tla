---------------------------- MODULE Registration ----------------------------
(* Registration of users: mysql_registration::create, once, lookup and      *)
(* refill, called by AuthServiceImpl::Register, with the account pool they  *)
(* share.  A client that hears nothing, or an uncertain answer, calls again *)
(* with the same request id, so that calls with one id may run side by side.*)
(*                                                                          *)
(* A transaction works under READ COMMITTED and the row locks it takes; its *)
(* effects become visible when the server commits it.  When the answer to   *)
(* COMMIT is lost, the server may commit it, or roll it back, at any later  *)
(* time.                                                                    *)
(*                                                                          *)
(* The input a request id is verified against is reduced to the phone       *)
(* number: inputs with different phones are different inputs.               *)
EXTENDS Integers, FiniteSetsExt

CONSTANTS
    Calls,      \* calls of Register
    Tool,       \* AccountPoolTool, which refills on its own
    Ids,        \* request ids
    Phones,
    SeededPhone,\* the phone of the user the schema comes with
    MaxAccount, \* kMaxAccount, counting the account of that user as 1
    LowWater,   \* kLowWaterMark
    RefillBatch,\* kRefillBatch
    Attempts,   \* attempts of once() and refill() at a transient failure
    None        \* no call, no row

ASSUME RegistrationAssumption ==
    /\ MaxAccount \in Nat \ {0} /\ LowWater \in Nat \ {0}
    /\ RefillBatch \in Nat \ {0} /\ Attempts \in Nat \ {0}
    /\ Tool \notin Calls /\ None \notin Calls \cup {Tool}
    /\ SeededPhone \in Phones

(* None is no row of a table, here or in Once.                              *)
ASSUME NoneIsNoRow ==
    /\ None \notin [phone : Phones, account : 1..MaxAccount]
    /\ None \notin [id : Ids, phone : Phones]
    /\ None \notin [input : Phones, result : 1..MaxAccount]
    /\ None \notin [id : Ids, input : Phones]

VARIABLES
    requests,   \* registration_requests: committed rows
    users,      \* users: phone and account
    free,       \* account_pool: rows with status 0
    used,       \* account_pool: rows with status 1
    cursor,     \* account_pool_cursor.next_start
    reqLock, poolLock, cursorLock,  \* holders of the row locks
    pc,         \* where a call, or the tool, is
    input,      \* request id and phone of a call
    tries,      \* transient failures of the running once() or refill()
    refilled,   \* calls that have been through refill()
    account,    \* account taken by the running transaction of a call
    doubt,      \* calls whose COMMIT the server has yet to decide
    answer      \* answer of a call: a code, and with "ok" an account

tables == <<requests, users, free, used, cursor>>
locks == <<reqLock, poolLock, cursorLock>>
vars == <<tables, locks, pc, input, tries, refilled, account, doubt, answer>>

Accounts == 1..MaxAccount
Actors == Calls \cup {Tool}
Codes == {"none", "ok", "conflict", "exists", "uncertain", "busy", "error", "unavailable"}
Row(phone, a) == [phone |-> phone, account |-> a]

(* The user of docker/mysql/init.sql: it has the first account, which is in  *)
(* no pool, and was registered by no request.                               *)
Seeded == Row(SeededPhone, 1)

TypeOK ==
    /\ requests \in [Ids -> [phone : Phones, account : Accounts] \cup {None}]
    /\ users \subseteq [phone : Phones, account : Accounts]
    /\ free \subseteq Accounts /\ used \subseteq Accounts
    /\ cursor \in 1..(MaxAccount + 1)
    /\ reqLock \in [Ids -> Calls \cup {None}]
    /\ poolLock \in Calls \cup {None}
    /\ cursorLock \in Actors \cup {None}
    /\ pc \in [Actors -> {"idle", "start", "phone", "pool", "insert", "commit",
                          "confirm", "refill", "refillCommit", "done"}]
    /\ input \in [Calls -> [id : Ids, phone : Phones] \cup {None}]
    /\ tries \in [Actors -> 0..(Attempts - 1)]
    /\ refilled \subseteq Calls /\ doubt \subseteq Calls
    /\ account \in [Calls -> Accounts \cup {0}]
    /\ answer \in [Calls -> [code : Codes, account : Accounts \cup {0}]]

Init ==
    /\ requests = [i \in Ids |-> None] /\ users = {Seeded}
    /\ free = {} /\ used = {} /\ cursor = 2
    /\ reqLock = [i \in Ids |-> None] /\ poolLock = None /\ cursorLock = None
    /\ pc = [p \in Actors |-> "idle"]
    /\ input = [c \in Calls |-> None]
    /\ tries = [p \in Actors |-> 0]
    /\ refilled = {} /\ doubt = {}
    /\ account = [c \in Calls |-> 0]
    /\ answer = [c \in Calls |-> [code |-> "none", account |-> 0]]

-----------------------------------------------------------------------------
Id(c) == input[c].id
Phone(c) == input[c].phone
PhoneTaken(c) == \E u \in users : u.phone = Phone(c)

(* The end of a transaction: its row locks go.                              *)
Release(c) ==
    /\ reqLock' = [i \in Ids |-> IF reqLock[i] = c THEN None ELSE reqLock[i]]
    /\ poolLock' = IF poolLock = c THEN None ELSE poolLock
    /\ cursorLock' = IF cursorLock = c THEN None ELSE cursorLock

(* Register answers the client.                                             *)
Answer(c, code, a) ==
    /\ pc' = [pc EXCEPT ![c] = "done"]
    /\ answer' = [answer EXCEPT ![c] = [code |-> code, account |-> a]]

Refuse(c, code) == Answer(c, code, 0)

(* verify and replay: a completed request answers with its account, unless  *)
(* it was made with another input.                                          *)
Replay(c, row) ==
    IF row.phone = Phone(c) THEN Answer(c, "ok", row.account) ELSE Refuse(c, "conflict")

(* Register with valid arguments: create() calls once().                    *)
Register(c, i, phone) ==
    /\ pc[c] = "idle"
    /\ pc' = [pc EXCEPT ![c] = "start"]
    /\ input' = [input EXCEPT ![c] = [id |-> i, phone |-> phone]]
    /\ UNCHANGED <<tables, locks, tries, refilled, account, doubt, answer>>

(* Mutant of LockRequest: concurrent calls with one id are not serialised.  *)
LockRequestUnlocked(c) ==
    /\ pc[c] = "start"
    /\ LET row == requests[Id(c)] IN
       IF row = None
       THEN /\ pc' = [pc EXCEPT ![c] = "phone"] /\ UNCHANGED answer
       ELSE Replay(c, row)
    /\ UNCHANGED <<tables, locks, input, tries, refilled, account, doubt>>

(* once: the row of the request id is inserted or found, under its lock; a  *)
(* completed request is replayed, a different input refused.                *)
LockRequest(c) ==
    /\ pc[c] = "start" /\ reqLock[Id(c)] = None
    /\ LET row == requests[Id(c)] IN
       IF row = None
       THEN /\ reqLock' = [reqLock EXCEPT ![Id(c)] = c]
            /\ pc' = [pc EXCEPT ![c] = "phone"]
            /\ UNCHANGED answer
       ELSE /\ Replay(c, row)
            /\ UNCHANGED reqLock
    /\ UNCHANGED <<tables, poolLock, cursorLock, input, tries, refilled, account, doubt>>

(* once: SELECT of the phone number.                                        *)
CheckPhone(c) ==
    /\ pc[c] = "phone"
    /\ IF PhoneTaken(c) THEN Refuse(c, "exists") /\ Release(c)
       ELSE pc' = [pc EXCEPT ![c] = "pool"] /\ UNCHANGED <<answer, locks>>
    /\ UNCHANGED <<tables, input, tries, refilled, account, doubt>>

(* once: the first free account is locked.  Everyone asks for the same row, *)
(* so the lock stands for all of them; batches are shuffled, so any free    *)
(* account may be the first.                                                *)
TakeAccount(c) ==
    /\ pc[c] = "pool" /\ poolLock = None
    /\ \E a \in free :
        /\ account' = [account EXCEPT ![c] = a]
        /\ poolLock' = c
        /\ pc' = [pc EXCEPT ![c] = "insert"]
    /\ UNCHANGED <<tables, reqLock, cursorLock, input, tries, refilled, doubt, answer>>

(* Mutant of PoolEmpty: the transaction stays open during the refill.       *)
PoolEmptyHolding(c) ==
    /\ pc[c] = "pool" /\ poolLock = None /\ free = {}
    /\ IF c \in refilled THEN Refuse(c, "unavailable") /\ Release(c)
       ELSE pc' = [pc EXCEPT ![c] = "refill"] /\ UNCHANGED <<answer, locks>>
    /\ tries' = [tries EXCEPT ![c] = 0]
    /\ UNCHANGED <<tables, input, refilled, account, doubt>>

(* once, create: no free account.  The transaction is rolled back before    *)
(* the only refill; the second time the call gives up.                      *)
PoolEmpty(c) ==
    /\ pc[c] = "pool" /\ poolLock = None /\ free = {}
    /\ IF c \in refilled THEN Refuse(c, "unavailable")
       ELSE pc' = [pc EXCEPT ![c] = "refill"] /\ UNCHANGED answer
    /\ tries' = [tries EXCEPT ![c] = 0]
    /\ Release(c)
    /\ UNCHANGED <<tables, input, refilled, account, doubt>>

(* once: insert_user, and the two UPDATEs.  UNIQUE(phone) and               *)
(* UNIQUE(account) answer 1062.                                             *)
InsertUser(c) ==
    /\ pc[c] = "insert"
    /\ IF PhoneTaken(c) THEN Refuse(c, "exists") /\ Release(c)
       ELSE IF \E u \in users : u.account = account[c]
       THEN Refuse(c, "error") /\ Release(c)
       ELSE pc' = [pc EXCEPT ![c] = "commit"] /\ UNCHANGED <<answer, locks>>
    /\ UNCHANGED <<tables, input, tries, refilled, account, doubt>>

(* Mutant of Effects: the account stays free.                               *)
EffectsLeaveFree(c) ==
    /\ users' = users \cup {Row(Phone(c), account[c])}
    /\ requests' = [requests EXCEPT ![Id(c)] = Row(Phone(c), account[c])]
    /\ UNCHANGED <<free, used, cursor>>

(* What the transaction of a call writes.                                   *)
Effects(c) ==
    /\ users' = users \cup {Row(Phone(c), account[c])}
    /\ free' = free \ {account[c]} /\ used' = used \cup {account[c]}
    /\ requests' = [requests EXCEPT ![Id(c)] = Row(Phone(c), account[c])]
    /\ UNCHANGED cursor

Commit(c) ==
    /\ pc[c] = "commit"
    /\ Effects(c) /\ Release(c)
    /\ Answer(c, "ok", account[c])
    /\ UNCHANGED <<input, tries, refilled, account, doubt>>

(* The connection is lost with COMMIT under way.                            *)
CommitLost(c) ==
    /\ pc[c] = "commit"
    /\ pc' = [pc EXCEPT ![c] = "confirm"]
    /\ doubt' = doubt \cup {c}
    /\ UNCHANGED <<tables, locks, input, tries, refilled, account, answer>>

ServerDecides(c) ==
    /\ c \in doubt
    /\ doubt' = doubt \ {c}
    /\ Effects(c) \/ UNCHANGED tables
    /\ Release(c)
    /\ UNCHANGED <<pc, input, tries, refilled, account, answer>>

(* Mutant of Confirm: the account taken is reported without looking.        *)
ConfirmBlindly(c) ==
    /\ pc[c] = "confirm"
    /\ Answer(c, "ok", account[c])
    /\ UNCHANGED <<tables, locks, input, tries, refilled, account, doubt>>

(* once after a lost COMMIT: lookup on another connection, which may fail   *)
(* and does not wait for locks.                                             *)
Confirm(c) ==
    /\ pc[c] = "confirm"
    /\ \/ Refuse(c, "uncertain")
       \/ /\ requests[Id(c)] # None /\ requests[Id(c)].phone = Phone(c)
          /\ Answer(c, "ok", requests[Id(c)].account)
    /\ UNCHANGED <<tables, locks, input, tries, refilled, account, doubt>>

InTransaction(c) == pc[c] \in {"start", "phone", "pool", "insert"}

(* A deadlock or the lock wait timeout: rolled back and tried again.        *)
Transient(c) ==
    /\ InTransaction(c) /\ Release(c)
    /\ IF tries[c] < Attempts - 1
       THEN /\ tries' = [tries EXCEPT ![c] = @ + 1]
            /\ pc' = [pc EXCEPT ![c] = "start"]
            /\ UNCHANGED answer
       ELSE Refuse(c, "busy") /\ UNCHANGED tries
    /\ UNCHANGED <<tables, input, refilled, account, doubt>>

(* Any other failure before COMMIT.                                         *)
Fails(c) ==
    /\ InTransaction(c) /\ Release(c)
    /\ Refuse(c, "error")
    /\ UNCHANGED <<tables, input, tries, refilled, account, doubt>>

-----------------------------------------------------------------------------
(* refill, of a call or of the tool.                                        *)

ToolStarts ==
    /\ pc[Tool] = "idle"
    /\ pc' = [pc EXCEPT ![Tool] = "refill"]
    /\ UNCHANGED <<tables, locks, input, tries, refilled, account, doubt, answer>>

(* refill is over: create() calls once() a second time.                     *)
Refilled(p) ==
    /\ pc' = [pc EXCEPT ![p] = IF p = Tool THEN "idle" ELSE "start"]
    /\ tries' = [tries EXCEPT ![p] = 0]
    /\ refilled' = refilled \cup ({p} \ {Tool})
    /\ UNCHANGED answer

(* refill throws.                                                           *)
RefillThrows(p, code) ==
    /\ IF p = Tool THEN pc' = [pc EXCEPT ![p] = "idle"] /\ UNCHANGED answer
       ELSE Refuse(p, code)
    /\ tries' = [tries EXCEPT ![p] = 0]
    /\ UNCHANGED refilled

Known == {u.account : u \in users} \cup free \cup used

(* The cursor is locked; enough accounts end the refill; that no account is *)
(* known (MAX is NULL), a cursor at or below a known one and the end of the *)
(* range are errors.                                                        *)
LockCursor(p) ==
    /\ pc[p] = "refill" /\ cursorLock = None
    /\ IF Cardinality(free) >= LowWater THEN Refilled(p) /\ UNCHANGED cursorLock
       ELSE IF Known = {} \/ (\E a \in Known : a >= cursor) \/ cursor > MaxAccount
       THEN RefillThrows(p, "error") /\ UNCHANGED cursorLock
       ELSE /\ cursorLock' = p
            /\ pc' = [pc EXCEPT ![p] = "refillCommit"]
            /\ UNCHANGED <<tries, refilled, answer>>
    /\ UNCHANGED <<tables, reqLock, poolLock, input, account, doubt>>

(* The end of the batch, cut at the end of the range.                       *)
BatchEnd == Min({cursor + RefillBatch, MaxAccount + 1})

(* The cursor moves and the batch is inserted.  The cursor is the one read  *)
(* under the lock, which is held since.                                     *)
AddBatch ==
    /\ free' = free \cup (cursor..(BatchEnd - 1))
    /\ cursor' = BatchEnd
    /\ UNCHANGED <<requests, users, used>>

RefillCommits(p) ==
    /\ pc[p] = "refillCommit"
    /\ AddBatch /\ Release(p) /\ Refilled(p)
    /\ UNCHANGED <<input, account, doubt>>

(* The answer to COMMIT is lost: REFILL_UNCERTAIN, whatever the server did. *)
RefillLost(p) ==
    /\ pc[p] = "refillCommit"
    /\ AddBatch \/ UNCHANGED tables
    /\ Release(p) /\ RefillThrows(p, "uncertain")
    /\ UNCHANGED <<input, account, doubt>>

(* A deadlock or a lock wait timeout, or another failure.                   *)
RefillTransient(p) ==
    /\ pc[p] \in {"refill", "refillCommit"} /\ Release(p)
    /\ IF tries[p] < Attempts - 1
       THEN /\ tries' = [tries EXCEPT ![p] = @ + 1]
            /\ pc' = [pc EXCEPT ![p] = "refill"]
            /\ UNCHANGED <<answer, refilled>>
       ELSE RefillThrows(p, "busy")
    /\ UNCHANGED <<tables, input, account, doubt>>

RefillFails(p) ==
    /\ pc[p] \in {"refill", "refillCommit"} /\ Release(p)
    /\ RefillThrows(p, "error")
    /\ UNCHANGED <<tables, input, account, doubt>>

-----------------------------------------------------------------------------
Progress(c) ==
    \/ LockRequest(c) \/ CheckPhone(c) \/ TakeAccount(c) \/ PoolEmpty(c)
    \/ InsertUser(c) \/ Commit(c) \/ Confirm(c)

RefillProgress(p) == LockCursor(p) \/ RefillCommits(p)

Next ==
    \/ \E c \in Calls :
        \/ \E i \in Ids, phone \in Phones : Register(c, i, phone)
        \/ Progress(c) \/ CommitLost(c) \/ ServerDecides(c)
        \/ Transient(c) \/ Fails(c)
    \/ ToolStarts
    \/ \E p \in Actors :
        RefillProgress(p) \/ RefillLost(p) \/ RefillTransient(p) \/ RefillFails(p)

Spec == Init /\ [][Next]_vars

(* Fairness: the server executes statements whose locks are free, and ends  *)
(* the transactions of connections it has lost.  No lock wait needs its     *)
(* timeout.                                                                 *)
LiveSpec ==
    /\ Spec
    /\ \A c \in Calls : SF_vars(Progress(c)) /\ WF_vars(ServerDecides(c))
    /\ \A p \in Actors : SF_vars(RefillProgress(p))

-----------------------------------------------------------------------------
(* The answers as a client tells them apart.                                *)
Told(c) ==
    [code |-> IF answer[c].code \in {"none", "ok", "conflict"} THEN answer[c].code
              ELSE "refused",
     result |-> IF answer[c].code = "ok" THEN answer[c].account ELSE None]

O == INSTANCE Once WITH
    Inputs <- Phones, Results <- Accounts,
    done <- [i \in Ids |-> IF requests[i] = None THEN None
                           ELSE [input |-> requests[i].phone, result |-> requests[i].account]],
    effects <- {[input |-> u.phone, result |-> u.account] : u \in users \ {Seeded}},
    asked <- [c \in Calls |-> IF input[c] = None THEN None
                             ELSE [id |-> Id(c), input |-> Phone(c)]],
    answer <- [c \in Calls |-> Told(c)]

(* Registration takes effect at most once per request id: one user and one  *)
(* account for all the calls that carry the id, also those after a COMMIT   *)
(* whose answer was lost, and every call that hears of an account hears of  *)
(* that one.                                                                *)
ImplementsOnce == O!Spec

(* PHONE_EXISTS is told only when another request, or the seeded user, owns *)
(* the phone number, never to a retry of the request that registered it.    *)
ExistsMeansOther ==
    \A c \in Calls : answer[c].code = "exists" =>
        \/ Phone(c) = SeededPhone
        \/ \E i \in Ids \ {Id(c)} : requests[i] # None /\ requests[i].phone = Phone(c)

(* Requests, users and pool agree: users are the seeded one and the         *)
(* completed requests, every account and phone belongs to one of them, the  *)
(* accounts marked used are those of completed requests, no user's account  *)
(* is free, and the cursor is above every account known, whoever refills at *)
(* the same time: no account is handed out twice.                           *)
TablesAgree ==
    /\ users = {Seeded} \cup {requests[i] : i \in {j \in Ids : requests[j] # None}}
    /\ \A i, j \in Ids : requests[i] # None /\ requests[j] # None /\ i # j =>
        requests[i].phone # requests[j].phone /\ requests[i].account # requests[j].account
    /\ \A i \in Ids : requests[i] # None =>
        requests[i].phone # Seeded.phone /\ requests[i].account # Seeded.account
    /\ used = {u.account : u \in users \ {Seeded}}
    /\ \A u \in users : u.account \notin free
    /\ \A a \in Known : a < cursor

(* Every call is answered.                                                  *)
AlwaysAnswered == \A c \in Calls : pc[c] = "start" ~> pc[c] = "done"
=============================================================================
