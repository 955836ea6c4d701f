------------------------- MODULE RegistrationProofs -------------------------
(* The tables of the registration agree, PHONE_EXISTS means another request *)
(* and registration implements Once, for any number of calls, request ids,  *)
(* phones and accounts.                                                     *)
EXTENDS Registration, TLAPS

(* Calls whose transaction holds the row of their request, has taken an     *)
(* account, and has only to be committed.                                   *)
Open(c) == pc[c] \in {"phone", "pool", "insert", "commit"} \/ c \in doubt
Took(c) == pc[c] \in {"insert", "commit"} \/ c \in doubt
Due(c) == pc[c] = "commit" \/ c \in doubt

(* What a call has: an input once it began, no answer before it is over;    *)
(* and in doubt it only waits for its confirmation.                         *)
CallsOK ==
    \A c \in Calls :
        /\ pc[c] = "idle" <=> input[c] = None
        /\ pc[c] # "done" => answer[c].code = "none"
        /\ c \in doubt => pc[c] \in {"confirm", "done"}

(* What the row locks protect: the request has not taken effect, the        *)
(* account stays free and nobody registers the phone.                       *)
LocksOK ==
    \A c \in Calls :
        /\ Open(c) => reqLock[Id(c)] = c /\ requests[Id(c)] = None
        /\ Took(c) => poolLock = c /\ account[c] \in free
        /\ Due(c) => ~PhoneTaken(c)

Inv == TypeOK /\ CallsOK /\ LocksOK /\ TablesAgree /\ ExistsMeansOther

-----------------------------------------------------------------------------
LEMMA InitInv == Init => Inv
<1> SUFFICES ASSUME Init PROVE Inv
  OBVIOUS
<1> USE RegistrationAssumption
<1>0. Seeded \in [phone : Phones, account : Accounts] /\ Seeded.account = 1
  BY DEF Seeded, Row, Accounts
<1>1. TypeOK
  BY <1>0 DEF Init, TypeOK, Accounts, Codes, Actors
<1>2. CallsOK
  BY DEF Init, CallsOK, Actors
<1>3. LocksOK
  BY DEF Init, LocksOK, Open, Took, Due, Actors
<1>4. TablesAgree
  BY <1>0 DEF Init, TablesAgree, Known
<1>5. ExistsMeansOther
  BY DEF Init, ExistsMeansOther
<1> QED BY <1>1, <1>2, <1>3, <1>4, <1>5 DEF Inv

(* The end of a transaction keeps the types of the locks, and what others   *)
(* hold.                                                                    *)
LEMMA ReleaseKeeps ==
    ASSUME TypeOK, NEW p \in Actors, Release(p)
    PROVE  /\ reqLock' \in [Ids -> Calls \cup {None}]
           /\ poolLock' \in Calls \cup {None}
           /\ cursorLock' \in Actors \cup {None}
           /\ \A i \in Ids : reqLock[i] # p => reqLock'[i] = reqLock[i]
           /\ poolLock # p => poolLock' = poolLock
  BY DEF TypeOK, Release

(* An answer keeps the types of pc and answer.                              *)
LEMMA AnswerTypes ==
    ASSUME TypeOK, NEW c \in Calls, NEW code \in Codes, NEW a \in Accounts \cup {0},
           Answer(c, code, a)
    PROVE  /\ pc' \in [Actors -> {"idle", "start", "phone", "pool", "insert", "commit",
                          "confirm", "refill", "refillCommit", "done"}]
           /\ answer' \in [Calls -> [code : Codes, account : Accounts \cup {0}]]
  BY DEF TypeOK, Answer, Actors

LEMMA BatchEndBounds ==
    ASSUME TypeOK
    PROVE  BatchEnd \in 1..(MaxAccount + 1) /\ BatchEnd >= cursor
<1> DEFINE S == {cursor + RefillBatch, MaxAccount + 1}
<1>0. cursor \in Nat /\ cursor >= 1 /\ cursor <= MaxAccount + 1 /\ MaxAccount \in Nat
      /\ RefillBatch \in Nat
  BY RegistrationAssumption DEF TypeOK
<1>1. \E x \in S : \A y \in S : x =< y
  BY <1>0
<1>2. Min(S) \in S /\ \A y \in S : Min(S) =< y
  BY <1>1 DEF Min
<1>3. BatchEnd = Min(S)
  BY DEF BatchEnd
<1> HIDE DEF S
<1>4. BatchEnd \in S /\ \A y \in S : BatchEnd =< y
  BY <1>2, <1>3
<1> QED BY <1>0, <1>4 DEF S

-----------------------------------------------------------------------------
(* Type correctness, action by action.                                      *)

(* A call in a transaction has an input, and an account if it took one.     *)
LEMMA OpenCall ==
    ASSUME TypeOK, CallsOK, LocksOK, NEW c \in Calls
    PROVE  /\ pc[c] # "idle" => /\ input[c] \in [id : Ids, phone : Phones]
                               /\ Id(c) \in Ids /\ Phone(c) \in Phones
           /\ c \in doubt => pc[c] # "idle"
           /\ Took(c) => account[c] \in Accounts
  BY DEF TypeOK, CallsOK, LocksOK, Id, Phone

LEMMA EffectsTypes ==
    ASSUME TypeOK, CallsOK, LocksOK, NEW c \in Calls, Due(c), Effects(c)
    PROVE  /\ requests' \in [Ids -> [phone : Phones, account : Accounts] \cup {None}]
           /\ users' \subseteq [phone : Phones, account : Accounts]
           /\ free' \subseteq Accounts /\ used' \subseteq Accounts
           /\ cursor' \in 1..(MaxAccount + 1)
<1>1. Id(c) \in Ids /\ Phone(c) \in Phones /\ account[c] \in Accounts
  BY OpenCall DEF Due, Took
<1> QED BY <1>1 DEF Effects, Row, TypeOK

LEMMA TypeStepCall ==
    ASSUME TypeOK, CallsOK, LocksOK, NEW c \in Calls,
           \/ \E i \in Ids, phone \in Phones : Register(c, i, phone)
           \/ Progress(c) \/ CommitLost(c) \/ ServerDecides(c)
           \/ Transient(c) \/ Fails(c)
    PROVE  TypeOK'
<1> USE RegistrationAssumption DEF Actors
<1>0. c \in Actors
  OBVIOUS
<1>1. CASE \E i \in Ids, phone \in Phones : Register(c, i, phone)
  BY <1>1 DEF Register, TypeOK, tables, locks
<1>2. CASE LockRequest(c)
  <2>1. input[c] \in [id : Ids, phone : Phones]
    BY <1>2 DEF LockRequest, CallsOK, TypeOK
  <2>2. CASE requests[Id(c)] = None
    BY <1>2, <2>1, <2>2 DEF LockRequest, TypeOK, tables, Id
  <2>3. CASE requests[Id(c)] # None
    <3>1. requests[Id(c)] \in [phone : Phones, account : Accounts]
      BY <2>1, <2>3 DEF TypeOK, Id
    <3>2. Replay(c, requests[Id(c)]) /\ UNCHANGED <<tables, locks, input, tries, refilled, account, doubt>>
      BY <1>2, <2>3 DEF LockRequest, locks
    <3>3. \E code \in Codes, a \in Accounts \cup {0} : Answer(c, code, a)
      BY <3>1, <3>2 DEF Replay, Refuse, Codes
    <3> QED BY <3>2, <3>3, AnswerTypes DEF TypeOK, tables, locks
  <2> QED BY <2>2, <2>3
<1>3. CASE CheckPhone(c) \/ InsertUser(c)
  <2>1. UNCHANGED <<tables, input, tries, refilled, account, doubt>>
    BY <1>3 DEF CheckPhone, InsertUser
  <2>2. CASE \E code \in Codes : Refuse(c, code) /\ Release(c)
    BY <1>0, <2>1, <2>2, AnswerTypes, ReleaseKeeps DEF Refuse, TypeOK, tables
  <2>3. CASE \E to \in {"pool", "commit"} : pc' = [pc EXCEPT ![c] = to] /\ UNCHANGED <<answer, locks>>
    BY <2>1, <2>3 DEF TypeOK, tables, locks
  <2> QED BY <1>3, <2>2, <2>3 DEF CheckPhone, InsertUser, Codes
<1>4. CASE TakeAccount(c)
  BY <1>4 DEF TakeAccount, TypeOK, tables
<1>5. CASE PoolEmpty(c)
  <2>1. /\ UNCHANGED <<tables, input, refilled, account, doubt>> /\ Release(c)
        /\ tries' = [tries EXCEPT ![c] = 0]
    BY <1>5 DEF PoolEmpty
  <2>2. tries' \in [Actors -> 0..(Attempts - 1)]
    BY <2>1 DEF TypeOK
  <2>3. CASE Refuse(c, "unavailable")
    BY <1>0, <2>1, <2>2, <2>3, AnswerTypes, ReleaseKeeps DEF Refuse, TypeOK, tables, Codes
  <2>4. CASE pc' = [pc EXCEPT ![c] = "refill"] /\ UNCHANGED answer
    BY <1>0, <2>1, <2>2, <2>4, ReleaseKeeps DEF TypeOK, tables
  <2> QED BY <1>5, <2>3, <2>4 DEF PoolEmpty
<1>6. CASE Commit(c)
  <2>1. Due(c) /\ Took(c)
    BY <1>6 DEF Commit, Due, Took
  <2>2. account[c] \in Accounts
    BY <2>1, OpenCall
  <2>3. /\ Effects(c) /\ Release(c) /\ Answer(c, "ok", account[c])
        /\ UNCHANGED <<input, tries, refilled, account, doubt>>
    BY <1>6 DEF Commit
  <2> QED BY <1>0, <2>1, <2>2, <2>3, EffectsTypes, ReleaseKeeps, AnswerTypes DEF TypeOK, Codes
<1>7. CASE CommitLost(c)
  BY <1>7 DEF CommitLost, TypeOK, tables, locks
<1>8. CASE ServerDecides(c)
  <2>1. /\ Due(c) /\ doubt' = doubt \ {c} /\ Release(c) /\ (Effects(c) \/ UNCHANGED tables)
        /\ UNCHANGED <<pc, input, tries, refilled, account, answer>>
    BY <1>8 DEF ServerDecides, Due
  <2> QED BY <1>0, <2>1, EffectsTypes, ReleaseKeeps DEF TypeOK, tables
<1>9. CASE Confirm(c)
  <2>1. UNCHANGED <<tables, locks, input, tries, refilled, account, doubt>>
    BY <1>9 DEF Confirm
  <2>2. Id(c) \in Ids
    BY <1>9, OpenCall DEF Confirm
  <2>3. \E code \in Codes, a \in Accounts \cup {0} : Answer(c, code, a)
    BY <1>9, <2>2 DEF Confirm, Refuse, Codes, TypeOK
  <2> QED BY <2>1, <2>3, AnswerTypes DEF TypeOK, tables, locks
<1>10. CASE Transient(c) \/ Fails(c)
  <2>1. Release(c) /\ UNCHANGED <<tables, input, refilled, account, doubt>>
    BY <1>10 DEF Transient, Fails
  <2>2. CASE UNCHANGED tries /\ \E code \in Codes : Refuse(c, code)
    BY <1>0, <2>1, <2>2, ReleaseKeeps, AnswerTypes DEF Refuse, TypeOK, tables
  <2>3. CASE /\ tries[c] < Attempts - 1 /\ tries' = [tries EXCEPT ![c] = @ + 1]
             /\ pc' = [pc EXCEPT ![c] = "start"] /\ UNCHANGED answer
    <3>1. tries' \in [Actors -> 0..(Attempts - 1)]
      BY <1>0, <2>3 DEF TypeOK
    <3> QED BY <1>0, <2>1, <2>3, <3>1, ReleaseKeeps DEF TypeOK, tables
  <2> QED BY <1>10, <2>2, <2>3 DEF Transient, Fails, Codes
<1> QED BY <1>1, <1>2, <1>3, <1>4, <1>5, <1>6, <1>7, <1>8, <1>9, <1>10 DEF Progress

(* Refills.                                                                 *)
Refill(p) == RefillProgress(p) \/ RefillLost(p) \/ RefillTransient(p) \/ RefillFails(p)

(* What a refill does to a call or to the tool: it goes on or starts again, *)
(* or a call is refused.                                                    *)
Advances(p) ==
    /\ \E to \in {"idle", "start", "refill", "refillCommit"} :
        /\ p \in Calls => to # "idle"
        /\ pc' = [pc EXCEPT ![p] = to]
    /\ UNCHANGED answer
Refused(p) == p \in Calls /\ \E code \in Codes \ {"ok", "exists", "conflict", "none"} : Refuse(p, code)

(* The kinds of refill steps.                                               *)
LEMMA RefillCases ==
    ASSUME TypeOK, NEW p \in Actors, Refill(p)
    PROVE  /\ pc[p] \in {"refill", "refillCommit"}
           /\ Advances(p) \/ Refused(p)
           /\ Release(p) \/ (UNCHANGED <<reqLock, poolLock>> /\ cursorLock' \in {cursorLock, p})
           /\ AddBatch \/ UNCHANGED tables
           /\ tries' \in [Actors -> 0..(Attempts - 1)]
           /\ refilled' \subseteq Calls
           /\ UNCHANGED <<input, account, doubt>>
<1> USE RegistrationAssumption DEF Actors
<1>1. ASSUME Refilled(p)
      PROVE  /\ Advances(p) /\ refilled' \subseteq Calls
             /\ tries' \in [Actors -> 0..(Attempts - 1)]
  <2>1. tries' \in [Actors -> 0..(Attempts - 1)] /\ refilled' \subseteq Calls
    BY <1>1 DEF Refilled, TypeOK
  <2>2. CASE p = Tool
    BY <1>1, <2>1, <2>2 DEF Refilled, Advances
  <2>3. CASE p # Tool
    BY <1>1, <2>1, <2>3 DEF Refilled, Advances
  <2> QED BY <2>2, <2>3
<1>2. ASSUME NEW code \in {"error", "uncertain", "busy"}, RefillThrows(p, code)
      PROVE  /\ Advances(p) \/ Refused(p)
             /\ refilled' \subseteq Calls /\ tries' \in [Actors -> 0..(Attempts - 1)]
  BY <1>2 DEF RefillThrows, Advances, Refused, TypeOK, Codes
<1>3. CASE LockCursor(p)
  BY <1>1, <1>2, <1>3 DEF LockCursor, Advances, tables, TypeOK
<1>4. CASE RefillCommits(p)
  BY <1>1, <1>4 DEF RefillCommits
<1>5. CASE RefillLost(p)
  BY <1>2, <1>5 DEF RefillLost
<1>6. CASE RefillTransient(p)
  <2>1. CASE tries[p] < Attempts - 1
    <3>1. tries' \in [Actors -> 0..(Attempts - 1)]
      BY <1>6, <2>1 DEF RefillTransient, TypeOK
    <3> QED BY <1>6, <2>1, <3>1 DEF RefillTransient, Advances, TypeOK
  <2>2. CASE ~(tries[p] < Attempts - 1)
    BY <1>2, <1>6, <2>2 DEF RefillTransient
  <2> QED BY <2>1, <2>2
<1>7. CASE RefillFails(p)
  BY <1>2, <1>7 DEF RefillFails
<1> QED BY <1>3, <1>4, <1>5, <1>6, <1>7 DEF Refill, RefillProgress

LEMMA TypeStepRefill ==
    ASSUME TypeOK, NEW p \in Actors, Refill(p)
    PROVE  TypeOK'
<1>1. /\ Release(p) \/ (UNCHANGED <<reqLock, poolLock>> /\ cursorLock' \in {cursorLock, p})
      /\ AddBatch \/ UNCHANGED tables
      /\ tries' \in [Actors -> 0..(Attempts - 1)]
      /\ refilled' \subseteq Calls
      /\ UNCHANGED <<input, account, doubt>>
      /\ Advances(p) \/ Refused(p)
  BY RefillCases
<1>2. /\ reqLock' \in [Ids -> Calls \cup {None}]
      /\ poolLock' \in Calls \cup {None}
      /\ cursorLock' \in Actors \cup {None}
  BY <1>1, ReleaseKeeps DEF TypeOK
<1>3. /\ requests' = requests /\ users' = users /\ used' = used
      /\ free' \subseteq Accounts /\ cursor' \in 1..(MaxAccount + 1)
  <2>1. CASE AddBatch
    <3>1. BatchEnd \in 1..(MaxAccount + 1) /\ cursor \in 1..(MaxAccount + 1)
      BY BatchEndBounds DEF TypeOK
    <3>2. cursor..(BatchEnd - 1) \subseteq Accounts
      BY <3>1, RegistrationAssumption DEF Accounts
    <3> QED BY <2>1, <3>1, <3>2 DEF AddBatch, TypeOK
  <2>2. CASE UNCHANGED tables
    BY <2>2 DEF tables, TypeOK
  <2> QED BY <1>1, <2>1, <2>2
<1>4. CASE Advances(p)
  BY <1>1, <1>2, <1>3, <1>4 DEF Advances, TypeOK
<1>5. CASE Refused(p)
  BY <1>1, <1>2, <1>3, <1>5, AnswerTypes DEF Refused, Refuse, TypeOK
<1> QED BY <1>1, <1>4, <1>5

-----------------------------------------------------------------------------
(* The steps of a call.                                                     *)
CallStep(c) ==
    \/ \E i \in Ids, phone \in Phones : Register(c, i, phone)
    \/ Progress(c) \/ CommitLost(c) \/ ServerDecides(c)
    \/ Transient(c) \/ Fails(c)

(* A step of one actor leaves the other calls alone, and their locks.       *)
LEMMA Bystander ==
    ASSUME TypeOK, NEW p \in Actors, NEW d \in Calls, d # p,
           (p \in Calls /\ CallStep(p)) \/ Refill(p)
    PROVE  /\ pc'[d] = pc[d] /\ input'[d] = input[d] /\ account'[d] = account[d]
           /\ answer'[d] = answer[d] /\ (d \in doubt' <=> d \in doubt)
           /\ \A i \in Ids : reqLock[i] = d => reqLock'[i] = d
           /\ poolLock = d => poolLock' = d
<1> USE RegistrationAssumption DEF Actors
<1>1. ASSUME Release(p) PROVE /\ \A i \in Ids : reqLock[i] = d => reqLock'[i] = d
                              /\ poolLock = d => poolLock' = d
  BY <1>1, ReleaseKeeps
<1>2. ASSUME NEW code, NEW a, p \in Calls, Answer(p, code, a)
      PROVE  pc'[d] = pc[d] /\ answer'[d] = answer[d]
  BY <1>2 DEF Answer, TypeOK
<1>3. CASE Refill(p)
  <2>1. /\ Advances(p) \/ Refused(p)
        /\ Release(p) \/ (UNCHANGED <<reqLock, poolLock>> /\ cursorLock' \in {cursorLock, p})
        /\ UNCHANGED <<input, account, doubt>>
    BY <1>3, RefillCases
  <2>2. pc'[d] = pc[d] /\ answer'[d] = answer[d]
    BY <1>2, <2>1 DEF Advances, Refused, Refuse, TypeOK
  <2> QED BY <1>1, <2>1, <2>2
<1>4. CASE p \in Calls /\ \E i \in Ids, phone \in Phones : Register(p, i, phone)
  BY <1>4 DEF Register, locks, TypeOK
<1>5. CASE p \in Calls /\ LockRequest(p)
  <2>1. /\ UNCHANGED <<input, account, doubt, poolLock>> /\ reqLock[Id(p)] = None
        /\ reqLock' \in {reqLock, [reqLock EXCEPT ![Id(p)] = p]}
    BY <1>5 DEF LockRequest
  <2>2. pc'[d] = pc[d] /\ answer'[d] = answer[d]
    BY <1>2, <1>5 DEF LockRequest, Replay, Refuse, TypeOK
  <2>3. \A i \in Ids : reqLock[i] = d => reqLock'[i] = d
    BY <2>1 DEF TypeOK
  <2> QED BY <2>1, <2>2, <2>3
<1>6. CASE p \in Calls /\ (CheckPhone(p) \/ InsertUser(p) \/ PoolEmpty(p) \/ Transient(p)
                           \/ Fails(p) \/ Confirm(p))
  <2>1. UNCHANGED <<input, account, doubt>> /\ (Release(p) \/ UNCHANGED locks)
    BY <1>6 DEF CheckPhone, InsertUser, PoolEmpty, Transient, Fails, Confirm
  <2>2. \/ \E code, a : Answer(p, code, a)
        \/ UNCHANGED answer /\ \E to : pc' = [pc EXCEPT ![p] = to]
    BY <1>6 DEF CheckPhone, InsertUser, PoolEmpty, Transient, Fails, Confirm, Refuse
  <2>3. pc'[d] = pc[d] /\ answer'[d] = answer[d]
    BY <1>2, <1>6, <2>2 DEF TypeOK
  <2> QED BY <1>1, <2>1, <2>3 DEF locks
<1>7. CASE p \in Calls /\ TakeAccount(p)
  BY <1>7 DEF TakeAccount, TypeOK
<1>8. CASE p \in Calls /\ Commit(p)
  BY <1>1, <1>2, <1>8 DEF Commit
<1>9. CASE p \in Calls /\ CommitLost(p)
  BY <1>9 DEF CommitLost, locks, TypeOK
<1>10. CASE p \in Calls /\ ServerDecides(p)
  BY <1>1, <1>10 DEF ServerDecides
<1> QED BY <1>3, <1>4, <1>5, <1>6, <1>7, <1>8, <1>9, <1>10 DEF CallStep, Progress

(* The rows a step writes: those of a call whose transaction is due, a      *)
(* batch, or none.                                                          *)
LEMMA Writes ==
    ASSUME TypeOK, NEW p \in Actors, (p \in Calls /\ CallStep(p)) \/ Refill(p)
    PROVE  \/ p \in Calls /\ Due(p) /\ Effects(p)
           \/ AddBatch \/ UNCHANGED tables
<1> USE RegistrationAssumption DEF Actors
<1>1. CASE Refill(p)
  BY <1>1, RefillCases
<1>2. CASE p \in Calls /\ Commit(p)
  BY <1>2 DEF Commit, Due
<1>3. CASE p \in Calls /\ ServerDecides(p)
  BY <1>3 DEF ServerDecides, Due
<1>4. CASE p \in Calls /\ ~Commit(p) /\ ~ServerDecides(p) /\ CallStep(p)
  BY <1>4 DEF CallStep, Register, Progress, LockRequest, CheckPhone, TakeAccount,
      PoolEmpty, InsertUser, Confirm, CommitLost, Transient, Fails
<1> QED BY <1>1, <1>2, <1>3, <1>4

-----------------------------------------------------------------------------
(* CallsOK, for the actor of a step.                                        *)
LEMMA OwnCall ==
    ASSUME TypeOK, CallsOK, NEW c \in Calls, CallStep(c) \/ Refill(c)
    PROVE  /\ pc'[c] # "idle" /\ input'[c] # None
           /\ pc'[c] # "done" => answer'[c].code = "none"
           /\ c \in doubt' => pc'[c] \in {"confirm", "done"}
           /\ pc[c] # "idle" => input'[c] = input[c]
<1> USE RegistrationAssumption DEF Actors
<1>0. /\ pc[c] = "idle" <=> input[c] = None
      /\ pc[c] # "done" => answer[c].code = "none"
      /\ c \in doubt => pc[c] \in {"confirm", "done"}
  BY DEF CallsOK
<1>a. ASSUME NEW code, NEW a, Answer(c, code, a) PROVE pc'[c] = "done"
  BY <1>a DEF Answer, TypeOK
<1>1. CASE Refill(c)
  <2>1. /\ pc[c] \in {"refill", "refillCommit"} /\ (Advances(c) \/ Refused(c))
        /\ UNCHANGED <<input, account, doubt>>
    BY <1>1, RefillCases
  <2>2. CASE Advances(c)
    BY <1>0, <2>1, <2>2 DEF Advances, TypeOK
  <2>3. CASE Refused(c)
    BY <1>0, <1>a, <2>1, <2>3 DEF Refused, Refuse
  <2> QED BY <2>1, <2>2, <2>3
<1>2. CASE \E i \in Ids, phone \in Phones : Register(c, i, phone)
  BY <1>0, <1>2, NoneIsNoRow DEF Register, TypeOK
<1>3. CASE LockRequest(c) \/ CheckPhone(c) \/ TakeAccount(c) \/ PoolEmpty(c)
           \/ InsertUser(c) \/ Transient(c) \/ Fails(c)
  <2>1. /\ pc[c] \in {"start", "phone", "pool", "insert"}
        /\ UNCHANGED <<input, doubt>>
    BY <1>3 DEF LockRequest, CheckPhone, TakeAccount, PoolEmpty, InsertUser, Transient,
        Fails, InTransaction
  <2>2. \/ \E code, a : Answer(c, code, a)
        \/ UNCHANGED answer /\ \E to \in {"start", "phone", "pool", "insert", "commit", "refill"} :
                                    pc' = [pc EXCEPT ![c] = to]
    BY <1>3 DEF LockRequest, Replay, CheckPhone, TakeAccount, PoolEmpty, InsertUser,
        Transient, Fails, Refuse
  <2> QED BY <1>0, <1>a, <2>1, <2>2 DEF TypeOK
<1>4. CASE Commit(c) \/ Confirm(c)
  <2>1. /\ pc[c] \in {"commit", "confirm"} /\ UNCHANGED <<input, doubt>>
        /\ \E code, a : Answer(c, code, a)
    BY <1>4 DEF Commit, Confirm, Refuse
  <2> QED BY <1>0, <1>a, <2>1
<1>5. CASE CommitLost(c)
  BY <1>0, <1>5 DEF CommitLost, TypeOK
<1>6. CASE ServerDecides(c)
  BY <1>0, <1>6 DEF ServerDecides
<1> QED BY <1>1, <1>2, <1>3, <1>4, <1>5, <1>6 DEF CallStep, Progress

(* LocksOK, for the actor of a step.                                        *)
LEMMA OwnLocks ==
    ASSUME TypeOK, CallsOK, LocksOK, NEW c \in Calls, CallStep(c) \/ Refill(c)
    PROVE  /\ Open(c)' => /\ reqLock'[Id(c)'] = c /\ requests'[Id(c)'] = None
           /\ Took(c)' => /\ poolLock' = c /\ account'[c] \in free'
           /\ Due(c)' => ~PhoneTaken(c)'
<1> USE RegistrationAssumption DEF Actors
<1>0. /\ c \in doubt => pc[c] \in {"confirm", "done"}
      /\ Open(c) => reqLock[Id(c)] = c /\ requests[Id(c)] = None
      /\ Took(c) => poolLock = c /\ account[c] \in free
      /\ Due(c) => ~PhoneTaken(c)
  BY DEF CallsOK, LocksOK
<1>a. ASSUME NEW code, NEW a, Answer(c, code, a) PROVE pc'[c] = "done"
  BY <1>a DEF Answer, TypeOK
<1>1. CASE Refill(c)
  <2>1. /\ pc[c] \in {"refill", "refillCommit"} /\ (Advances(c) \/ Refused(c))
        /\ UNCHANGED doubt
    BY <1>1, RefillCases
  <2>2. pc'[c] \in {"start", "refill", "refillCommit", "done", "idle"}
    BY <1>a, <2>1 DEF Advances, Refused, Refuse, TypeOK
  <2> QED BY <1>0, <2>1, <2>2 DEF Open, Took, Due
<1>2. CASE \E i \in Ids, phone \in Phones : Register(c, i, phone)
  <2>1. pc[c] = "idle" /\ pc'[c] = "start" /\ UNCHANGED doubt
    BY <1>2 DEF Register, TypeOK
  <2> QED BY <1>0, <2>1 DEF Open, Took, Due
<1>3. CASE LockRequest(c)
  <2>0. Id(c) \in Ids
    BY <1>3, OpenCall DEF LockRequest
  <2>1. CASE requests[Id(c)] = None
    BY <1>0, <1>3, <2>0, <2>1 DEF LockRequest, TypeOK, tables, Open, Took, Due, Id
  <2>2. CASE requests[Id(c)] # None
    <3>1. pc[c] = "start" /\ pc'[c] = "done" /\ UNCHANGED doubt
      BY <1>3, <1>a, <2>2 DEF LockRequest, Replay, Refuse
    <3> QED BY <1>0, <3>1 DEF Open, Took, Due
  <2> QED BY <2>1, <2>2
<1>4. CASE CheckPhone(c) \/ InsertUser(c)
  <2>1. CASE \E code, a : Answer(c, code, a)
    <3>1. pc[c] \in {"phone", "insert"} /\ pc'[c] = "done" /\ UNCHANGED doubt
      BY <1>4, <1>a, <2>1 DEF CheckPhone, InsertUser
    <3> QED BY <1>0, <3>1 DEF Open, Took, Due
  <2>2. CASE CheckPhone(c) /\ UNCHANGED <<answer, locks>> /\ pc' = [pc EXCEPT ![c] = "pool"]
    BY <1>0, <2>2 DEF CheckPhone, TypeOK, tables, locks, Open, Took, Due, Id
  <2>3. CASE InsertUser(c) /\ ~PhoneTaken(c) /\ UNCHANGED <<answer, locks>>
             /\ pc' = [pc EXCEPT ![c] = "commit"]
    BY <1>0, <2>3 DEF InsertUser, TypeOK, tables, locks, Open, Took, Due, Id, PhoneTaken, Phone
  <2> QED BY <1>4, <2>1, <2>2, <2>3 DEF CheckPhone, InsertUser, Refuse
<1>5. CASE TakeAccount(c)
  BY <1>0, <1>5 DEF TakeAccount, TypeOK, tables, Open, Took, Due, Id
<1>6. CASE PoolEmpty(c) \/ Transient(c) \/ Fails(c)
  <2>1. /\ pc[c] \in {"start", "phone", "pool", "insert"} /\ UNCHANGED doubt
        /\ \/ \E code, a : Answer(c, code, a)
           \/ \E to \in {"start", "refill"} : pc' = [pc EXCEPT ![c] = to]
    BY <1>6 DEF PoolEmpty, Transient, Fails, InTransaction, Refuse
  <2>2. pc'[c] \in {"start", "refill", "done"}
    BY <1>a, <2>1 DEF TypeOK
  <2> QED BY <1>0, <2>1, <2>2 DEF Open, Took, Due
<1>7. CASE Commit(c)
  <2>1. pc[c] = "commit" /\ pc'[c] = "done" /\ UNCHANGED doubt
    BY <1>7, <1>a DEF Commit
  <2> QED BY <1>0, <2>1 DEF Open, Took, Due
<1>8. CASE CommitLost(c)
  BY <1>0, <1>8 DEF CommitLost, TypeOK, tables, locks, Open, Took, Due, Id, PhoneTaken, Phone
<1>9. CASE ServerDecides(c)
  <2>1. pc'[c] \in {"confirm", "done"} /\ c \notin doubt'
    BY <1>0, <1>9 DEF ServerDecides
  <2> QED BY <2>1 DEF Open, Took, Due
<1>10. CASE Confirm(c)
  <2>1. /\ pc[c] = "confirm" /\ pc'[c] = "done"
        /\ UNCHANGED <<tables, locks, input, account, doubt>>
    BY <1>a, <1>10 DEF Confirm, Refuse
  <2> QED BY <1>0, <2>1 DEF tables, locks, Open, Took, Due, Id, PhoneTaken, Phone
<1> QED BY <1>1, <1>2, <1>3, <1>4, <1>5, <1>6, <1>7, <1>8, <1>9, <1>10 DEF CallStep, Progress

-----------------------------------------------------------------------------
(* CallsOK and LocksOK, for everyone.                                       *)
LEMMA CallsStep ==
    ASSUME TypeOK, CallsOK, LocksOK, TablesAgree, NEW p \in Actors,
           (p \in Calls /\ CallStep(p)) \/ Refill(p)
    PROVE  CallsOK' /\ LocksOK'
<1> USE RegistrationAssumption DEF Actors
<1>1. ASSUME NEW d \in Calls
      PROVE  /\ pc'[d] = "idle" <=> input'[d] = None
             /\ pc'[d] # "done" => answer'[d].code = "none"
             /\ d \in doubt' => pc'[d] \in {"confirm", "done"}
  <2>1. CASE d = p
    BY <2>1, OwnCall
  <2>2. CASE d # p
    BY <2>2, Bystander DEF CallsOK
  <2> QED BY <2>1, <2>2
<1>2. ASSUME NEW d \in Calls
      PROVE  /\ Open(d)' => reqLock'[Id(d)'] = d /\ requests'[Id(d)'] = None
             /\ Took(d)' => poolLock' = d /\ account'[d] \in free'
             /\ Due(d)' => ~PhoneTaken(d)'
  <2>1. CASE d = p
    BY <2>1, OwnLocks
  <2>2. CASE d # p
    <3>1. /\ pc'[d] = pc[d] /\ input'[d] = input[d] /\ account'[d] = account[d]
          /\ (d \in doubt' <=> d \in doubt)
          /\ \A i \in Ids : reqLock[i] = d => reqLock'[i] = d
          /\ poolLock = d => poolLock' = d
      BY <2>2, Bystander
    <3>2. /\ Open(d)' <=> Open(d)
          /\ Took(d)' <=> Took(d)
          /\ Due(d)' <=> Due(d)
          /\ Id(d)' = Id(d) /\ Phone(d)' = Phone(d)
      BY <3>1 DEF Open, Took, Due, Id, Phone
    <3>3. Open(d) => Id(d) \in Ids
      BY OpenCall DEF Open
    <3>4. /\ Open(d) => reqLock[Id(d)] = d /\ requests[Id(d)] = None
          /\ Took(d) => poolLock = d /\ account[d] \in free
          /\ Due(d) => ~PhoneTaken(d) /\ Took(d)
      BY DEF LocksOK, Due, Took
    <3>5. CASE p \in Calls /\ Due(p) /\ Effects(p)
      <4>1. poolLock = p /\ reqLock[Id(p)] = p /\ Id(p) \in Ids
        BY <3>5, OpenCall DEF LocksOK, Due, Took, Open
      <4>2. ~Took(d) /\ (Open(d) => Id(d) # Id(p))
        BY <2>2, <3>4, <4>1
      <4>3. Open(d) => requests'[Id(d)] = requests[Id(d)]
        BY <3>3, <3>5, <4>1, <4>2 DEF Effects, TypeOK
      <4> QED BY <3>1, <3>2, <3>3, <3>4, <4>2, <4>3
    <3>6. CASE AddBatch
      BY <3>1, <3>2, <3>3, <3>4, <3>6 DEF AddBatch, PhoneTaken
    <3>7. CASE UNCHANGED tables
      BY <3>1, <3>2, <3>3, <3>4, <3>7 DEF tables, PhoneTaken
    <3> QED BY <3>5, <3>6, <3>7, Writes
  <2> QED BY <2>1, <2>2
<1> QED BY <1>1, <1>2 DEF CallsOK, LocksOK

(* The transaction of a call keeps the tables in agreement.                 *)
LEMMA EffectsAgree ==
    ASSUME TypeOK, CallsOK, LocksOK, TablesAgree, NEW c \in Calls, Due(c), Effects(c)
    PROVE  TablesAgree'
<1> DEFINE r == Row(Phone(c), account[c])
<1>1. /\ Id(c) \in Ids /\ Phone(c) \in Phones /\ account[c] \in Accounts
      /\ requests[Id(c)] = None /\ account[c] \in free /\ ~PhoneTaken(c)
  BY OpenCall DEF LocksOK, Due, Took, Open
<1>2. r \in [phone : Phones, account : Accounts] /\ r # None
      /\ r.phone = Phone(c) /\ r.account = account[c]
  BY <1>1, NoneIsNoRow DEF Row, Accounts
<1>3. /\ users' = users \cup {r} /\ free' = free \ {account[c]}
      /\ used' = used \cup {account[c]} /\ cursor' = cursor
      /\ requests' = [requests EXCEPT ![Id(c)] = r]
  BY DEF Effects
<1> HIDE DEF r
<1>4. /\ requests'[Id(c)] = r
      /\ \A i \in Ids \ {Id(c)} : requests'[i] = requests[i]
  BY <1>1, <1>3 DEF TypeOK
<1>5. users' = {Seeded} \cup {requests'[i] : i \in {j \in Ids : requests'[j] # None}}
  <2>1. \A u : u \in users <=> u = Seeded \/ \E i \in Ids : requests[i] # None /\ u = requests[i]
    BY DEF TablesAgree
  <2>2. \A u : u \in users' <=>
            u = Seeded \/ \E i \in Ids : requests'[i] # None /\ u = requests'[i]
    BY <1>1, <1>2, <1>3, <1>4, <2>1
  <2> QED BY <2>2
<1>6. Seeded \in users /\ \A i \in Ids : requests[i] # None => requests[i] \in users
  BY DEF TablesAgree
<1>7. \A u \in users : u.phone # Phone(c) /\ u.account # account[c]
  BY <1>1 DEF PhoneTaken, TablesAgree
<1>a. Seeded.phone # Phone(c) /\ Seeded.account # account[c] /\ r # Seeded
  BY <1>2, <1>6, <1>7
<1>b. \A i \in Ids : requests'[i] # None =>
        requests'[i].phone # Seeded.phone /\ requests'[i].account # Seeded.account
  BY <1>1, <1>2, <1>4, <1>a DEF TablesAgree
<1>8. \A i, j \in Ids : requests'[i] # None /\ requests'[j] # None /\ i # j =>
        requests'[i].phone # requests'[j].phone /\ requests'[i].account # requests'[j].account
  BY <1>1, <1>2, <1>4, <1>6, <1>7 DEF TablesAgree
<1>9. used' = {u.account : u \in users' \ {Seeded}}
  <2>1. users' \ {Seeded} = (users \ {Seeded}) \cup {r}
    BY <1>3, <1>a
  <2> QED BY <2>1, <1>2, <1>3 DEF TablesAgree
<1>10. \A u \in users' : u.account \notin free'
  BY <1>2, <1>3 DEF TablesAgree
<1>11. Known' \subseteq Known
  BY <1>1, <1>2, <1>3 DEF Known
<1>12. \A a \in Known' : a < cursor'
  BY <1>3, <1>11 DEF TablesAgree
<1> QED BY <1>5, <1>8, <1>9, <1>10, <1>12, <1>b DEF TablesAgree

(* So does a batch.                                                         *)
LEMMA BatchAgrees ==
    ASSUME TypeOK, TablesAgree, AddBatch
    PROVE  TablesAgree'
<1>1. /\ free' = free \cup (cursor..(BatchEnd - 1)) /\ cursor' = BatchEnd
      /\ UNCHANGED <<requests, users, used>>
  BY DEF AddBatch
<1>2. BatchEnd \in Int /\ BatchEnd >= cursor /\ cursor \in Int
  BY BatchEndBounds DEF TypeOK
<1>3. \A a \in Known : a \in Int /\ a < cursor
  <2>1. free \subseteq Accounts /\ used \subseteq Accounts
    BY DEF TypeOK
  <2>2. \A u \in users : u.account \in Accounts
    BY DEF TypeOK
  <2>3. Known \subseteq Accounts
    BY <2>1, <2>2 DEF Known
  <2>4. \A a \in Known : a < cursor
    BY DEF TablesAgree
  <2> QED BY <2>3, <2>4 DEF Accounts
<1>4. \A u \in users : u.account \in Known
  BY DEF Known
<1>5. \A u \in users' : u.account \notin free'
  BY <1>1, <1>2, <1>3, <1>4 DEF TablesAgree
<1>6. Known' = Known \cup (cursor..(BatchEnd - 1))
  BY <1>1 DEF Known
<1>7. \A a \in Known' : a < cursor'
  BY <1>1, <1>2, <1>3, <1>6
<1> QED BY <1>1, <1>5, <1>7 DEF TablesAgree

LEMMA TablesStep ==
    ASSUME TypeOK, CallsOK, LocksOK, TablesAgree, NEW p \in Actors,
           (p \in Calls /\ CallStep(p)) \/ Refill(p)
    PROVE  TablesAgree'
<1>1. CASE UNCHANGED tables
  BY <1>1 DEF tables, TablesAgree, Known
<1> QED BY <1>1, Writes, EffectsAgree, BatchAgrees

(* Requests, once completed, stay as they are.                              *)
LEMMA RequestsStay ==
    ASSUME TypeOK, CallsOK, LocksOK, NEW p \in Actors,
           (p \in Calls /\ CallStep(p)) \/ Refill(p),
           NEW i \in Ids, requests[i] # None
    PROVE  requests'[i] = requests[i]
<1>1. CASE p \in Calls /\ Due(p) /\ Effects(p)
  <2>1. Id(p) \in Ids /\ requests[Id(p)] = None
    BY <1>1, OpenCall DEF LocksOK, Due, Open
  <2> QED BY <1>1, <2>1 DEF Effects, TypeOK
<1>2. CASE AddBatch \/ UNCHANGED tables
  BY <1>2 DEF AddBatch, tables
<1> QED BY <1>1, <1>2, Writes

LEMMA ExistsStep ==
    ASSUME TypeOK, CallsOK, LocksOK, TablesAgree, ExistsMeansOther, NEW p \in Actors,
           (p \in Calls /\ CallStep(p)) \/ Refill(p)
    PROVE  ExistsMeansOther'
<1> USE RegistrationAssumption DEF Actors
<1> SUFFICES ASSUME NEW d \in Calls, answer'[d].code = "exists"
             PROVE  \/ Phone(d)' = SeededPhone
                    \/ \E i \in Ids : i # Id(d)' /\ requests'[i] # None
                                      /\ requests'[i].phone = Phone(d)'
  BY DEF ExistsMeansOther
<1> SUFFICES \/ Phone(d)' = SeededPhone
             \/ \E i \in Ids : i # Id(d)' /\ requests[i] # None /\ requests[i].phone = Phone(d)'
  BY RequestsStay
<1>1. CASE answer[d].code = "exists"
  <2>1. pc[d] # "idle"
    BY <1>1 DEF CallsOK
  <2>2. input'[d] = input[d]
    BY <2>1, OwnCall, Bystander
  <2> QED BY <1>1, <2>2 DEF ExistsMeansOther, Id, Phone
<1>2. CASE answer[d].code # "exists"
  <2>1. d = p
    BY <1>2, Bystander
  <2>2. pc[d] \in {"phone", "insert"} /\ PhoneTaken(d) /\ UNCHANGED input
    <3>0. ASSUME NEW code, NEW a, Answer(d, code, a) PROVE code = "exists"
      BY <3>0 DEF Answer, TypeOK
    <3>1. ~UNCHANGED answer
      BY <1>2
    <3>2. ~Refill(d)
      BY <3>0, <3>1, RefillCases DEF Advances, Refused, Refuse
    <3>3. ~(LockRequest(d) \/ PoolEmpty(d) \/ Commit(d) \/ Confirm(d) \/ Transient(d) \/ Fails(d))
      BY <3>0, <3>1 DEF LockRequest, Replay, PoolEmpty, Commit, Confirm, Transient, Fails, Refuse
    <3>4. CheckPhone(d) \/ InsertUser(d)
      BY <2>1, <3>1, <3>2, <3>3 DEF CallStep, Progress, Register, TakeAccount, CommitLost,
          ServerDecides
    <3> QED BY <3>0, <3>1, <3>4 DEF CheckPhone, InsertUser, Refuse
  <2>3. PICK u \in users : u.phone = Phone(d)
    BY <2>2 DEF PhoneTaken
  <2>4. CASE u = Seeded
    BY <2>2, <2>3, <2>4 DEF Seeded, Row, Phone
  <2>5. CASE u # Seeded
    <3>1. PICK i \in Ids : requests[i] # None /\ u = requests[i]
      BY <2>5 DEF TablesAgree
    <3>2. requests[Id(d)] = None
      BY <2>2 DEF LocksOK, Open
    <3> QED BY <2>2, <2>3, <3>1, <3>2 DEF Id, Phone
  <2> QED BY <2>4, <2>5
<1> QED BY <1>1, <1>2

-----------------------------------------------------------------------------
(* A step is one of a call, a refill, or the start of the tool.             *)
LEMMA StepCases ==
    ASSUME [Next]_vars
    PROVE  \/ \E p \in Actors : (p \in Calls /\ CallStep(p)) \/ Refill(p)
           \/ ToolStarts \/ UNCHANGED vars
  BY DEF Next, Actors, CallStep, Refill

LEMMA ToolInv == Inv /\ (ToolStarts \/ UNCHANGED vars) => Inv'
<1> SUFFICES ASSUME Inv, ToolStarts \/ UNCHANGED vars PROVE Inv'
  OBVIOUS
<1>1. /\ UNCHANGED <<tables, locks, input, tries, refilled, account, doubt, answer>>
      /\ \A c \in Calls : pc'[c] = pc[c]
      /\ pc' \in [Actors -> {"idle", "start", "phone", "pool", "insert", "commit",
                             "confirm", "refill", "refillCommit", "done"}]
  BY RegistrationAssumption DEF ToolStarts, vars, Inv, TypeOK, Actors
<1>2. TypeOK'
  BY <1>1 DEF Inv, TypeOK, tables, locks
<1>3. CallsOK'
  BY <1>1 DEF Inv, CallsOK
<1>4. LocksOK'
  BY <1>1 DEF Inv, LocksOK, tables, locks, Open, Took, Due, Id, PhoneTaken, Phone
<1>5. TablesAgree'
  BY <1>1 DEF Inv, TablesAgree, Known, tables
<1>6. ExistsMeansOther'
  BY <1>1 DEF Inv, ExistsMeansOther, tables, Id, Phone
<1> QED BY <1>2, <1>3, <1>4, <1>5, <1>6 DEF Inv

LEMMA InvStep == Inv /\ [Next]_vars => Inv'
<1> SUFFICES ASSUME Inv, [Next]_vars PROVE Inv'
  OBVIOUS
<1>1. ASSUME NEW p \in Actors, (p \in Calls /\ CallStep(p)) \/ Refill(p)
      PROVE  Inv'
  <2>1. TypeOK'
    BY <1>1, TypeStepCall, TypeStepRefill DEF Inv, CallStep
  <2>2. CallsOK' /\ LocksOK'
    BY <1>1, CallsStep DEF Inv
  <2>3. TablesAgree' /\ ExistsMeansOther'
    BY <1>1, TablesStep, ExistsStep DEF Inv
  <2> QED BY <2>1, <2>2, <2>3 DEF Inv
<1> QED BY <1>1, StepCases, ToolInv

LEMMA Invariance == Spec => []Inv
  BY InitInv, InvStep, PTL DEF Spec

(* Requests, users and account pool agree, whatever calls, retries, refills *)
(* and lost COMMITs run side by side.                                       *)
THEOREM TablesAlwaysAgree == Spec => []TablesAgree
  BY Invariance, PTL DEF Inv

(* PHONE_EXISTS is never told to a retry of the request that registered the *)
(* phone number: another request has it, or the seeded user.                *)
THEOREM ExistsNeverForOwn == Spec => []ExistsMeansOther
  BY Invariance, PTL DEF Inv

-----------------------------------------------------------------------------
(* Registration implements Once.  The state of Once, as ImplementsOnce maps *)
(* it.                                                                      *)
AbsDone == [i \in Ids |-> IF requests[i] = None THEN None
                          ELSE [input |-> requests[i].phone, result |-> requests[i].account]]
AbsEffects == {[input |-> u.phone, result |-> u.account] : u \in users \ {Seeded}}
AbsAsked == [c \in Calls |-> IF input[c] = None THEN None
                             ELSE [id |-> Id(c), input |-> Phone(c)]]
AbsAnswer == [c \in Calls |-> Told(c)]

(* The steps of Once in these terms.                                        *)
LEMMA AskMaps ==
    ASSUME NEW c \in Calls, NEW i \in Ids, NEW x \in Phones, AbsAsked[c] = None,
           AbsAsked' = [AbsAsked EXCEPT ![c] = [id |-> i, input |-> x]],
           UNCHANGED <<AbsDone, AbsEffects, AbsAnswer>>
    PROVE  O!Next
<1>1. /\ AbsAsked[c] = None
      /\ \E j \in Ids, y \in Phones :
            AbsAsked' = [AbsAsked EXCEPT ![c] = [id |-> j, input |-> y]]
  OBVIOUS
<1>2. O!Ask(c)
  BY <1>1 DEF O!Ask, AbsDone, AbsEffects, AbsAsked, AbsAnswer
<1> QED BY <1>2 DEF O!Next

(* The effect of a call, with the account it took.                          *)
AbsPerform(c) ==
    /\ AbsAsked[c] # None /\ AbsDone[AbsAsked[c].id] = None
    /\ \E r \in Accounts :
        /\ \A e \in AbsEffects : e.result # r
        /\ AbsDone' = [AbsDone EXCEPT ![AbsAsked[c].id] =
                            [input |-> AbsAsked[c].input, result |-> r]]
        /\ AbsEffects' = AbsEffects \cup {[input |-> AbsAsked[c].input, result |-> r]}
    /\ UNCHANGED AbsAsked

AbsTell(c) ==
    LET row == AbsDone'[AbsAsked[c].id] IN
    /\ AbsAsked[c] # None /\ AbsAnswer[c].code = "none"
    /\ \/ /\ row # None /\ row.input = AbsAsked[c].input
          /\ AbsAnswer' = [AbsAnswer EXCEPT ![c] = [code |-> "ok", result |-> row.result]]
       \/ /\ row # None /\ row.input # AbsAsked[c].input
          /\ AbsAnswer' = [AbsAnswer EXCEPT ![c] = [code |-> "conflict", result |-> None]]
       \/ AbsAnswer' = [AbsAnswer EXCEPT ![c] = [code |-> "refused", result |-> None]]

LEMMA PerformMaps ==
    ASSUME NEW c \in Calls, AbsPerform(c), UNCHANGED AbsAnswer \/ AbsTell(c)
    PROVE  O!Next
<1>1. O!Perform(c)
  BY DEF AbsPerform, O!Perform, O!Effect, AbsDone, AbsEffects, AbsAsked
<1>2. CASE UNCHANGED AbsAnswer
  BY <1>1, <1>2 DEF O!Next, AbsAnswer
<1>3. CASE AbsTell(c)
  <2>1. O!Answer(c)
    BY <1>3 DEF AbsTell, O!Answer, O!Told, AbsDone, AbsAsked, AbsAnswer
  <2> QED BY <1>1, <2>1 DEF O!Next
<1> QED BY <1>2, <1>3

LEMMA TellMaps ==
    ASSUME NEW c \in Calls, AbsTell(c), UNCHANGED <<AbsDone, AbsEffects, AbsAsked>>
    PROVE  O!Next
<1>1. O!Answer(c)
  BY DEF AbsTell, O!Answer, O!Told, AbsDone, AbsAsked, AbsAnswer
<1>2. O!Answer(c) /\ UNCHANGED <<AbsDone, AbsEffects, AbsAsked>> => O!Next
  BY DEF O!Next, AbsDone, AbsEffects, AbsAsked
<1> QED BY <1>1, <1>2

(* What steps leave alone.                                                  *)
LEMMA TablesMap ==
    ASSUME UNCHANGED requests, UNCHANGED users
    PROVE  UNCHANGED <<AbsDone, AbsEffects>>
  BY DEF AbsDone, AbsEffects

LEMMA AskedMap ==
    ASSUME UNCHANGED input PROVE UNCHANGED AbsAsked
  BY DEF AbsAsked, Id, Phone

LEMMA AnswersMap ==
    ASSUME UNCHANGED answer PROVE UNCHANGED AbsAnswer
  BY DEF AbsAnswer, Told

(* A call that began has asked what it has as its input.                    *)
LEMMA HasAsked ==
    ASSUME TypeOK, CallsOK, NEW c \in Calls, pc[c] # "idle"
    PROVE  /\ AbsAsked[c] = [id |-> Id(c), input |-> Phone(c)] /\ AbsAsked[c] # None
           /\ AbsAsked[c].id = Id(c) /\ AbsAsked[c].input = Phone(c)
           /\ Id(c) \in Ids /\ Phone(c) \in Phones
<1>1. input[c] \in [id : Ids, phone : Phones] /\ input[c] # None
  BY DEF TypeOK, CallsOK
<1>2. Id(c) \in Ids /\ Phone(c) \in Phones
  BY <1>1 DEF Id, Phone
<1>3. [id |-> Id(c), input |-> Phone(c)] \in [id : Ids, input : Phones]
  BY <1>2
<1>4. AbsAsked[c] = [id |-> Id(c), input |-> Phone(c)]
  BY <1>1 DEF AbsAsked
<1> QED BY <1>2, <1>3, <1>4, NoneIsNoRow

(* An answer of Register is an answer of Once, given the row it looks at.   *)
LEMMA AnswerIsTold ==
    ASSUME TypeOK, CallsOK, NEW c \in Calls, pc[c] # "idle", pc[c] # "done",
           NEW code \in Codes \ {"none"}, NEW a \in Accounts \cup {0}, Answer(c, code, a),
           code \in {"ok", "conflict"} =>
               requests'[Id(c)] \in [phone : Phones, account : Accounts],
           code = "ok" => requests'[Id(c)] = Row(Phone(c), a),
           code = "conflict" => requests'[Id(c)].phone # Phone(c)
    PROVE  AbsTell(c)
<1>1. /\ AbsAsked[c] # None /\ AbsAsked[c].id = Id(c) /\ AbsAsked[c].input = Phone(c)
      /\ Id(c) \in Ids
  BY HasAsked
<1>2. AbsAnswer[c].code = "none"
  BY DEF CallsOK, AbsAnswer, Told
<1> DEFINE told == [code |-> IF code \in {"ok", "conflict"} THEN code ELSE "refused",
                    result |-> IF code = "ok" THEN a ELSE None]
<1>3. AbsAnswer' = [AbsAnswer EXCEPT ![c] = told]
  <2>1. /\ answer' = [answer EXCEPT ![c] = [code |-> code, account |-> a]]
        /\ DOMAIN answer = Calls
    BY DEF Answer, TypeOK
  <2>2. \A d \in Calls : Told(d)' = IF d = c THEN told ELSE Told(d)
    BY <2>1 DEF Told
  <2> QED BY <2>2 DEF AbsAnswer
<1>4. code \in {"ok", "conflict"} =>
        /\ AbsDone'[Id(c)] = [input |-> requests'[Id(c)].phone, result |-> requests'[Id(c)].account]
        /\ AbsDone'[Id(c)] # None
  <2> SUFFICES ASSUME code \in {"ok", "conflict"}
               PROVE  /\ AbsDone'[Id(c)] = [input |-> requests'[Id(c)].phone,
                                            result |-> requests'[Id(c)].account]
                      /\ AbsDone'[Id(c)] # None
    OBVIOUS
  <2>1. requests'[Id(c)] \in [phone : Phones, account : Accounts] /\ requests'[Id(c)] # None
    BY NoneIsNoRow DEF Accounts
  <2>2. [input |-> requests'[Id(c)].phone, result |-> requests'[Id(c)].account]
            \in [input : Phones, result : 1..MaxAccount]
    BY <2>1 DEF Accounts
  <2>3. AbsDone'[Id(c)] = [input |-> requests'[Id(c)].phone, result |-> requests'[Id(c)].account]
    BY <1>1, <2>1 DEF AbsDone
  <2> QED BY <2>2, <2>3, NoneIsNoRow
<1>5. CASE code = "ok"
  <2>1. requests'[Id(c)].phone = Phone(c) /\ requests'[Id(c)].account = a
    BY <1>5 DEF Row
  <2>2. AbsDone'[Id(c)].input = Phone(c) /\ AbsDone'[Id(c)].result = a
    BY <1>4, <1>5, <2>1
  <2>3. told = [code |-> "ok", result |-> AbsDone'[Id(c)].result]
    BY <1>5, <2>2
  <2> HIDE DEF told
  <2> QED BY <1>1, <1>2, <1>3, <1>4, <1>5, <2>2, <2>3 DEF AbsTell
<1>6. CASE code = "conflict"
  BY <1>1, <1>2, <1>3, <1>4, <1>6 DEF AbsTell
<1>7. CASE code \notin {"ok", "conflict"}
  BY <1>1, <1>2, <1>3, <1>7 DEF AbsTell
<1> QED BY <1>5, <1>6, <1>7

(* The effects of a transaction are an effect of Once.                      *)
LEMMA EffectsPerform ==
    ASSUME TypeOK, CallsOK, LocksOK, TablesAgree, NEW c \in Calls, Due(c), Effects(c),
           UNCHANGED input
    PROVE  AbsPerform(c)
<1>1. pc[c] # "idle" /\ account[c] \in Accounts /\ requests[Id(c)] = None /\ account[c] \in free
  BY OpenCall DEF LocksOK, Due, Took, Open
<1>2. /\ AbsAsked[c] # None /\ AbsAsked[c].id = Id(c) /\ AbsAsked[c].input = Phone(c)
      /\ Id(c) \in Ids /\ Phone(c) \in Phones
  BY <1>1, HasAsked
<1>3. AbsDone[Id(c)] = None
  BY <1>1, <1>2 DEF AbsDone
<1>4. \A e \in AbsEffects : e.result # account[c]
  BY <1>1 DEF AbsEffects, TablesAgree
<1>5. Row(Phone(c), account[c]) # None
  BY <1>1, <1>2, NoneIsNoRow DEF Row, Accounts
<1>6. AbsDone' = [AbsDone EXCEPT ![Id(c)] = [input |-> Phone(c), result |-> account[c]]]
  <2>1. requests' = [requests EXCEPT ![Id(c)] = Row(Phone(c), account[c])] /\ DOMAIN requests = Ids
    BY DEF Effects, TypeOK
  <2> QED BY <1>2, <1>5, <2>1 DEF AbsDone, Row
<1>7. AbsEffects' = AbsEffects \cup {[input |-> Phone(c), result |-> account[c]]}
  <2> DEFINE row == Row(Phone(c), account[c])
  <2>0. users' = users \cup {row} /\ row.phone = Phone(c) /\ row.account = account[c]
    BY DEF Effects, Row
  <2> HIDE DEF row
  <2>1. users' \ {Seeded} = (users \ {Seeded}) \cup {row}
    BY <1>1, <2>0 DEF TablesAgree
  <2>2. \A e : e \in AbsEffects' <=>
            \E u \in users' \ {Seeded} : e = [input |-> u.phone, result |-> u.account]
    BY DEF AbsEffects
  <2>3. \A e : e \in AbsEffects <=>
            \E u \in users \ {Seeded} : e = [input |-> u.phone, result |-> u.account]
    BY DEF AbsEffects
  <2>4. \A e : e \in AbsEffects' <=>
            e \in AbsEffects \/ e = [input |-> row.phone, result |-> row.account]
    BY <2>1, <2>2, <2>3
  <2> QED BY <2>0, <2>4
<1>8. UNCHANGED AbsAsked
  BY AskedMap
<1> QED BY <1>1, <1>2, <1>3, <1>4, <1>6, <1>7, <1>8 DEF AbsPerform

LEMMA OnceStep == Inv /\ [Next]_vars => [O!Next]_(O!vars)
<1> SUFFICES ASSUME Inv, [Next]_vars PROVE O!Next \/ UNCHANGED <<AbsDone, AbsEffects, AbsAsked, AbsAnswer>>
  BY DEF O!vars, AbsDone, AbsEffects, AbsAsked, AbsAnswer
<1> USE RegistrationAssumption DEF Actors
<1>0. TypeOK /\ CallsOK /\ LocksOK /\ TablesAgree
  BY DEF Inv
<1>a. ASSUME NEW c \in Calls, pc[c] # "idle", pc[c] # "done", UNCHANGED <<requests, users, input>>,
             (\E code \in Codes \ {"none", "ok", "conflict"} : Refuse(c, code)) \/ UNCHANGED answer
      PROVE  O!Next \/ UNCHANGED <<AbsDone, AbsEffects, AbsAsked, AbsAnswer>>
  <2>1. UNCHANGED <<AbsDone, AbsEffects, AbsAsked>>
    BY <1>a, TablesMap, AskedMap
  <2>2. CASE UNCHANGED answer
    BY <2>1, <2>2, AnswersMap
  <2>3. CASE \E code \in Codes \ {"none", "ok", "conflict"} : Refuse(c, code)
    <3>1. AbsTell(c)
      BY <1>0, <1>a, <2>3, AnswerIsTold DEF Refuse
    <3> QED BY <2>1, <3>1, TellMaps
  <2> QED BY <1>a, <2>2, <2>3
<1>1. ASSUME NEW c \in Calls, NEW i \in Ids, NEW phone \in Phones, Register(c, i, phone)
      PROVE  O!Next
  <2>1. /\ input[c] = None /\ input' = [input EXCEPT ![c] = [id |-> i, phone |-> phone]]
        /\ UNCHANGED <<tables, answer>> /\ DOMAIN input = Calls
    BY <1>0, <1>1 DEF Register, CallsOK, TypeOK
  <2>2. UNCHANGED <<AbsDone, AbsEffects, AbsAnswer>>
    BY <2>1, TablesMap, AnswersMap DEF tables
  <2>3. [id |-> i, phone |-> phone] # None
    BY NoneIsNoRow
  <2>4. AbsAsked[c] = None /\ AbsAsked' = [AbsAsked EXCEPT ![c] = [id |-> i, input |-> phone]]
    BY <2>1, <2>3 DEF AbsAsked, Id, Phone
  <2> QED BY <2>2, <2>4, AskMaps
<1>2. ASSUME NEW c \in Calls, LockRequest(c)
      PROVE  O!Next \/ UNCHANGED <<AbsDone, AbsEffects, AbsAsked, AbsAnswer>>
  <2>1. pc[c] = "start" /\ UNCHANGED <<requests, users, input>> /\ Id(c) \in Ids
    BY <1>0, <1>2, OpenCall DEF LockRequest, tables
  <2>2. CASE requests[Id(c)] = None
    BY <1>2, <1>a, <2>1, <2>2 DEF LockRequest
  <2>3. CASE requests[Id(c)] # None
    <3>1. requests[Id(c)] \in [phone : Phones, account : Accounts] /\ Replay(c, requests[Id(c)])
      BY <1>0, <1>2, <2>1, <2>3 DEF LockRequest, TypeOK
    <3>2. CASE requests[Id(c)].phone = Phone(c)
      <4>1. Answer(c, "ok", requests[Id(c)].account) /\ requests[Id(c)].account \in Accounts
        BY <3>1, <3>2 DEF Replay
      <4>2. requests[Id(c)] = Row(Phone(c), requests[Id(c)].account)
        BY <3>1, <3>2 DEF Row
      <4>3. AbsTell(c)
        BY <1>0, <2>1, <3>1, <4>1, <4>2, AnswerIsTold DEF Codes
      <4> QED BY <2>1, <4>3, TellMaps, TablesMap, AskedMap
    <3>3. CASE requests[Id(c)].phone # Phone(c)
      <4>1. Answer(c, "conflict", 0)
        BY <3>1, <3>3 DEF Replay, Refuse
      <4>2. AbsTell(c)
        BY <1>0, <2>1, <3>1, <3>3, <4>1, AnswerIsTold DEF Codes
      <4> QED BY <2>1, <4>2, TellMaps, TablesMap, AskedMap
    <3> QED BY <3>2, <3>3
  <2> QED BY <2>2, <2>3
<1>3. ASSUME NEW c \in Calls, CheckPhone(c) \/ TakeAccount(c) \/ PoolEmpty(c) \/ InsertUser(c)
                              \/ CommitLost(c) \/ Transient(c) \/ Fails(c)
      PROVE  O!Next \/ UNCHANGED <<AbsDone, AbsEffects, AbsAsked, AbsAnswer>>
  <2>1. /\ pc[c] \notin {"idle", "done"} /\ UNCHANGED <<requests, users, input>>
        /\ (\E code \in Codes \ {"none", "ok", "conflict"} : Refuse(c, code)) \/ UNCHANGED answer
    BY <1>3 DEF CheckPhone, TakeAccount, PoolEmpty, InsertUser, CommitLost, Transient,
        Fails, InTransaction, tables, Codes
  <2> QED BY <1>a, <2>1
<1>4. ASSUME NEW c \in Calls, Commit(c) PROVE O!Next
  <2>1. Due(c) /\ Effects(c) /\ UNCHANGED input /\ Answer(c, "ok", account[c]) /\ pc[c] = "commit"
    BY <1>4 DEF Commit, Due
  <2>2. Id(c) \in Ids /\ Phone(c) \in Phones /\ account[c] \in Accounts
    BY <1>0, <2>1, OpenCall DEF Due, Took
  <2>3. requests'[Id(c)] = Row(Phone(c), account[c])
    BY <1>0, <2>1, <2>2 DEF Effects, TypeOK
  <2>4. Row(Phone(c), account[c]) \in [phone : Phones, account : Accounts]
    BY <2>2 DEF Row
  <2>5. AbsTell(c)
    BY <1>0, <2>1, <2>2, <2>3, <2>4, AnswerIsTold DEF Codes
  <2>6. AbsPerform(c)
    BY <1>0, <2>1, EffectsPerform
  <2> QED BY <2>5, <2>6, PerformMaps
<1>5. ASSUME NEW c \in Calls, ServerDecides(c)
      PROVE  O!Next \/ UNCHANGED <<AbsDone, AbsEffects, AbsAsked, AbsAnswer>>
  <2>1. Due(c) /\ UNCHANGED <<input, answer>> /\ (Effects(c) \/ UNCHANGED tables)
    BY <1>5 DEF ServerDecides, Due
  <2>2. CASE Effects(c)
    BY <1>0, <2>1, <2>2, EffectsPerform, PerformMaps, AnswersMap
  <2>3. CASE UNCHANGED tables
    BY <2>1, <2>3, TablesMap, AskedMap, AnswersMap DEF tables
  <2> QED BY <2>1, <2>2, <2>3
<1>6. ASSUME NEW c \in Calls, Confirm(c)
      PROVE  O!Next \/ UNCHANGED <<AbsDone, AbsEffects, AbsAsked, AbsAnswer>>
  <2>1. /\ pc[c] = "confirm" /\ UNCHANGED <<requests, users, input>> /\ Id(c) \in Ids
    BY <1>0, <1>6, OpenCall DEF Confirm, tables
  <2>2. CASE Refuse(c, "uncertain")
    BY <1>a, <2>1, <2>2 DEF Codes
  <2>3. CASE /\ requests[Id(c)] # None /\ requests[Id(c)].phone = Phone(c)
             /\ Answer(c, "ok", requests[Id(c)].account)
    <3>1. requests[Id(c)] \in [phone : Phones, account : Accounts]
      BY <1>0, <2>1, <2>3 DEF TypeOK
    <3>2. /\ requests[Id(c)].account \in Accounts
          /\ requests[Id(c)] = Row(Phone(c), requests[Id(c)].account)
      BY <2>3, <3>1 DEF Row
    <3>3. AbsTell(c)
      BY <1>0, <2>1, <2>3, <3>1, <3>2, AnswerIsTold DEF Codes
    <3> QED BY <2>1, <3>3, TellMaps, TablesMap, AskedMap
  <2> QED BY <1>6, <2>2, <2>3 DEF Confirm
<1>7. ASSUME NEW p \in Actors, Refill(p)
      PROVE  O!Next \/ UNCHANGED <<AbsDone, AbsEffects, AbsAsked, AbsAnswer>>
  <2>1. /\ pc[p] \in {"refill", "refillCommit"} /\ UNCHANGED <<requests, users, input>>
        /\ UNCHANGED answer \/ Refused(p)
    BY <1>0, <1>7, RefillCases DEF Advances, AddBatch, tables
  <2>2. CASE Refused(p)
    BY <1>a, <2>1, <2>2 DEF Refused
  <2>3. CASE UNCHANGED answer
    BY <2>1, <2>3, TablesMap, AskedMap, AnswersMap
  <2> QED BY <2>1, <2>2, <2>3
<1>8. CASE ToolStarts \/ UNCHANGED vars
  <2>1. UNCHANGED <<requests, users, input, answer>>
    BY <1>8 DEF ToolStarts, vars, tables
  <2> QED BY <2>1, TablesMap, AskedMap, AnswersMap
<1> QED BY <1>1, <1>2, <1>3, <1>4, <1>5, <1>6, <1>7, <1>8, StepCases DEF CallStep, Progress

(* Registration takes effect at most once per request id, with one account, *)
(* and every call that hears of an account hears of that one, whatever      *)
(* calls, retries and lost COMMITs run side by side.                        *)
THEOREM RegistrationImplementsOnce == Spec => ImplementsOnce
<1>1. Init => O!Init
  <2> SUFFICES ASSUME Init PROVE O!Init
    OBVIOUS
  <2>1. /\ AbsDone = [i \in Ids |-> None] /\ AbsEffects = {}
        /\ AbsAsked = [c \in Calls |-> None]
        /\ AbsAnswer = [c \in Calls |-> [code |-> "none", result |-> None]]
    BY DEF Init, AbsDone, AbsEffects, AbsAsked, AbsAnswer, Told
  <2> QED BY <2>1 DEF O!Init, O!Told, AbsDone, AbsEffects, AbsAsked, AbsAnswer
<1> QED BY <1>1, Invariance, OnceStep, PTL DEF Spec, ImplementsOnce, O!Spec

=============================================================================
