--------------------------- MODULE DeliveryProofs ---------------------------
(***************************************************************************)
(* The outbox, for any number of messages, workers and lease renewals; and  *)
(* the composed system, which implements Outbox, so that every theorem      *)
(* about Outbox holds of it: a message goes to the device only while the    *)
(* friendship allows it.                                                    *)
(***************************************************************************)
EXTENDS Delivery, TLAPS

-----------------------------------------------------------------------------
(* What a worker's program counter says about the row it works on.          *)
WorkerOK ==
    \A w \in Workers :
        /\ pc[w] # "idle" => task[w] \in Task
        /\ pc[w] \in {"persist"} \cup PersistSteps \cup DispatchSteps => task[w] \in MsgTask
        /\ pc[w] \in CleanSteps => task[w] \in CleanTask
        /\ pc[w] \in AckSteps => task[w] \in AckTask

(* The pair lock belongs to a worker only inside a transaction.             *)
LockOK == \A w \in Workers : pairLock = w => pc[w] \in InTxn

(* A message row has an id exactly when it exists.                          *)
RowOK == \A k \in Keys : seq[k] = 0 <=> state[Msg(k)] = "absent"

(* A row in the hands of a worker exists.                                   *)
ClaimedExists == \A w \in Workers : pc[w] # "idle" => state[task[w]] # "absent"

CoreOK == LockOK /\ RowOK /\ ClaimedExists /\ LeaseHeldToCommit

Inv == TypeOK /\ WorkerOK /\ CoreOK

-----------------------------------------------------------------------------
(* The three kinds of rows are told apart by their first component.         *)
LEMMA TaskFacts ==
    /\ \A k \in Keys : Msg(k) \in MsgTask /\ Ack(k) \in AckTask
    /\ \A c \in Seqs : Clean(c) \in CleanTask
    /\ \A t \in MsgTask : t[2] \in Keys /\ t = Msg(t[2])
    /\ \A t \in AckTask : t[2] \in Keys /\ t = Ack(t[2])
    /\ \A t \in CleanTask : t[2] \in Seqs /\ t = Clean(t[2])
    /\ MsgTask \subseteq Task /\ CleanTask \subseteq Task /\ AckTask \subseteq Task
    /\ MsgTask \cap CleanTask = {} /\ MsgTask \cap AckTask = {} /\ CleanTask \cap AckTask = {}
    /\ \A k, j \in Keys : Msg(k) = Msg(j) => k = j
    /\ \A k, j \in Keys : Ack(k) = Ack(j) => k = j
BY DEF Msg, Ack, Clean, MsgTask, AckTask, CleanTask, Task

(* An empty outbox satisfies the invariant.                                 *)
LEMMA TypeInit == Init => Inv
BY ConstantsAssumption, TaskFacts DEF Init, Inv, CoreOK, TypeOK, WorkerOK, LockOK, RowOK,
    ClaimedExists, LeaseHeldToCommit, PC, InTxn, PersistSteps, DispatchSteps,
    CleanSteps, AckSteps

-----------------------------------------------------------------------------
(* Every step keeps the types and the relation of workers to their rows.    *)
LEMMA TypeStep == Inv /\ [Next]_vars => TypeOK' /\ WorkerOK'
<1> SUFFICES ASSUME Inv, [Next]_vars PROVE TypeOK' /\ WorkerOK'
  OBVIOUS
<1> USE ConstantsAssumption, TaskFacts DEF Inv, TypeOK, WorkerOK, vars, friendVars,
      sendVars, rowVars, taskVars, ackVars, mongoVars, storeVars, workerVars,
      PC, InTxn, PersistSteps, DispatchSteps, CleanSteps, AckSteps, Send, Poll
<1>1. ASSUME NEW k \in Keys, NEW c \in Contents, TakeId(k, c) PROVE TypeOK' /\ WorkerOK'
  BY <1>1 DEF TakeId, NextIds, Seqs
<1>2. ASSUME NEW s \in sends, QueueSingleMessage(s) PROVE TypeOK' /\ WorkerOK'
  <2>1. s.key \in Keys /\ s.content \in Contents /\ s.seq \in 1..MaxSeq
    BY DEF Seqs
  <2>2. polls' \subseteq Poll /\ sends' \subseteq Send
    BY <1>2, <2>1 DEF QueueSingleMessage
  <2>3. /\ seq' \in [Keys -> 0..MaxSeq] /\ content' \in [Keys -> Contents \cup {None}]
        /\ stage' = stage /\ dispatchDone' = dispatchDone
    BY <1>2, <2>1 DEF QueueSingleMessage
  <2>4. /\ state' \in [Task -> {"absent", "pending", "claimed", "done", "cancelled"}]
        /\ lease' = lease
    BY <1>2, <2>1 DEF QueueSingleMessage
  <2>5. QED
    BY <1>2, <2>2, <2>3, <2>4 DEF QueueSingleMessage
<1>3. ASSUME NEW s \in sends, QueueFails(s) PROVE TypeOK' /\ WorkerOK'
  BY <1>3 DEF QueueFails
<1>4. ASSUME NEW p \in polls, AnswerSender(p) PROVE TypeOK' /\ WorkerOK'
  BY <1>4 DEF AnswerSender
<1>5. ASSUME NEW w \in Workers, NEW t \in Task, ClaimOutboxTask(w, t) PROVE TypeOK' /\ WorkerOK'
  BY <1>5 DEF ClaimOutboxTask
<1>6. ASSUME NEW w \in Workers, BeginPersist(w) PROVE TypeOK' /\ WorkerOK'
  BY <1>6 DEF BeginPersist, BeginPhase
<1>7. ASSUME NEW w \in Workers, BeginDispatch(w) PROVE TypeOK' /\ WorkerOK'
  BY <1>7 DEF BeginDispatch, BeginPhase, Task
<1>8. ASSUME NEW w \in Workers, SaveBody(w) PROVE TypeOK' /\ WorkerOK'
  BY <1>8 DEF SaveBody, External
<1>9. ASSUME NEW w \in Workers, PublishMessage(w) PROVE TypeOK' /\ WorkerOK'
  BY <1>9 DEF PublishMessage, External
<1>10. ASSUME NEW w \in Workers, CacheBody(w) \/ DeliverConfirmed(w) PROVE TypeOK' /\ WorkerOK'
  BY <1>10 DEF CacheBody, DeliverConfirmed, External
<1>11. ASSUME NEW w \in Workers, CleanCache(w) \/ CleanBody(w) PROVE TypeOK' /\ WorkerOK'
  BY <1>11 DEF CleanCache, CleanBody, External, Doomed
<1>12. ASSUME NEW w \in Workers, MarkDelivered(w) \/ Uncache(w) PROVE TypeOK' /\ WorkerOK'
  BY <1>12 DEF MarkDelivered, Uncache, External
<1>13. ASSUME NEW w \in Workers, CommitPersist(w) PROVE TypeOK' /\ WorkerOK'
  BY <1>13 DEF CommitPersist, Commit
<1>14. ASSUME NEW w \in Workers, CommitReschedule(w) PROVE TypeOK' /\ WorkerOK'
  BY <1>14 DEF CommitReschedule, Commit
<1>15. ASSUME NEW w \in Workers, CommitSettle(w) PROVE TypeOK' /\ WorkerOK'
  BY <1>15 DEF CommitSettle, Commit
<1>16. ASSUME NEW w \in Workers, StepFails(w) \/ LoseLock(w) PROVE TypeOK' /\ WorkerOK'
  BY <1>16 DEF StepFails, LoseLock
<1>17. ASSUME NEW w \in Workers, RetryOutboxTask(w) PROVE TypeOK' /\ WorkerOK'
  BY <1>17 DEF RetryOutboxTask
<1>18. ASSUME NEW w \in Workers, RecoveryDeferred(w) PROVE TypeOK' /\ WorkerOK'
  BY <1>18 DEF RecoveryDeferred
<1>19. ASSUME NEW w \in Workers, NotifySender(w) PROVE TypeOK' /\ WorkerOK'
  BY <1>19 DEF NotifySender
<1>20. CASE DeleteFriend
  <2>1. deletedSeq' \in 0..MaxSeq /\ lastId' \in 0..MaxSeq
    BY <1>20 DEF DeleteFriend, NextIds, Seqs
  <2>2. /\ state' \in [Task -> {"absent", "pending", "claimed", "done", "cancelled"}]
        /\ lease' \in [Task -> Workers \cup {None}]
    BY <1>20 DEF DeleteFriend
  <2>3. content' \in [Keys -> Contents \cup {None}]
    BY <1>20 DEF DeleteFriend
  <2>4. QED
    BY <1>20, <2>1, <2>2, <2>3 DEF DeleteFriend
<1>21. CASE BecomeFriends
  BY <1>21 DEF BecomeFriends
<1>22. ASSUME NEW k \in Keys, AckStep(k) PROVE TypeOK' /\ WorkerOK'
  <2>1. CASE ReadForAck(k)
    BY <2>1 DEF ReadForAck
  <2>2. CASE CommitAck(k)
    BY <2>2 DEF CommitAck
  <2>3. CASE AckFails(k)
    BY <2>3 DEF AckFails
  <2>4. QED
    BY <1>22, <2>1, <2>2, <2>3 DEF AckStep
<1>23. ASSUME NEW k \in topic, ConfirmMessageDispatch(k) PROVE TypeOK' /\ WorkerOK'
  BY <1>23 DEF ConfirmMessageDispatch
<1>24. ASSUME NEW p \in Pushers, LockPair(p) \/ UnlockPair(p) PROVE TypeOK' /\ WorkerOK'
  BY <1>24 DEF LockPair, UnlockPair
<1>25. CASE Crash
  BY <1>25 DEF Crash
<1>26. CASE UNCHANGED vars
  BY <1>26
<1>27. QED
  BY <1>1, <1>2, <1>3, <1>4, <1>5, <1>6, <1>7, <1>8, <1>9, <1>10, <1>11, <1>12, <1>13,
     <1>14, <1>15, <1>16, <1>17, <1>18, <1>19, <1>20, <1>21, <1>22, <1>23, <1>24, <1>25,
     <1>26 DEF Next, SenderStep, WorkerStep, LocalWorkerStep
-----------------------------------------------------------------------------
(* Locks, rows and leases: what LeaseHeldToCommit rests on.                 *)
LEMMA CoreStep == Inv /\ [Next]_vars => CoreOK'
<1> SUFFICES ASSUME Inv, [Next]_vars PROVE CoreOK'
  OBVIOUS
<1> USE ConstantsAssumption, TaskFacts DEF Inv, CoreOK, TypeOK, WorkerOK, LockOK, RowOK,
      ClaimedExists, LeaseHeldToCommit, HoldsLease, RowLocked, Exists, vars, friendVars,
      sendVars, rowVars, taskVars, ackVars, mongoVars, storeVars, workerVars,
      InTxn, PersistSteps, DispatchSteps, CleanSteps, AckSteps
<1>1. ASSUME NEW k \in Keys, NEW c \in Contents, TakeId(k, c) PROVE CoreOK'
  BY <1>1 DEF TakeId
<1>2. ASSUME NEW s \in sends, QueueSingleMessage(s) PROVE CoreOK'
  BY <1>2 DEF QueueSingleMessage, Send, Seqs
<1>3. ASSUME NEW s \in sends, QueueFails(s) PROVE CoreOK'
  BY <1>3 DEF QueueFails
<1>4. ASSUME NEW p \in polls, AnswerSender(p) PROVE CoreOK'
  BY <1>4 DEF AnswerSender
<1>5. ASSUME NEW w \in Workers, NEW t \in Task, ClaimOutboxTask(w, t) PROVE CoreOK'
  BY <1>5 DEF ClaimOutboxTask
<1>6. ASSUME NEW w \in Workers, BeginPersist(w) PROVE CoreOK'
  BY <1>6 DEF BeginPersist, BeginPhase
<1>7. ASSUME NEW w \in Workers, BeginDispatch(w) PROVE CoreOK'
  BY <1>7 DEF BeginDispatch, BeginPhase, Task
<1>8. ASSUME NEW w \in Workers, SaveBody(w) PROVE CoreOK'
  BY <1>8 DEF SaveBody, External
<1>9. ASSUME NEW w \in Workers, PublishMessage(w) PROVE CoreOK'
  BY <1>9 DEF PublishMessage, External
<1>10. ASSUME NEW w \in Workers, CacheBody(w) \/ DeliverConfirmed(w) PROVE CoreOK'
  BY <1>10 DEF CacheBody, DeliverConfirmed, External
<1>11. ASSUME NEW w \in Workers, CleanCache(w) \/ CleanBody(w) PROVE CoreOK'
  BY <1>11 DEF CleanCache, CleanBody, External
<1>12. ASSUME NEW w \in Workers, MarkDelivered(w) \/ Uncache(w) PROVE CoreOK'
  BY <1>12 DEF MarkDelivered, Uncache, External
<1>13. ASSUME NEW w \in Workers, CommitPersist(w) PROVE CoreOK'
  BY <1>13 DEF CommitPersist, Commit
<1>14. ASSUME NEW w \in Workers, CommitReschedule(w) PROVE CoreOK'
  BY <1>14 DEF CommitReschedule, Commit
<1>15. ASSUME NEW w \in Workers, CommitSettle(w) PROVE CoreOK'
  BY <1>15 DEF CommitSettle, Commit, Swept, Cancelled
<1>16. ASSUME NEW w \in Workers, StepFails(w) \/ LoseLock(w) PROVE CoreOK'
  BY <1>16 DEF StepFails, LoseLock
<1>17. ASSUME NEW w \in Workers, RetryOutboxTask(w) PROVE CoreOK'
  BY <1>17 DEF RetryOutboxTask
<1>18. ASSUME NEW w \in Workers, RecoveryDeferred(w) PROVE CoreOK'
  BY <1>18 DEF RecoveryDeferred
<1>19. ASSUME NEW w \in Workers, NotifySender(w) PROVE CoreOK'
  BY <1>19 DEF NotifySender
<1>20. CASE DeleteFriend
  <2>1. \A t \in Task : state[t] # "absent" => state'[t] # "absent"
    BY <1>20 DEF DeleteFriend
  <2>2. \A k \in Keys : seq[k] = 0 => state'[Msg(k)] = "absent"
    <3>1. ASSUME NEW k \in Keys, seq[k] = 0 PROVE state'[Msg(k)] = "absent"
      <4>1. k \notin Cancelled(deletedSeq', {"pending", "claimed"})
        BY <3>1 DEF Cancelled
      <4>2. Msg(k) # Clean(deletedSeq') /\ Msg(k)[2] = k
        BY DEF Msg, Clean
      <4>3. QED
        BY <1>20, <3>1, <4>1, <4>2 DEF DeleteFriend
    <3>2. QED
      BY <3>1
  <2>3. seq' = seq /\ pairLock' = None /\ pc' = pc /\ task' = task
    BY <1>20 DEF DeleteFriend
  <2>4. QED
    BY <2>1, <2>2, <2>3
<1>21. CASE BecomeFriends
  BY <1>21 DEF BecomeFriends
<1>22. ASSUME NEW k \in Keys, AckStep(k) PROVE CoreOK'
  BY <1>22 DEF AckStep, ReadForAck, CommitAck, AckFails
<1>23. ASSUME NEW k \in topic, ConfirmMessageDispatch(k) PROVE CoreOK'
  BY <1>23 DEF ConfirmMessageDispatch
<1>24. ASSUME NEW p \in Pushers, LockPair(p) \/ UnlockPair(p) PROVE CoreOK'
  BY <1>24 DEF LockPair, UnlockPair
<1>25. CASE Crash
  BY <1>25 DEF Crash
<1>26. CASE UNCHANGED vars
  BY <1>26
<1>27. QED
  BY <1>1, <1>2, <1>3, <1>4, <1>5, <1>6, <1>7, <1>8, <1>9, <1>10, <1>11, <1>12,
     <1>13, <1>14, <1>15, <1>16, <1>17, <1>18, <1>19, <1>20, <1>21, <1>22, <1>23,
     <1>24, <1>25, <1>26 DEF Next, SenderStep, WorkerStep, LocalWorkerStep
-----------------------------------------------------------------------------
(* Type correctness of the outbox for every instance: all steps of senders, *)
(* workers, friend commands, receivers and deliveries, and crashes, keep    *)
(* the rows, the stores and the workers well formed.                        *)
THEOREM InvHolds == Spec => []Inv
<1>1. Init => Inv
  BY TypeInit
<1>2. Inv /\ [Next]_vars => Inv'
  BY TypeStep, CoreStep DEF Inv
<1>3. QED
  BY <1>1, <1>2, PTL DEF Spec

(* Type correctness: rows, leases, stores and workers hold values of their  *)
(* types at all times.                                                      *)
THEOREM TypeCorrect == Spec => []TypeOK
<1>1. Inv => TypeOK
  BY DEF Inv
<1>2. QED
  BY <1>1, InvHolds, PTL

(* ProcessOutboxTask commits only under the claim it started with, whatever *)
(* the number of workers and however often leases expire, connections are   *)
(* lost and the process dies.                                               *)
THEOREM LeaseSafe == Spec => []LeaseHeldToCommit
<1>1. Inv => LeaseHeldToCommit
  BY DEF Inv, CoreOK
<1>2. QED
  BY <1>1, InvHolds, PTL

(* No step takes a row back from done or cancelled.                         *)
LEMMA SettledStep == Inv /\ [Next]_vars =>
    \A t \in Task : /\ state[t] = "cancelled" => state'[t] = "cancelled"
                    /\ state[t] = "done" => state'[t] \in {"done", "cancelled"}
<1> DEFINE Stays == \A t \in Task :
      /\ state[t] = "cancelled" => state'[t] = "cancelled"
      /\ state[t] = "done" => state'[t] \in {"done", "cancelled"}
<1> SUFFICES ASSUME Inv, [Next]_vars PROVE Stays
  OBVIOUS
<1> USE ConstantsAssumption, TaskFacts DEF Inv, CoreOK, TypeOK, WorkerOK, LockOK, RowOK,
      LeaseHeldToCommit, HoldsLease, Exists, vars, friendVars, sendVars, rowVars, taskVars,
      ackVars, mongoVars, storeVars, workerVars,
      InTxn, PersistSteps, DispatchSteps, CleanSteps, AckSteps
<1>1. ASSUME NEW k \in Keys, NEW c \in Contents, TakeId(k, c) PROVE Stays
  BY <1>1 DEF TakeId
<1>2. ASSUME NEW s \in sends, QueueSingleMessage(s) PROVE Stays
  BY <1>2 DEF QueueSingleMessage, Send, Seqs
<1>3. ASSUME NEW s \in sends, QueueFails(s) PROVE Stays
  BY <1>3 DEF QueueFails
<1>4. ASSUME NEW p \in polls, AnswerSender(p) PROVE Stays
  BY <1>4 DEF AnswerSender
<1>5. ASSUME NEW w \in Workers, NEW t \in Task, ClaimOutboxTask(w, t) PROVE Stays
  BY <1>5 DEF ClaimOutboxTask
<1>6. ASSUME NEW w \in Workers, BeginPersist(w) PROVE Stays
  BY <1>6 DEF BeginPersist, BeginPhase
<1>7. ASSUME NEW w \in Workers, BeginDispatch(w) PROVE Stays
  BY <1>7 DEF BeginDispatch, BeginPhase, Task
<1>8. ASSUME NEW w \in Workers, SaveBody(w) PROVE Stays
  BY <1>8 DEF SaveBody, External
<1>9. ASSUME NEW w \in Workers, PublishMessage(w) PROVE Stays
  BY <1>9 DEF PublishMessage, External
<1>10. ASSUME NEW w \in Workers, CacheBody(w) \/ DeliverConfirmed(w) PROVE Stays
  BY <1>10 DEF CacheBody, DeliverConfirmed, External
<1>11. ASSUME NEW w \in Workers, CleanCache(w) \/ CleanBody(w) PROVE Stays
  BY <1>11 DEF CleanCache, CleanBody, External
<1>12. ASSUME NEW w \in Workers, MarkDelivered(w) \/ Uncache(w) PROVE Stays
  BY <1>12 DEF MarkDelivered, Uncache, External
<1>13. ASSUME NEW w \in Workers, CommitPersist(w) PROVE Stays
  BY <1>13 DEF CommitPersist, Commit
<1>14. ASSUME NEW w \in Workers, CommitReschedule(w) PROVE Stays
  BY <1>14 DEF CommitReschedule, Commit
<1>15. ASSUME NEW w \in Workers, CommitSettle(w) PROVE Stays
  BY <1>15 DEF CommitSettle, Commit
<1>16. ASSUME NEW w \in Workers, StepFails(w) \/ LoseLock(w) PROVE Stays
  BY <1>16 DEF StepFails, LoseLock
<1>17. ASSUME NEW w \in Workers, RetryOutboxTask(w) PROVE Stays
  BY <1>17 DEF RetryOutboxTask
<1>18. ASSUME NEW w \in Workers, RecoveryDeferred(w) PROVE Stays
  BY <1>18 DEF RecoveryDeferred
<1>19. ASSUME NEW w \in Workers, NotifySender(w) PROVE Stays
  BY <1>19 DEF NotifySender
<1>20. CASE DeleteFriend
  BY <1>20 DEF DeleteFriend, Cancelled
<1>21. CASE BecomeFriends
  BY <1>21 DEF BecomeFriends
<1>22. ASSUME NEW k \in Keys, AckStep(k) PROVE Stays
  BY <1>22 DEF AckStep, ReadForAck, CommitAck, AckFails
<1>23. ASSUME NEW k \in topic, ConfirmMessageDispatch(k) PROVE Stays
  BY <1>23 DEF ConfirmMessageDispatch
<1>24. ASSUME NEW p \in Pushers, LockPair(p) \/ UnlockPair(p) PROVE Stays
  BY <1>24 DEF LockPair, UnlockPair
<1>25. CASE Crash
  BY <1>25 DEF Crash
<1>26. CASE UNCHANGED vars
  BY <1>26
<1>27. QED
  BY <1>1, <1>2, <1>3, <1>4, <1>5, <1>6, <1>7, <1>8, <1>9, <1>10, <1>11, <1>12,
     <1>13, <1>14, <1>15, <1>16, <1>17, <1>18, <1>19, <1>20, <1>21, <1>22, <1>23,
     <1>24, <1>25, <1>26 DEF Next, SenderStep, WorkerStep, LocalWorkerStep

(* Settled rows stay settled, in every behaviour of every instance.         *)
THEOREM SettledStaysHolds == Spec => SettledStays
<1>1. Inv /\ [Next]_vars =>
        [\A t \in Task : /\ state[t] = "cancelled" => state'[t] = "cancelled"
                         /\ state[t] = "done" => state'[t] \in {"done", "cancelled"}]_vars
  BY SettledStep
<1>2. QED
  BY <1>1, InvHolds, PTL DEF Spec, SettledStays
-----------------------------------------------------------------------------
(* A worker that dispatches a message has seen its stage=1 committed.       *)
StageOK ==
    \A w \in Workers :
        pc[w] \in DispatchSteps \/ (pc[w] = "dispatch" /\ task[w] \in MsgTask)
            => stage[task[w][2]] = 1

LeakInv == NothingLeaksBeforeCommit /\ StageOK

(* No step publishes, caches or announces a message below stage 1.          *)
LEMMA LeakStep == Inv /\ LeakInv /\ [Next]_vars => LeakInv'
<1> SUFFICES ASSUME Inv, LeakInv, [Next]_vars PROVE LeakInv'
  OBVIOUS
<1> USE ConstantsAssumption, TaskFacts DEF Inv, LeakInv, NothingLeaksBeforeCommit, StageOK,
      TypeOK, WorkerOK, vars, friendVars, sendVars, rowVars, taskVars, ackVars, mongoVars,
      storeVars, workerVars, InTxn, PersistSteps, DispatchSteps, CleanSteps, AckSteps
<1>1. ASSUME NEW k \in Keys, NEW c \in Contents, TakeId(k, c) PROVE LeakInv'
  BY <1>1 DEF TakeId
<1>2. ASSUME NEW s \in sends, QueueSingleMessage(s) PROVE LeakInv'
  BY <1>2 DEF QueueSingleMessage
<1>3. ASSUME NEW s \in sends, QueueFails(s) PROVE LeakInv'
  BY <1>3 DEF QueueFails
<1>4. ASSUME NEW p \in polls, AnswerSender(p) PROVE LeakInv'
  BY <1>4 DEF AnswerSender
<1>5. ASSUME NEW w \in Workers, NEW t \in Task, ClaimOutboxTask(w, t) PROVE LeakInv'
  BY <1>5 DEF ClaimOutboxTask
<1>6. ASSUME NEW w \in Workers, BeginPersist(w) PROVE LeakInv'
  BY <1>6 DEF BeginPersist, BeginPhase
<1>7. ASSUME NEW w \in Workers, BeginDispatch(w) PROVE LeakInv'
  BY <1>7 DEF BeginDispatch, BeginPhase, Task
<1>8. ASSUME NEW w \in Workers, SaveBody(w) PROVE LeakInv'
  BY <1>8 DEF SaveBody, External
<1>9. ASSUME NEW w \in Workers, PublishMessage(w) PROVE LeakInv'
  BY <1>9 DEF PublishMessage, External
<1>10. ASSUME NEW w \in Workers, CacheBody(w) \/ DeliverConfirmed(w) PROVE LeakInv'
  BY <1>10 DEF CacheBody, DeliverConfirmed, External
<1>11. ASSUME NEW w \in Workers, CleanCache(w) \/ CleanBody(w) PROVE LeakInv'
  BY <1>11 DEF CleanCache, CleanBody, External, Doomed
<1>12. ASSUME NEW w \in Workers, MarkDelivered(w) \/ Uncache(w) PROVE LeakInv'
  BY <1>12 DEF MarkDelivered, Uncache, External
<1>13. ASSUME NEW w \in Workers, CommitPersist(w) PROVE LeakInv'
  BY <1>13 DEF CommitPersist, Commit
<1>14. ASSUME NEW w \in Workers, CommitReschedule(w) PROVE LeakInv'
  BY <1>14 DEF CommitReschedule, Commit
<1>15. ASSUME NEW w \in Workers, CommitSettle(w) PROVE LeakInv'
  BY <1>15 DEF CommitSettle, Commit
<1>16. ASSUME NEW w \in Workers, StepFails(w) \/ LoseLock(w) PROVE LeakInv'
  BY <1>16 DEF StepFails, LoseLock
<1>17. ASSUME NEW w \in Workers, RetryOutboxTask(w) PROVE LeakInv'
  BY <1>17 DEF RetryOutboxTask
<1>18. ASSUME NEW w \in Workers, RecoveryDeferred(w) PROVE LeakInv'
  BY <1>18 DEF RecoveryDeferred
<1>19. ASSUME NEW w \in Workers, NotifySender(w) PROVE LeakInv'
  BY <1>19 DEF NotifySender
<1>20. CASE DeleteFriend
  BY <1>20 DEF DeleteFriend
<1>21. CASE BecomeFriends
  BY <1>21 DEF BecomeFriends
<1>22. ASSUME NEW k \in Keys, AckStep(k) PROVE LeakInv'
  BY <1>22 DEF AckStep, ReadForAck, CommitAck, AckFails
<1>23. ASSUME NEW k \in topic, ConfirmMessageDispatch(k) PROVE LeakInv'
  BY <1>23 DEF ConfirmMessageDispatch
<1>24. ASSUME NEW p \in Pushers, LockPair(p) \/ UnlockPair(p) PROVE LeakInv'
  BY <1>24 DEF LockPair, UnlockPair
<1>25. CASE Crash
  BY <1>25 DEF Crash
<1>26. CASE UNCHANGED vars
  BY <1>26
<1>27. QED
  BY <1>1, <1>2, <1>3, <1>4, <1>5, <1>6, <1>7, <1>8, <1>9, <1>10, <1>11, <1>12,
     <1>13, <1>14, <1>15, <1>16, <1>17, <1>18, <1>19, <1>20, <1>21, <1>22, <1>23,
     <1>24, <1>25, <1>26 DEF Next, SenderStep, WorkerStep, LocalWorkerStep

(* Nothing leaves the database before stage=1 is committed.                 *)
THEOREM NothingLeaks == Spec => []NothingLeaksBeforeCommit
<1>1. Init => LeakInv
  BY DEF Init, LeakInv, NothingLeaksBeforeCommit, StageOK, DispatchSteps
<1>2. Inv /\ LeakInv /\ [Next]_vars => LeakInv'
  BY LeakStep
<1>3. LeakInv => NothingLeaksBeforeCommit
  BY DEF LeakInv
<1>4. QED
  BY <1>1, <1>2, <1>3, InvHolds, PTL DEF Spec

-----------------------------------------------------------------------------
(* A message row is settled by a worker only after its receipt is stored.   *)
SettleOK ==
    \A w \in Workers :
        pc[w] = "settle" /\ task[w] \in MsgTask => task[w][2] \in receipts

ReceiptInv == ReceiptHasTask /\ SettleOK

(* No step writes a receipt without its task, or drops one of the two.      *)
LEMMA ReceiptStep == Inv /\ ReceiptInv /\ [Next]_vars => ReceiptInv'
<1> SUFFICES ASSUME Inv, ReceiptInv, [Next]_vars PROVE ReceiptInv'
  OBVIOUS
<1> USE ConstantsAssumption, TaskFacts DEF Inv, CoreOK, ClaimedExists, ReceiptInv,
      ReceiptHasTask, SettleOK, TypeOK, WorkerOK, vars, friendVars, sendVars, rowVars,
      taskVars, ackVars, mongoVars, storeVars, workerVars, InTxn, PersistSteps,
      DispatchSteps, CleanSteps, AckSteps
<1>1. ASSUME NEW k \in Keys, NEW c \in Contents, TakeId(k, c) PROVE ReceiptInv'
  BY <1>1 DEF TakeId
<1>2. ASSUME NEW s \in sends, QueueSingleMessage(s) PROVE ReceiptInv'
  BY <1>2 DEF QueueSingleMessage, Send
<1>3. ASSUME NEW s \in sends, QueueFails(s) PROVE ReceiptInv'
  BY <1>3 DEF QueueFails
<1>4. ASSUME NEW p \in polls, AnswerSender(p) PROVE ReceiptInv'
  BY <1>4 DEF AnswerSender
<1>5. ASSUME NEW w \in Workers, NEW t \in Task, ClaimOutboxTask(w, t) PROVE ReceiptInv'
  BY <1>5 DEF ClaimOutboxTask
<1>6. ASSUME NEW w \in Workers, BeginPersist(w) PROVE ReceiptInv'
  BY <1>6 DEF BeginPersist, BeginPhase
<1>7. ASSUME NEW w \in Workers, BeginDispatch(w) PROVE ReceiptInv'
  BY <1>7 DEF BeginDispatch, BeginPhase, Task
<1>8. ASSUME NEW w \in Workers, SaveBody(w) PROVE ReceiptInv'
  BY <1>8 DEF SaveBody, External
<1>9. ASSUME NEW w \in Workers, PublishMessage(w) PROVE ReceiptInv'
  BY <1>9 DEF PublishMessage, External
<1>10. ASSUME NEW w \in Workers, CacheBody(w) \/ DeliverConfirmed(w) PROVE ReceiptInv'
  BY <1>10 DEF CacheBody, DeliverConfirmed, External
<1>11. ASSUME NEW w \in Workers, CleanCache(w) \/ CleanBody(w) PROVE ReceiptInv'
  BY <1>11 DEF CleanCache, CleanBody, External, Doomed
<1>12. ASSUME NEW w \in Workers, MarkDelivered(w) \/ Uncache(w) PROVE ReceiptInv'
  BY <1>12 DEF MarkDelivered, Uncache, External
<1>13. ASSUME NEW w \in Workers, CommitPersist(w) PROVE ReceiptInv'
  BY <1>13 DEF CommitPersist, Commit
<1>14. ASSUME NEW w \in Workers, CommitReschedule(w) PROVE ReceiptInv'
  BY <1>14 DEF CommitReschedule, Commit
<1>15. ASSUME NEW w \in Workers, CommitSettle(w) PROVE ReceiptInv'
  BY <1>15 DEF CommitSettle, Commit
<1>16. ASSUME NEW w \in Workers, StepFails(w) \/ LoseLock(w) PROVE ReceiptInv'
  BY <1>16 DEF StepFails, LoseLock
<1>17. ASSUME NEW w \in Workers, RetryOutboxTask(w) PROVE ReceiptInv'
  BY <1>17 DEF RetryOutboxTask
<1>18. ASSUME NEW w \in Workers, RecoveryDeferred(w) PROVE ReceiptInv'
  BY <1>18 DEF RecoveryDeferred
<1>19. ASSUME NEW w \in Workers, NotifySender(w) PROVE ReceiptInv'
  BY <1>19 DEF NotifySender
<1>20. CASE DeleteFriend
  BY <1>20 DEF DeleteFriend, Ack, Clean
<1>21. CASE BecomeFriends
  BY <1>21 DEF BecomeFriends
<1>22. ASSUME NEW k \in Keys, AckStep(k) PROVE ReceiptInv'
  <2>1. CASE ReadForAck(k) \/ AckFails(k)
    BY <2>1 DEF ReadForAck, AckFails
  <2>2. CASE CommitAck(k)
    <3>1. \A j \in Keys : j \in receipts' <=> state'[Ack(j)] # "absent"
      BY <2>2 DEF CommitAck
    <3>2. received' \subseteq receipts' /\ SettleOK'
      BY <2>2 DEF CommitAck
    <3>3. QED
      BY <3>1, <3>2
  <2>3. QED
    BY <1>22, <2>1, <2>2 DEF AckStep
<1>23. ASSUME NEW k \in topic, ConfirmMessageDispatch(k) PROVE ReceiptInv'
  BY <1>23 DEF ConfirmMessageDispatch
<1>24. ASSUME NEW p \in Pushers, LockPair(p) \/ UnlockPair(p) PROVE ReceiptInv'
  BY <1>24 DEF LockPair, UnlockPair
<1>25. CASE Crash
  BY <1>25 DEF Crash
<1>26. CASE UNCHANGED vars
  BY <1>26
<1>27. QED
  BY <1>1, <1>2, <1>3, <1>4, <1>5, <1>6, <1>7, <1>8, <1>9, <1>10, <1>11, <1>12,
     <1>13, <1>14, <1>15, <1>16, <1>17, <1>18, <1>19, <1>20, <1>21, <1>22, <1>23,
     <1>24, <1>25, <1>26 DEF Next, SenderStep, WorkerStep, LocalWorkerStep

(* A receipt is never without its cleanup task, and MongoDB calls a message *)
(* received only when the receipt is stored.                                *)
THEOREM ReceiptsKept == Spec => []ReceiptHasTask
<1>1. Init => ReceiptInv
  BY TaskFacts DEF Init, ReceiptInv, ReceiptHasTask, SettleOK
<1>2. Inv /\ ReceiptInv /\ [Next]_vars => ReceiptInv'
  BY ReceiptStep
<1>3. ReceiptInv => ReceiptHasTask
  BY DEF ReceiptInv
<1>4. QED
  BY <1>1, <1>2, <1>3, InvHolds, PTL DEF Spec
-----------------------------------------------------------------------------
(* From here on ids grow: Snowflake::nextId never repeats or goes back.     *)

(* A cleanup task has a cutoff at or below the deletion mark, the mark is   *)
(* an id that was handed out, and cleanup tasks are not cancelled.          *)
CutoffOK ==
    /\ deletedSeq <= lastId
    /\ \A c \in Seqs : state[Clean(c)] # "absent" => c <= deletedSeq
    /\ \A c \in Seqs : state[Clean(c)] # "cancelled"

DeletionInv == CutoffOK /\ WatermarkCancels

(* With growing ids, no step leaves a message at or below the deletion mark *)
(* without a cleanup to come.                                               *)
LEMMA DeletionStep ==
    ASSUME ClockSteps = FALSE, Inv, DeletionInv, [Next]_vars PROVE DeletionInv'
<1> USE ConstantsAssumption, TaskFacts DEF Inv, CoreOK, LockOK, RowOK, ClaimedExists,
      LeaseHeldToCommit, HoldsLease, DeletionInv, CutoffOK, WatermarkCancels, Outstanding,
      Exists, FriendAllows, TypeOK, WorkerOK, vars, friendVars, sendVars, rowVars, taskVars,
      ackVars, mongoVars, storeVars, workerVars, InTxn, PersistSteps, DispatchSteps,
      CleanSteps, AckSteps, Seqs
<1>1. ASSUME NEW k \in Keys, NEW c \in Contents, TakeId(k, c) PROVE DeletionInv'
  BY <1>1 DEF TakeId, NextIds
<1>2. ASSUME NEW s \in sends, QueueSingleMessage(s) PROVE DeletionInv'
  <2>1. CASE UNCHANGED <<rowVars, taskVars>>
    BY <1>2, <2>1 DEF QueueSingleMessage
  <2>2. CASE ~UNCHANGED <<rowVars, taskVars>>
    <3>1. /\ s.key \in Keys /\ s.seq \in Seqs /\ ~Exists(s.key) /\ FriendAllows(s.seq)
          /\ seq' = [seq EXCEPT ![s.key] = s.seq]
          /\ state' = [state EXCEPT ![Msg(s.key)] = "pending"]
          /\ UNCHANGED <<stage, dispatchDone, lease, friendVars, lastId, ackVars,
                         storeVars, pairLock, workerVars>>
      BY <1>2, <2>2 DEF QueueSingleMessage, Send
    <3>2. QED BY <3>1
  <2>3. QED BY <2>1, <2>2
<1>3. ASSUME NEW s \in sends, QueueFails(s) PROVE DeletionInv'
  BY <1>3 DEF QueueFails
<1>4. ASSUME NEW p \in polls, AnswerSender(p) PROVE DeletionInv'
  BY <1>4 DEF AnswerSender
<1>5. ASSUME NEW w \in Workers, NEW t \in Task, ClaimOutboxTask(w, t) PROVE DeletionInv'
  BY <1>5 DEF ClaimOutboxTask
<1>6. ASSUME NEW w \in Workers, BeginPersist(w) PROVE DeletionInv'
  BY <1>6 DEF BeginPersist, BeginPhase
<1>7. ASSUME NEW w \in Workers, BeginDispatch(w) PROVE DeletionInv'
  BY <1>7 DEF BeginDispatch, BeginPhase, Task
<1>8. ASSUME NEW w \in Workers, SaveBody(w) PROVE DeletionInv'
  BY <1>8 DEF SaveBody, External
<1>9. ASSUME NEW w \in Workers, PublishMessage(w) PROVE DeletionInv'
  BY <1>9 DEF PublishMessage, External
<1>10. ASSUME NEW w \in Workers, CacheBody(w) \/ DeliverConfirmed(w) PROVE DeletionInv'
  BY <1>10 DEF CacheBody, DeliverConfirmed, External
<1>11. ASSUME NEW w \in Workers, CleanCache(w) \/ CleanBody(w) PROVE DeletionInv'
  BY <1>11 DEF CleanCache, CleanBody, External
<1>12. ASSUME NEW w \in Workers, MarkDelivered(w) \/ Uncache(w) PROVE DeletionInv'
  BY <1>12 DEF MarkDelivered, Uncache, External
<1>13. ASSUME NEW w \in Workers, CommitPersist(w) PROVE DeletionInv'
  BY <1>13 DEF CommitPersist, Commit
<1>14. ASSUME NEW w \in Workers, CommitReschedule(w) PROVE DeletionInv'
  BY <1>14 DEF CommitReschedule, Commit
<1>15. ASSUME NEW w \in Workers, CommitSettle(w) PROVE DeletionInv'
  <2>1. state[task[w]] = "claimed" /\ task[w] \in Task
    BY <1>15 DEF CommitSettle, Commit
  <2>2. /\ seq' = seq /\ deletedSeq' = deletedSeq /\ lastId' = lastId
        /\ \A t \in Task : state'[t] = IF t = task[w] THEN "done"
             ELSE IF t \in MsgTask /\ t[2] \in Swept(w) THEN "cancelled" ELSE state[t]
    BY <1>15 DEF CommitSettle, Commit
  <2>3. CutoffOK'
    BY <2>1, <2>2
  <2>4. CASE task[w] \in CleanTask
    <3> DEFINE c == task[w][2]
    <3>1. ASSUME NEW k \in Keys, seq[k] > 0, seq[k] <= deletedSeq, k \notin Swept(w)
          PROVE \/ state'[Msg(k)] = "cancelled"
                \/ state'[Msg(k)] = "done" /\ Outstanding(seq[k])'
      <4> SUFFICES ASSUME state[Msg(k)] # "cancelled"
                   PROVE state'[Msg(k)] = "done" /\ Outstanding(seq[k])'
        BY <2>2, <2>4, <3>1
      <4>1. seq[k] > c /\ state'[Msg(k)] = state[Msg(k)]
        BY <2>2, <2>4, <3>1 DEF Swept, Cancelled
      <4>2. PICK d \in Seqs : d >= seq[k] /\ state[Clean(d)] \in {"pending", "claimed"}
        BY <3>1, <4>1
      <4>3. Clean(d) # task[w] /\ state'[Clean(d)] = state[Clean(d)]
        BY <2>2, <2>4, <4>1, <4>2 DEF Clean
      <4>4. QED
        BY <2>2, <3>1, <4>1, <4>2, <4>3
    <3>2. \A k \in Swept(w) : state'[Msg(k)] = "cancelled"
      BY <2>2, <2>4 DEF Swept, Cancelled
    <3>3. QED
      BY <2>2, <2>3, <3>1, <3>2
  <2>5. CASE task[w] \notin CleanTask
    <3>1. Swept(w) = {}
      BY <2>5 DEF Swept
    <3>2. \A c \in Seqs : state'[Clean(c)] = state[Clean(c)]
      BY <2>2, <2>5, <3>1
    <3>3. QED
      BY <2>1, <2>2, <2>3, <2>5, <3>1, <3>2
  <2>6. QED
    BY <2>4, <2>5
<1>16. ASSUME NEW w \in Workers, StepFails(w) \/ LoseLock(w) PROVE DeletionInv'
  BY <1>16 DEF StepFails, LoseLock
<1>17. ASSUME NEW w \in Workers, RetryOutboxTask(w) PROVE DeletionInv'
  BY <1>17 DEF RetryOutboxTask
<1>18. ASSUME NEW w \in Workers, RecoveryDeferred(w) PROVE DeletionInv'
  BY <1>18 DEF RecoveryDeferred
<1>19. ASSUME NEW w \in Workers, NotifySender(w) PROVE DeletionInv'
  BY <1>19 DEF NotifySender
<1>20. CASE DeleteFriend
  <2> DEFINE live == {"pending", "claimed"}
             gone == Cancelled(deletedSeq', live)
  <2>1. /\ seq' = seq /\ deletedSeq' \in Seqs /\ lastId' \in Nat
        /\ deletedSeq <= deletedSeq' /\ deletedSeq' <= lastId'
        /\ deletedSeq' # deletedSeq => deletedSeq' > lastId
    BY <1>20 DEF DeleteFriend, NextIds
  <2>2. \A t \in Task : state'[t] = IF t \in MsgTask /\ t[2] \in gone THEN "cancelled"
             ELSE IF t = Clean(deletedSeq') /\ state[t] = "absent" THEN "pending" ELSE state[t]
    BY <1>20 DEF DeleteFriend
  <2>3. \A c \in Seqs : state'[Clean(c)] = IF c = deletedSeq' /\ state[Clean(c)] = "absent"
                                           THEN "pending" ELSE state[Clean(c)]
    BY <2>1, <2>2 DEF Clean
  <2>4. CutoffOK'
    BY <2>1, <2>3
  <2>5. ASSUME NEW k \in Keys, seq[k] > 0, seq[k] <= deletedSeq'
        PROVE \/ state'[Msg(k)] = "cancelled"
              \/ state'[Msg(k)] = "done" /\ Outstanding(seq[k])'
    <3>1. state'[Msg(k)] = IF k \in gone THEN "cancelled" ELSE state[Msg(k)]
      BY <2>2 DEF Msg, Clean
    <3>2. CASE k \in gone
      BY <3>1, <3>2
    <3>3. CASE k \notin gone
      <4>1. state[Msg(k)] \in {"done", "cancelled"}
        BY <2>5, <3>3 DEF Cancelled
      <4>2. CASE deletedSeq' # deletedSeq
        <5>1. state'[Clean(deletedSeq')] = "pending"
          BY <2>1, <2>3, <4>2
        <5>2. QED
          BY <2>1, <2>5, <3>1, <3>3, <4>1, <5>1
      <4>3. CASE deletedSeq' = deletedSeq
        <5>1. state[Msg(k)] = "cancelled" \/ Outstanding(seq[k])
          BY <2>5, <4>1, <4>3
        <5>2. Outstanding(seq[k]) => Outstanding(seq[k])'
          BY <2>1, <2>3
        <5>3. QED
          BY <3>1, <3>3, <4>1, <5>1, <5>2
      <4>4. QED
        BY <4>2, <4>3
    <3>4. QED
      BY <3>2, <3>3
  <2>6. QED
    BY <2>1, <2>4, <2>5
<1>21. CASE BecomeFriends
  BY <1>21 DEF BecomeFriends
<1>22. ASSUME NEW k \in Keys, AckStep(k) PROVE DeletionInv'
  BY <1>22 DEF AckStep, ReadForAck, CommitAck, AckFails
<1>23. ASSUME NEW k \in topic, ConfirmMessageDispatch(k) PROVE DeletionInv'
  BY <1>23 DEF ConfirmMessageDispatch
<1>24. ASSUME NEW p \in Pushers, LockPair(p) \/ UnlockPair(p) PROVE DeletionInv'
  BY <1>24 DEF LockPair, UnlockPair
<1>25. CASE Crash
  BY <1>25 DEF Crash
<1>26. CASE UNCHANGED vars
  BY <1>26
<1>27. QED
  BY <1>1, <1>2, <1>3, <1>4, <1>5, <1>6, <1>7, <1>8, <1>9, <1>10, <1>11, <1>12,
     <1>13, <1>14, <1>15, <1>16, <1>17, <1>18, <1>19, <1>20, <1>21, <1>22, <1>23,
     <1>24, <1>25, <1>26 DEF Next, SenderStep, WorkerStep, LocalWorkerStep

(* Removing a friend settles every earlier message, as long as ids grow.    *)
THEOREM DeletionSettles ==
    ASSUME ClockSteps = FALSE PROVE Spec => []WatermarkCancels
<1>1. Init => DeletionInv
  BY ConstantsAssumption, TaskFacts DEF Init, DeletionInv, CutoffOK, WatermarkCancels, Exists
<1>2. Inv /\ DeletionInv /\ [Next]_vars => DeletionInv'
  BY DeletionStep
<1>3. DeletionInv => WatermarkCancels
  BY DEF DeletionInv
<1>4. QED
  BY <1>1, <1>2, <1>3, InvHolds, PTL DEF Spec
-----------------------------------------------------------------------------
(* An announced message keeps its published body until a cleanup has        *)
(* cancelled it, and so does one a worker is about to announce.             *)
Recoverable(k) ==
    k \in published \/ Outstanding(seq[k]) \/ state[Msg(k)] = "cancelled"

RecoverInv ==
    /\ \A k \in Keys : stage[k] = 1 => Exists(k)
    /\ \A k \in topic : Recoverable(k)
    /\ \A w \in Workers : pc[w] \in {"cache", "produce", "reschedule"} => Recoverable(task[w][2])
    /\ \A k \in Keys : state[Msg(k)] = "done" /\ k \notin receipts => Recoverable(k)

(* With growing ids, no step settles or announces a message whose published *)
(* body is gone, unless a deletion asked for it.                            *)
LEMMA RecoverStep ==
    ASSUME ClockSteps = FALSE, Inv, LeakInv, ReceiptInv, DeletionInv, RecoverInv, [Next]_vars
    PROVE RecoverInv'
<1> USE ConstantsAssumption, TaskFacts DEF Inv, CoreOK, LockOK, RowOK, ClaimedExists,
      LeaseHeldToCommit, HoldsLease, LeakInv, NothingLeaksBeforeCommit, StageOK, ReceiptInv,
      SettleOK, RecoverInv, Recoverable, Outstanding,
      Exists, TypeOK, WorkerOK, vars, friendVars, sendVars, rowVars, taskVars,
      ackVars, mongoVars, storeVars, workerVars, InTxn, PersistSteps, DispatchSteps,
      CleanSteps, AckSteps, Seqs
<1>1. ASSUME NEW k \in Keys, NEW c \in Contents, TakeId(k, c) PROVE RecoverInv'
  BY <1>1 DEF TakeId
<1>2. ASSUME NEW s \in sends, QueueSingleMessage(s) PROVE RecoverInv'
  <2>1. s.key \in Keys /\ s.seq \in Seqs
    BY DEF Send
  <2>2. CASE Exists(s.key) \/ seq' = seq
    BY <1>2, <2>1, <2>2 DEF QueueSingleMessage
  <2>3. CASE ~Exists(s.key) /\ seq' # seq
    <3>1. /\ \A k \in Keys \ {s.key} : seq'[k] = seq[k] /\ state'[Msg(k)] = state[Msg(k)]
          /\ \A c \in Seqs : state'[Clean(c)] = state[Clean(c)]
          /\ state'[Msg(s.key)] = "pending" /\ seq'[s.key] = s.seq
          /\ UNCHANGED <<stage, topic, published, pc, task, receipts>>
      BY <1>2, <2>1, <2>3 DEF QueueSingleMessage
    <3>2. \A k \in Keys : Exists(k) /\ Recoverable(k) => Recoverable(k)'
      BY <2>3, <3>1
    <3>3. \A w \in Workers : pc[w] \in {"cache", "produce", "reschedule"} => Exists(task[w][2])
      OBVIOUS
    <3>4. QED
      BY <2>1, <2>3, <3>1, <3>2, <3>3
  <2>4. QED
    BY <2>2, <2>3
<1>3. ASSUME NEW s \in sends, QueueFails(s) PROVE RecoverInv'
  BY <1>3 DEF QueueFails
<1>4. ASSUME NEW p \in polls, AnswerSender(p) PROVE RecoverInv'
  BY <1>4 DEF AnswerSender
<1>5. ASSUME NEW w \in Workers, NEW t \in Task, ClaimOutboxTask(w, t) PROVE RecoverInv'
  BY <1>5 DEF ClaimOutboxTask
<1>6. ASSUME NEW w \in Workers, BeginPersist(w) PROVE RecoverInv'
  BY <1>6 DEF BeginPersist, BeginPhase
<1>7. ASSUME NEW w \in Workers, BeginDispatch(w) PROVE RecoverInv'
  BY <1>7 DEF BeginDispatch, BeginPhase, Task
<1>8. ASSUME NEW w \in Workers, SaveBody(w) PROVE RecoverInv'
  BY <1>8 DEF SaveBody, External
<1>9. ASSUME NEW w \in Workers, PublishMessage(w) PROVE RecoverInv'
  BY <1>9 DEF PublishMessage, External
<1>10. ASSUME NEW w \in Workers, CacheBody(w) \/ DeliverConfirmed(w) PROVE RecoverInv'
  <2>1. CASE CacheBody(w)
    BY <2>1 DEF CacheBody, External
  <2>2. CASE DeliverConfirmed(w)
    <3>1. topic' = topic \cup {task[w][2]} /\ Recoverable(task[w][2]) /\ task[w][2] \in Keys
      BY <2>2 DEF DeliverConfirmed, External
    <3>2. UNCHANGED <<stage, seq, state, published, receipts, task>>
      BY <2>2 DEF DeliverConfirmed, External
    <3>3. \A k \in Keys : Recoverable(k) => Recoverable(k)'
      BY <3>2
    <3>4. \A v \in Workers : pc'[v] \in {"cache", "produce", "reschedule"} =>
                pc[v] \in {"cache", "produce", "reschedule"}
      BY <2>2 DEF DeliverConfirmed, External
    <3>5. QED
      BY <3>1, <3>2, <3>3, <3>4
  <2>3. QED
    BY <1>10, <2>1, <2>2
<1>11. ASSUME NEW w \in Workers, CleanCache(w) \/ CleanBody(w) PROVE RecoverInv'
  <2>1. CASE CleanCache(w)
    BY <2>1 DEF CleanCache, External
  <2>2. CASE CleanBody(w)
    <3>1. task[w][2] <= deletedSeq
      BY <2>2 DEF CleanBody, External, DeletionInv, CutoffOK
    <3>2. \A k \in Keys : k \in published \ published' /\ Exists(k) =>
              state[Msg(k)] = "cancelled" \/ Outstanding(seq[k])
      <4>1. \A k \in published \ published' : seq[k] <= task[w][2]
        BY <2>2 DEF CleanBody, Doomed
      <4>2. task[w][2] \in Nat
        BY <2>2 DEF CleanBody, External
      <4>3. \A k \in Keys : k \in published \ published' => seq[k] <= deletedSeq
        BY <3>1, <4>1, <4>2
      <4>4. QED
        BY <4>3 DEF DeletionInv, WatermarkCancels
    <3>3. /\ seq' = seq /\ state' = state /\ stage' = stage /\ topic' = topic /\ task' = task
          /\ receipts' = receipts
          /\ \A v \in Workers : pc'[v] \in {"cache", "produce", "reschedule"} => pc'[v] = pc[v]
      BY <2>2 DEF CleanBody, External
    <3>4. \A k \in Keys : Exists(k) /\ Recoverable(k) => Recoverable(k)'
      BY <3>2, <3>3
    <3>5. QED
      BY <3>3, <3>4
  <2>3. QED
    BY <1>11, <2>1, <2>2
<1>12. ASSUME NEW w \in Workers, MarkDelivered(w) \/ Uncache(w) PROVE RecoverInv'
  BY <1>12 DEF MarkDelivered, Uncache, External
<1>13. ASSUME NEW w \in Workers, CommitPersist(w) PROVE RecoverInv'
  BY <1>13 DEF CommitPersist, Commit
<1>14. ASSUME NEW w \in Workers, CommitReschedule(w) PROVE RecoverInv'
  BY <1>14 DEF CommitReschedule, Commit
<1>15. ASSUME NEW w \in Workers, CommitSettle(w) PROVE RecoverInv'
  <2>1. state[task[w]] = "claimed" /\ task[w] \in Task
    BY <1>15 DEF CommitSettle, Commit
  <2>2. /\ seq' = seq /\ published' = published /\ stage' = stage /\ topic' = topic
        /\ task' = task /\ receipts' = receipts /\ pc[w] = "settle"
        /\ \A t \in Task : state'[t] = IF t = task[w] THEN "done"
             ELSE IF t \in MsgTask /\ t[2] \in Swept(w) THEN "cancelled" ELSE state[t]
        /\ \A v \in Workers : pc'[v] \in {"cache", "produce", "reschedule"} => pc'[v] = pc[v]
    BY <1>15 DEF CommitSettle, Commit
  <2>3. ASSUME NEW k \in Keys, Exists(k), Recoverable(k) PROVE Recoverable(k)'
    <3>1. CASE task[w] \in CleanTask /\ k \in Swept(w)
      BY <2>2, <3>1
    <3>2. CASE task[w] \in CleanTask /\ k \notin Swept(w)
      <4>1. seq[k] > task[w][2] /\ state'[Msg(k)] = state[Msg(k)]
        BY <2>2, <2>3, <3>2 DEF Swept, Cancelled
      <4>2. \A d \in Seqs : d >= seq[k] => state'[Clean(d)] = state[Clean(d)]
        BY <2>2, <3>2, <4>1 DEF Clean
      <4>3. QED
        BY <2>2, <2>3, <4>1, <4>2
    <3>3. CASE task[w] \notin CleanTask
      <4>1. Swept(w) = {}
        BY <3>3 DEF Swept
      <4>2. \A c \in Seqs : state'[Clean(c)] = state[Clean(c)]
        BY <2>2, <3>3, <4>1
      <4>3. state[Msg(k)] = "cancelled" => state'[Msg(k)] = "cancelled"
        BY <2>1, <2>2, <4>1
      <4>4. QED
        BY <2>2, <2>3, <4>2, <4>3
    <3>4. QED
      BY <3>1, <3>2, <3>3
  <2>4. \A k \in Keys : state'[Msg(k)] = "done" =>
            state[Msg(k)] = "done" \/ (task[w] = Msg(k) /\ k \in receipts)
    BY <2>2
  <2>5. (\A k \in Keys : stage[k] = 1 => Exists(k))' /\ (\A k \in topic : Recoverable(k))'
    BY <2>2, <2>3
  <2>6. ASSUME NEW v \in Workers, NEW k \in Keys, k = task[v][2],
               pc'[v] \in {"cache", "produce", "reschedule"}
        PROVE  Recoverable(k)'
    <3>1. pc'[v] = pc[v]
      BY <2>2, <2>6
    <3>2. Exists(k) /\ Recoverable(k)
      BY <2>6, <3>1
    <3> HIDE DEF Recoverable, Exists
    <3>3. QED BY <2>3, <3>2
  <2>7. ASSUME NEW v \in Workers, pc'[v] \in {"cache", "produce", "reschedule"}
        PROVE  task[v][2] \in Keys
    BY <2>2, <2>7
  <2>8. ASSUME NEW k \in Keys, state'[Msg(k)] = "done", k \notin receipts
        PROVE  Recoverable(k)'
    <3>1. state[Msg(k)] = "done"
      BY <2>4, <2>8
    <3>2. Exists(k) /\ Recoverable(k)
      BY <2>8, <3>1
    <3> HIDE DEF Recoverable, Exists
    <3>3. QED BY <2>3, <3>2
  <2>9. task' = task /\ receipts' = receipts
    BY <2>2
  <2> HIDE DEF Recoverable, Exists, Inv, LeakInv, ReceiptInv
  <2>10. QED BY <2>5, <2>6, <2>7, <2>8, <2>9 DEF RecoverInv
<1>16. ASSUME NEW w \in Workers, StepFails(w) \/ LoseLock(w) PROVE RecoverInv'
  BY <1>16 DEF StepFails, LoseLock
<1>17. ASSUME NEW w \in Workers, RetryOutboxTask(w) PROVE RecoverInv'
  <2>1. CASE HoldsLease(w)
    BY <1>17, <2>1 DEF RetryOutboxTask
  <2>2. CASE ~HoldsLease(w)
    BY <1>17, <2>2 DEF RetryOutboxTask
  <2>3. QED BY <2>1, <2>2
<1>18. ASSUME NEW w \in Workers, RecoveryDeferred(w) PROVE RecoverInv'
  BY <1>18 DEF RecoveryDeferred
<1>19. ASSUME NEW w \in Workers, NotifySender(w) PROVE RecoverInv'
  BY <1>19 DEF NotifySender
<1>20. CASE DeleteFriend
  <2>1. /\ seq' = seq /\ published' = published /\ stage' = stage /\ topic' = topic
        /\ task' = task /\ receipts' = receipts /\ pc' = pc /\ deletedSeq' \in Seqs
    BY <1>20 DEF DeleteFriend, NextIds
  <2>2. \A c \in Seqs : state[Clean(c)] # "absent" => state'[Clean(c)] = state[Clean(c)]
    BY <1>20, <2>1 DEF DeleteFriend
  <2>3. \A k \in Keys : state'[Msg(k)] \in {"cancelled", state[Msg(k)]}
    BY <1>20, <2>1 DEF DeleteFriend, Msg, Clean
  <2>4. \A k \in Keys : Recoverable(k) => Recoverable(k)'
    BY <2>1, <2>2, <2>3
  <2>5. QED
    BY <2>1, <2>3, <2>4
<1>21. CASE BecomeFriends
  BY <1>21 DEF BecomeFriends
<1>22. ASSUME NEW k \in Keys, AckStep(k) PROVE RecoverInv'
  <2>1. CASE ReadForAck(k) \/ AckFails(k)
    BY <2>1 DEF ReadForAck, AckFails
  <2>2. CASE CommitAck(k)
    <3>1. /\ \A j \in Keys : state'[Msg(j)] = state[Msg(j)]
          /\ \A c \in Seqs : state'[Clean(c)] = state[Clean(c)]
          /\ UNCHANGED <<stage, seq, published, topic, pc, task>> /\ receipts \subseteq receipts'
      BY <2>2 DEF CommitAck
    <3>2. \A j \in Keys : Recoverable(j) => Recoverable(j)'
      BY <3>1
    <3>3. QED
      BY <3>1, <3>2
  <2>3. QED
    BY <1>22, <2>1, <2>2 DEF AckStep
<1>23. ASSUME NEW k \in topic, ConfirmMessageDispatch(k) PROVE RecoverInv'
  BY <1>23 DEF ConfirmMessageDispatch
<1>24. ASSUME NEW p \in Pushers, LockPair(p) \/ UnlockPair(p) PROVE RecoverInv'
  BY <1>24 DEF LockPair, UnlockPair
<1>25. CASE Crash
  BY <1>25 DEF Crash
<1>26. CASE UNCHANGED vars
  BY <1>26
<1>27. QED
  BY <1>1, <1>2, <1>3, <1>4, <1>5, <1>6, <1>7, <1>8, <1>9, <1>10, <1>11, <1>12,
     <1>13, <1>14, <1>15, <1>16, <1>17, <1>18, <1>19, <1>20, <1>21, <1>22, <1>23,
     <1>24, <1>25, <1>26 DEF Next, SenderStep, WorkerStep, LocalWorkerStep

(* No message is lost: a message that is done and not acknowledged can be   *)
(* fetched at the next login, or a deletion is about to remove it.          *)
THEOREM NoMessageLost ==
    ASSUME ClockSteps = FALSE PROVE Spec => []DoneIsRecoverable
<1> DEFINE All == LeakInv /\ ReceiptInv /\ DeletionInv /\ RecoverInv
<1>1. Init => All
  BY ConstantsAssumption, TaskFacts DEF Init, LeakInv, NothingLeaksBeforeCommit, StageOK,
     DispatchSteps, ReceiptInv, ReceiptHasTask, SettleOK, DeletionInv, CutoffOK,
     WatermarkCancels, RecoverInv, Exists
<1>2. Inv /\ All /\ [Next]_vars => All'
  BY LeakStep, ReceiptStep, DeletionStep, RecoverStep
<1>3. Inv /\ All => DoneIsRecoverable
  BY DEF RecoverInv, Recoverable, DoneIsRecoverable, ReceiptInv, ReceiptHasTask
<1> HIDE DEF All
<1>4. QED
  BY <1>1, <1>2, <1>3, InvHolds, PTL DEF Spec
-----------------------------------------------------------------------------
(* What a waiting or an answered submission knows of its row, and where     *)
(* the body is once the row is at stage 1.                                  *)
Kept(k) == k \in saved \/ seq[k] <= deletedSeq

AnswerInv ==
    /\ \A p \in polls \cup told : Exists(p.key) /\ content[p.key] \in {p.content, None}
    /\ \A p \in told : stage[p.key] = 1
    /\ \A k \in Keys : stage[k] = 1 => Kept(k) /\ Exists(k)
    /\ \A w \in Workers : pc[w] = "record" => Kept(task[w][2])

(* With growing ids, no step changes or drops a content a sender was told   *)
(* is stored.                                                               *)
LEMMA AnswerStep ==
    ASSUME ClockSteps = FALSE, Inv, LeakInv, DeletionInv, AnswerInv, [Next]_vars PROVE AnswerInv'
<1> USE ConstantsAssumption, TaskFacts DEF Inv, CoreOK, LockOK, RowOK, ClaimedExists,
      AnswerInv, Kept, Exists, TypeOK, WorkerOK, vars, friendVars, sendVars, rowVars, taskVars,
      ackVars, mongoVars, storeVars, workerVars, InTxn, PersistSteps, DispatchSteps,
      CleanSteps, AckSteps, Seqs, Poll
<1>1. ASSUME NEW k \in Keys, NEW c \in Contents, TakeId(k, c) PROVE AnswerInv'
  BY <1>1 DEF TakeId
<1>2. ASSUME NEW s \in sends, QueueSingleMessage(s) PROVE AnswerInv'
  <2>1. s.key \in Keys /\ s.seq \in Seqs /\ s.content \in Contents
    BY DEF Send
  <2>2. CASE Exists(s.key) \/ seq' = seq
    BY <1>2, <2>1, <2>2 DEF QueueSingleMessage, Repeatable
  <2>3. CASE ~Exists(s.key) /\ seq' # seq
    <3>1. /\ \A k \in Keys \ {s.key} : seq'[k] = seq[k] /\ content'[k] = content[k]
          /\ seq'[s.key] = s.seq /\ content'[s.key] = s.content
          /\ polls' \subseteq polls \cup {[key |-> s.key, content |-> s.content]}
          /\ UNCHANGED <<told, stage, saved, deletedSeq, pc, task>>
      BY <1>2, <2>1, <2>3 DEF QueueSingleMessage
    <3>2. \A p \in polls \cup told : p.key # s.key /\ p.key \in Keys
      BY <2>3
    <3>3. \A w \in Workers : pc[w] = "record" => task[w][2] # s.key /\ task[w][2] \in Keys
      BY <2>3
    <3>4. QED
      BY <2>1, <2>3, <3>1, <3>2, <3>3
  <2>4. QED
    BY <2>2, <2>3
<1>3. ASSUME NEW s \in sends, QueueFails(s) PROVE AnswerInv'
  BY <1>3 DEF QueueFails
<1>4. ASSUME NEW p \in polls, AnswerSender(p) PROVE AnswerInv'
  BY <1>4 DEF AnswerSender
<1>5. ASSUME NEW w \in Workers, NEW t \in Task, ClaimOutboxTask(w, t) PROVE AnswerInv'
  BY <1>5 DEF ClaimOutboxTask
<1>6. ASSUME NEW w \in Workers, BeginPersist(w) PROVE AnswerInv'
  BY <1>6 DEF BeginPersist, BeginPhase
<1>7. ASSUME NEW w \in Workers, BeginDispatch(w) PROVE AnswerInv'
  BY <1>7 DEF BeginDispatch, BeginPhase, Task
<1>8. ASSUME NEW w \in Workers, SaveBody(w) PROVE AnswerInv'
  BY <1>8 DEF SaveBody, External
<1>9. ASSUME NEW w \in Workers, PublishMessage(w) PROVE AnswerInv'
  BY <1>9 DEF PublishMessage, External
<1>10. ASSUME NEW w \in Workers, CacheBody(w) \/ DeliverConfirmed(w) PROVE AnswerInv'
  BY <1>10 DEF CacheBody, DeliverConfirmed, External
<1>11. ASSUME NEW w \in Workers, CleanCache(w) \/ CleanBody(w) PROVE AnswerInv'
  <2>1. CASE CleanCache(w)
    BY <2>1 DEF CleanCache, External
  <2>2. CASE CleanBody(w)
    <3>1. task[w][2] <= deletedSeq /\ task[w][2] \in Nat
      BY <2>2 DEF CleanBody, External, DeletionInv, CutoffOK
    <3>2. \A k \in saved \ saved' : seq[k] <= task[w][2]
      BY <2>2 DEF CleanBody, Doomed
    <3>3. UNCHANGED <<polls, told, seq, content, stage, deletedSeq, task>>
      BY <2>2 DEF CleanBody, External
    <3>4. \A k \in Keys : Kept(k) => Kept(k)'
      BY <3>1, <3>2, <3>3
    <3>5. \A v \in Workers : pc'[v] = "record" => pc[v] = "record"
      BY <2>2 DEF CleanBody, External
    <3>6. QED
      BY <3>3, <3>4, <3>5
  <2>3. QED
    BY <1>11, <2>1, <2>2
<1>12. ASSUME NEW w \in Workers, MarkDelivered(w) \/ Uncache(w) PROVE AnswerInv'
  BY <1>12 DEF MarkDelivered, Uncache, External
<1>13. ASSUME NEW w \in Workers, CommitPersist(w) PROVE AnswerInv'
  BY <1>13 DEF CommitPersist, Commit, LeakInv, StageOK
<1>14. ASSUME NEW w \in Workers, CommitReschedule(w) PROVE AnswerInv'
  BY <1>14 DEF CommitReschedule, Commit
<1>15. ASSUME NEW w \in Workers, CommitSettle(w) PROVE AnswerInv'
  BY <1>15 DEF CommitSettle, Commit
<1>16. ASSUME NEW w \in Workers, StepFails(w) \/ LoseLock(w) PROVE AnswerInv'
  BY <1>16 DEF StepFails, LoseLock
<1>17. ASSUME NEW w \in Workers, RetryOutboxTask(w) PROVE AnswerInv'
  BY <1>17 DEF RetryOutboxTask
<1>18. ASSUME NEW w \in Workers, RecoveryDeferred(w) PROVE AnswerInv'
  BY <1>18 DEF RecoveryDeferred
<1>19. ASSUME NEW w \in Workers, NotifySender(w) PROVE AnswerInv'
  BY <1>19 DEF NotifySender
<1>20. CASE DeleteFriend
  <2>1. /\ UNCHANGED <<polls, told, seq, stage, saved, pc, task>>
        /\ deletedSeq <= deletedSeq' /\ deletedSeq' \in Nat
    BY <1>20 DEF DeleteFriend, NextIds, DeletionInv, CutoffOK
  <2>2. \A k \in Keys : content'[k] \in {content[k], None}
    BY <1>20 DEF DeleteFriend
  <2>3. \A k \in Keys : Kept(k) => Kept(k)'
    BY <2>1
  <2>4. QED
    BY <2>1, <2>2, <2>3
<1>21. CASE BecomeFriends
  BY <1>21 DEF BecomeFriends
<1>22. ASSUME NEW k \in Keys, AckStep(k) PROVE AnswerInv'
  BY <1>22 DEF AckStep, ReadForAck, CommitAck, AckFails
<1>23. ASSUME NEW k \in topic, ConfirmMessageDispatch(k) PROVE AnswerInv'
  BY <1>23 DEF ConfirmMessageDispatch
<1>24. ASSUME NEW p \in Pushers, LockPair(p) \/ UnlockPair(p) PROVE AnswerInv'
  BY <1>24 DEF LockPair, UnlockPair
<1>25. CASE Crash
  BY <1>25 DEF Crash
<1>26. CASE UNCHANGED vars
  BY <1>26
<1>27. QED
  BY <1>1, <1>2, <1>3, <1>4, <1>5, <1>6, <1>7, <1>8, <1>9, <1>10, <1>11, <1>12,
     <1>13, <1>14, <1>15, <1>16, <1>17, <1>18, <1>19, <1>20, <1>21, <1>22, <1>23,
     <1>24, <1>25, <1>26 DEF Next, SenderStep, WorkerStep, LocalWorkerStep

(* What a sender has been told is durable, as long as ids grow.             *)
THEOREM AnswersAreDurable ==
    ASSUME ClockSteps = FALSE PROVE Spec => []AnsweredIsDurable
<1> DEFINE All == LeakInv /\ DeletionInv /\ AnswerInv
<1>1. Init => All
  BY ConstantsAssumption, TaskFacts DEF Init, LeakInv, NothingLeaksBeforeCommit, StageOK,
     DispatchSteps, DeletionInv, CutoffOK, WatermarkCancels, AnswerInv, Exists
<1>2. Inv /\ All /\ [Next]_vars => All'
  BY LeakStep, DeletionStep, AnswerStep
<1>3. Inv /\ All => AnsweredIsDurable
  BY DEF AnswerInv, Kept, AnsweredIsDurable, Inv, TypeOK, Poll
<1> HIDE DEF All
<1>4. QED
  BY <1>1, <1>2, <1>3, InvHolds, PTL DEF Spec

-----------------------------------------------------------------------------
(* From here on MySQL also keeps the connection of an open transaction, so  *)
(* that a worker inside a transaction has the pair lock.                    *)
CleanInv ==
    /\ \A w \in Workers : pc[w] \in InTxn => pairLock = w
    /\ saved \cup cache \subseteq {k \in Keys : Exists(k)}
    /\ cache \subseteq saved
    /\ \A w \in Workers :
        /\ pc[w] \in {"cache", "produce", "reschedule"} => task[w][2] \in saved
        /\ pc[w] = "cleanBody" => \A k \in cache : seq[k] > task[w][2]
        /\ pc[w] = "settle" /\ task[w] \in CleanTask => \A k \in saved : seq[k] > task[w][2]
    /\ CleanupComplete

(* With growing ids and kept connections, no step puts anything back below  *)
(* a finished cleanup.                                                      *)
LEMMA CleanStep ==
    ASSUME ClockSteps = FALSE, LockLoss = FALSE, Inv, DeletionInv, CleanInv, [Next]_vars
    PROVE CleanInv'
<1> USE ConstantsAssumption, TaskFacts DEF Inv, CoreOK, LockOK, RowOK, ClaimedExists,
      LeaseHeldToCommit, HoldsLease, CleanInv, CleanupComplete, Exists, TypeOK, WorkerOK, vars,
      friendVars, sendVars, rowVars, taskVars, ackVars, mongoVars, storeVars, workerVars,
      InTxn, PersistSteps, DispatchSteps, CleanSteps, AckSteps, Seqs
<1>1. ASSUME NEW k \in Keys, NEW c \in Contents, TakeId(k, c) PROVE CleanInv'
  BY <1>1 DEF TakeId
<1>2. ASSUME NEW s \in sends, QueueSingleMessage(s) PROVE CleanInv'
  <2>1. CASE UNCHANGED <<rowVars, taskVars>>
    BY <1>2, <2>1 DEF QueueSingleMessage
  <2>2. CASE ~UNCHANGED <<rowVars, taskVars>>
    <3>1. /\ s.key \in Keys /\ s.seq \in Seqs /\ ~Exists(s.key) /\ FriendAllows(s.seq)
          /\ seq' = [seq EXCEPT ![s.key] = s.seq]
          /\ state' = [state EXCEPT ![Msg(s.key)] = "pending"]
          /\ UNCHANGED <<stage, dispatchDone, lease, friendVars, lastId, ackVars,
                         storeVars, pairLock, workerVars>>
      BY <1>2, <2>2 DEF QueueSingleMessage, Send
    <3>2. QED BY <3>1
  <2>3. QED BY <2>1, <2>2
<1>3. ASSUME NEW s \in sends, QueueFails(s) PROVE CleanInv'
  BY <1>3 DEF QueueFails
<1>4. ASSUME NEW p \in polls, AnswerSender(p) PROVE CleanInv'
  BY <1>4 DEF AnswerSender
<1>5. ASSUME NEW w \in Workers, NEW t \in Task, ClaimOutboxTask(w, t) PROVE CleanInv'
  BY <1>5 DEF ClaimOutboxTask
<1>6. ASSUME NEW w \in Workers, BeginPersist(w) PROVE CleanInv'
  BY <1>6 DEF BeginPersist, BeginPhase
<1>7. ASSUME NEW w \in Workers, BeginDispatch(w) PROVE CleanInv'
  BY <1>7 DEF BeginDispatch, BeginPhase, Task
<1>8. ASSUME NEW w \in Workers, SaveBody(w) PROVE CleanInv'
  BY <1>8 DEF SaveBody, External, DeletionInv, CutoffOK, WatermarkCancels
<1>9. ASSUME NEW w \in Workers, PublishMessage(w) PROVE CleanInv'
  BY <1>9 DEF PublishMessage, External
<1>10. ASSUME NEW w \in Workers, CacheBody(w) \/ DeliverConfirmed(w) PROVE CleanInv'
  BY <1>10 DEF CacheBody, DeliverConfirmed, External, DeletionInv, CutoffOK, WatermarkCancels
<1>11. ASSUME NEW w \in Workers, CleanCache(w) \/ CleanBody(w) PROVE CleanInv'
  BY <1>11 DEF CleanCache, CleanBody, External, Doomed
<1>12. ASSUME NEW w \in Workers, MarkDelivered(w) \/ Uncache(w) PROVE CleanInv'
  BY <1>12 DEF MarkDelivered, Uncache, External
<1>13. ASSUME NEW w \in Workers, CommitPersist(w) PROVE CleanInv'
  BY <1>13 DEF CommitPersist, Commit
<1>14. ASSUME NEW w \in Workers, CommitReschedule(w) PROVE CleanInv'
  BY <1>14 DEF CommitReschedule, Commit
<1>15. ASSUME NEW w \in Workers, CommitSettle(w) PROVE CleanInv'
  <2>1. /\ pairLock = w /\ pc[w] = "settle" /\ pc'[w] \notin InTxn
        /\ \A v \in Workers \ {w} : pc'[v] = pc[v]
        /\ UNCHANGED <<seq, saved, cache, task>>
    BY <1>15 DEF CommitSettle, Commit
  <2>2. \A v \in Workers : pc'[v] \notin InTxn
    BY <2>1
  <2>3. \A c \in Seqs : state'[Clean(c)] = "done" => state[Clean(c)] = "done" \/ task[w] = Clean(c)
    BY <1>15 DEF CommitSettle
  <2>4. \A c \in Seqs : Clean(c)[2] = c
    BY DEF Clean
  <2>5. CleanupComplete'
    BY <2>1, <2>3, <2>4
  <2>6. QED
    BY <2>1, <2>2, <2>5
<1>16. ASSUME NEW w \in Workers, StepFails(w) \/ LoseLock(w) PROVE CleanInv'
  BY <1>16 DEF StepFails, LoseLock
<1>17. ASSUME NEW w \in Workers, RetryOutboxTask(w) PROVE CleanInv'
  BY <1>17 DEF RetryOutboxTask
<1>18. ASSUME NEW w \in Workers, RecoveryDeferred(w) PROVE CleanInv'
  BY <1>18 DEF RecoveryDeferred
<1>19. ASSUME NEW w \in Workers, NotifySender(w) PROVE CleanInv'
  BY <1>19 DEF NotifySender
<1>20. CASE DeleteFriend
  BY <1>20 DEF DeleteFriend
<1>21. CASE BecomeFriends
  BY <1>21 DEF BecomeFriends
<1>22. ASSUME NEW k \in Keys, AckStep(k) PROVE CleanInv'
  BY <1>22 DEF AckStep, ReadForAck, CommitAck, AckFails
<1>23. ASSUME NEW k \in topic, ConfirmMessageDispatch(k) PROVE CleanInv'
  BY <1>23 DEF ConfirmMessageDispatch
<1>24. ASSUME NEW p \in Pushers, LockPair(p) \/ UnlockPair(p) PROVE CleanInv'
  BY <1>24 DEF LockPair, UnlockPair
<1>25. CASE Crash
  BY <1>25 DEF Crash
<1>26. CASE UNCHANGED vars
  BY <1>26
<1>27. QED
  BY <1>1, <1>2, <1>3, <1>4, <1>5, <1>6, <1>7, <1>8, <1>9, <1>10, <1>11, <1>12,
     <1>13, <1>14, <1>15, <1>16, <1>17, <1>18, <1>19, <1>20, <1>21, <1>22, <1>23,
     <1>24, <1>25, <1>26 DEF Next, SenderStep, WorkerStep, LocalWorkerStep

(* A finished cleanup leaves neither a body nor a cached copy behind.       *)
THEOREM CleanupIsComplete ==
    ASSUME ClockSteps = FALSE, LockLoss = FALSE PROVE Spec => []CleanupComplete
<1> DEFINE All == DeletionInv /\ CleanInv
<1>1. Init => All
  BY ConstantsAssumption, TaskFacts DEF Init, DeletionInv, CutoffOK, WatermarkCancels,
     CleanInv, CleanupComplete, Exists, InTxn, PersistSteps, DispatchSteps, CleanSteps, AckSteps
<1>2. Inv /\ All /\ [Next]_vars => All'
  BY DeletionStep, CleanStep
<1>3. All => CleanupComplete
  BY DEF CleanInv
<1> HIDE DEF All
<1>4. QED
  BY <1>1, <1>2, <1>3, InvHolds, PTL DEF Spec

-----------------------------------------------------------------------------
(* What the lane, the calls and the device hold are announced messages.     *)
LaneType ==
    [pc : {"idle", "loaded", "calling", "confirm"}, key : Keys \cup {None}, slot : Pushers \cup {None}]
CallType == [pc : {"free", "queued", "open", "sent"}, key : Keys \cup {None}]

LaneInv ==
    /\ todo \subseteq topic
    /\ lane \in LaneType
    /\ lane.pc # "idle" => lane.key \in topic
    /\ call \in [Pushers -> CallType]
    /\ \A p \in Pushers : call[p].pc # "free" => call[p].key \in Keys
    /\ device \subseteq Keys

(* Every step of the composition is a step of Outbox or leaves it alone.    *)
LEMMA StepImplements ==
    ASSUME Inv, LaneInv, [DNext]_allVars PROVE [Next]_vars
<1> USE DEF allVars, deliveryVars
<1>1. CASE SenderStep /\ UNCHANGED deliveryVars
  BY <1>1 DEF Next
<1>2. ASSUME NEW w \in Workers, LocalWorkerStep(w) \/ Announce(w) PROVE Next
  BY <1>2 DEF Next, WorkerStep, Announce
<1>3. CASE (DeleteFriend \/ BecomeFriends) /\ UNCHANGED deliveryVars
  BY <1>3 DEF Next
<1>4. ASSUME NEW k \in device, ReadForAck(k) PROVE Next
  BY <1>4 DEF Next, AckStep, LaneInv
<1>5. ASSUME NEW k \in acks, CommitAck(k) \/ AckFails(k) PROVE Next
  BY <1>5 DEF Next, AckStep, Inv, TypeOK
<1>6. CASE LaneStep
  <2>1. CASE Confirm
    BY <2>1 DEF Confirm, Next, LaneInv
  <2>2. CASE ~Confirm
    BY <1>6, <2>2 DEF LaneStep, Fetch, SkipDone, LaneFails, CallPush, Redeliver
  <2>3. QED
    BY <2>1, <2>2
<1>7. ASSUME NEW p \in Pushers, PushStep(p) PROVE [Next]_vars
  <2> USE DEF vars, friendVars, sendVars, rowVars, taskVars, ackVars, mongoVars, storeVars,
        workerVars
  <2>1. CASE BeginPush(p)
    <3>1. LockPair(p) \/ UNCHANGED vars
      BY <2>1 DEF BeginPush, Reply, LockPair
    <3>2. QED
      BY <3>1 DEF Next
  <2>2. CASE PushToUser(p)
    BY <2>2 DEF PushToUser
  <2>3. CASE CommitPush(p)
    <3>1. UnlockPair(p)
      BY <2>3 DEF CommitPush, Reply, UnlockPair
    <3>2. QED
      BY <3>1 DEF Next
  <2>4. CASE PushFails(p)
    <3>1. UnlockPair(p) \/ UNCHANGED vars
      BY <2>4 DEF PushFails, Reply, UnlockPair
    <3>2. QED
      BY <3>1 DEF Next
  <2>5. CASE LosePushLock(p)
    <3>1. UnlockPair(p)
      BY <2>5 DEF LosePushLock, UnlockPair
    <3>2. QED
      BY <3>1 DEF Next
  <2>6. CASE \E k \in published : OfferOffline(k, p)
    BY <2>6 DEF OfferOffline
  <2>7. QED
    BY <1>7, <2>1, <2>2, <2>3, <2>4, <2>5, <2>6 DEF PushStep
<1>8. CASE DCrash
  BY <1>8 DEF DCrash, Next
<1>9. CASE UNCHANGED allVars
  BY <1>9
<1>10. QED
  BY <1>1, <1>2, <1>3, <1>4, <1>5, <1>6, <1>7, <1>8, <1>9 DEF DNext

(* Kafka keeps its records.                                                 *)
LEMMA TopicGrows == ASSUME Inv, [Next]_vars PROVE topic \subseteq topic' /\ topic' \subseteq Keys
<1>1. topic' \subseteq Keys
  BY TypeStep DEF TypeOK
<1>2. topic \subseteq topic'
  BY DEF Next, SenderStep, TakeId, QueueSingleMessage, QueueFails, AnswerSender, WorkerStep,
     LocalWorkerStep, ClaimOutboxTask, BeginPersist, BeginDispatch, BeginPhase, SaveBody,
     PublishMessage, CacheBody, DeliverConfirmed, CleanCache, CleanBody, MarkDelivered, Uncache,
     External, CommitPersist, CommitReschedule, CommitSettle, Commit, StepFails, LoseLock,
     RetryOutboxTask, RecoveryDeferred, NotifySender, DeleteFriend, BecomeFriends, AckStep,
     ReadForAck, CommitAck, AckFails, ConfirmMessageDispatch, LockPair, UnlockPair, Crash,
     vars, storeVars
<1>3. QED
  BY <1>1, <1>2

(* The topic only grows, so what lane, calls and device hold stays          *)
(* announced.                                                               *)
LEMMA LaneInvStep == ASSUME Inv, LaneInv, [DNext]_allVars PROVE LaneInv'
<1>1. topic \subseteq topic' /\ topic' \subseteq Keys
  BY StepImplements, TopicGrows
<1> USE <1>1 DEF LaneInv, LaneType, CallType, IdleLane, FreeCall
<1>2. CASE UNCHANGED deliveryVars
  BY <1>2 DEF deliveryVars
<1>3. ASSUME NEW w \in Workers, Announce(w) PROVE LaneInv'
  <2>1. task[w][2] \in topic'
    BY <1>3 DEF Announce, DeliverConfirmed
  <2>2. QED
    BY <1>3, <2>1 DEF Announce
<1>4. CASE LaneStep
  <2>1. ASSUME NEW k \in todo, Fetch(k) PROVE LaneInv'
    BY <2>1 DEF Fetch
  <2>2. CASE SkipDone \/ LaneFails
    BY <2>2 DEF SkipDone, LaneFails
  <2>3. CASE Confirm
    BY <2>3 DEF Confirm
  <2>4. ASSUME NEW p \in Pushers, CallPush(p) PROVE LaneInv'
    BY <2>4 DEF CallPush
  <2>5. ASSUME NEW k \in topic, Redeliver(k) PROVE LaneInv'
    BY <2>5 DEF Redeliver
  <2>6. QED
    BY <1>4, <2>1, <2>2, <2>3, <2>4, <2>5 DEF LaneStep
<1>5. ASSUME NEW p \in Pushers, PushStep(p) PROVE LaneInv'
  <2>1. CASE BeginPush(p)
    <3>1. \/ call' = [call EXCEPT ![p].pc = "open"] /\ lane' = lane
          \/ Reply(p, TRUE)
      BY <2>1 DEF BeginPush
    <3>2. todo' = todo /\ device' = device
      BY <2>1 DEF BeginPush, Reply
    <3>3. CASE call' = [call EXCEPT ![p].pc = "open"] /\ lane' = lane
      BY <2>1, <3>2, <3>3 DEF BeginPush
    <3>4. CASE Reply(p, TRUE)
      BY <3>2, <3>4 DEF Reply
    <3>5. QED
      BY <3>1, <3>3, <3>4
  <2>2. CASE PushToUser(p)
    BY <2>2 DEF PushToUser
  <2>3. CASE CommitPush(p) \/ PushFails(p)
    BY <2>3 DEF CommitPush, PushFails, Reply
  <2>4. CASE LosePushLock(p)
    BY <2>4 DEF LosePushLock, deliveryVars
  <2>5. CASE \E k \in published : OfferOffline(k, p)
    BY <2>5 DEF OfferOffline, Inv, TypeOK
  <2>6. QED
    BY <1>5, <2>1, <2>2, <2>3, <2>4, <2>5 DEF PushStep
<1>6. CASE DCrash
  BY <1>6 DEF DCrash
<1>7. QED
  BY <1>2, <1>3, <1>4, <1>5, <1>6 DEF DNext, allVars

(* The composition keeps the invariant of Outbox, whose steps its own are,  *)
(* and the invariant of its lane and calls.                                 *)
THEOREM DeliveryInv == DSpec => [](Inv /\ LaneInv)
<1>1. DInit => Inv /\ LaneInv
  BY TypeInit DEF DInit, LaneInv, LaneType, CallType, IdleLane, FreeCall
<1>2. Inv /\ LaneInv /\ [DNext]_allVars => (Inv /\ LaneInv)'
  BY StepImplements, LaneInvStep, TypeStep, CoreStep DEF Inv
<1>3. QED
  BY <1>1, <1>2, PTL DEF DSpec

(* The consumer lane, the deliveries and the receiver use the outbox only   *)
(* as Outbox allows its environment to: the composition implements it.      *)
THEOREM DeliveryImplementsOutbox == DSpec => ImplementsOutbox
<1>1. DInit => Init
  BY DEF DInit
<1>2. Inv /\ LaneInv /\ [DNext]_allVars => [Next]_vars
  BY StepImplements
<1>3. QED
  BY <1>1, <1>2, DeliveryInv, PTL DEF DSpec, Spec, ImplementsOutbox
(* Type correctness of the composition.                                     *)
THEOREM DeliveryTypeCorrect == DSpec => []DTypeOK
<1>1. Inv /\ LaneInv => DTypeOK
  BY DEF Inv, LaneInv, LaneType, CallType, DTypeOK
<1>2. QED
  BY <1>1, DeliveryInv, PTL

-----------------------------------------------------------------------------
(* While a delivery has the pair lock, nothing withdraws its permission.    *)
LEMMA AllowedStable ==
    ASSUME Inv, [Next]_vars, NEW q \in Pushers, pairLock = q, NEW m \in Keys, Allowed(m)
    PROVE Allowed(m)'
<1> USE ConstantsAssumption, TaskFacts DEF Inv, CoreOK, LockOK, TypeOK, WorkerOK, Allowed,
      FriendAllows, vars, friendVars, sendVars, rowVars, taskVars, ackVars, mongoVars,
      storeVars, workerVars, InTxn, PersistSteps, DispatchSteps, CleanSteps, AckSteps
<1>1. ASSUME NEW k \in Keys, NEW c \in Contents, TakeId(k, c) PROVE Allowed(m)'
  BY <1>1 DEF TakeId
<1>2. ASSUME NEW s \in sends, QueueSingleMessage(s) PROVE Allowed(m)'
  BY <1>2 DEF QueueSingleMessage
<1>3. ASSUME NEW s \in sends, QueueFails(s) PROVE Allowed(m)'
  BY <1>3 DEF QueueFails
<1>4. ASSUME NEW p \in polls, AnswerSender(p) PROVE Allowed(m)'
  BY <1>4 DEF AnswerSender
<1>5. ASSUME NEW w \in Workers, NEW t \in Task, ClaimOutboxTask(w, t) PROVE Allowed(m)'
  BY <1>5 DEF ClaimOutboxTask
<1>6. ASSUME NEW w \in Workers, BeginPersist(w) PROVE Allowed(m)'
  BY <1>6 DEF BeginPersist, BeginPhase
<1>7. ASSUME NEW w \in Workers, BeginDispatch(w) PROVE Allowed(m)'
  BY <1>7 DEF BeginDispatch, BeginPhase
<1>8. ASSUME NEW w \in Workers, SaveBody(w) PROVE Allowed(m)'
  BY <1>8 DEF SaveBody, External
<1>9. ASSUME NEW w \in Workers, PublishMessage(w) PROVE Allowed(m)'
  BY <1>9 DEF PublishMessage, External
<1>10. ASSUME NEW w \in Workers, CacheBody(w) \/ DeliverConfirmed(w) PROVE Allowed(m)'
  BY <1>10 DEF CacheBody, DeliverConfirmed, External
<1>11. ASSUME NEW w \in Workers, CleanCache(w) \/ CleanBody(w) PROVE Allowed(m)'
  BY <1>11 DEF CleanCache, CleanBody, External
<1>12. ASSUME NEW w \in Workers, MarkDelivered(w) \/ Uncache(w) PROVE Allowed(m)'
  BY <1>12 DEF MarkDelivered, Uncache, External
<1>13. ASSUME NEW w \in Workers, CommitPersist(w) PROVE Allowed(m)'
  BY <1>13 DEF CommitPersist, Commit
<1>14. ASSUME NEW w \in Workers, CommitReschedule(w) PROVE Allowed(m)'
  BY <1>14 DEF CommitReschedule, Commit
<1>15. ASSUME NEW w \in Workers, CommitSettle(w) PROVE Allowed(m)'
  BY <1>15 DEF CommitSettle, Commit
<1>16. ASSUME NEW w \in Workers, StepFails(w) \/ LoseLock(w) PROVE Allowed(m)'
  BY <1>16 DEF StepFails, LoseLock
<1>17. ASSUME NEW w \in Workers, RetryOutboxTask(w) PROVE Allowed(m)'
  BY <1>17 DEF RetryOutboxTask
<1>18. ASSUME NEW w \in Workers, RecoveryDeferred(w) PROVE Allowed(m)'
  BY <1>18 DEF RecoveryDeferred
<1>19. ASSUME NEW w \in Workers, NotifySender(w) PROVE Allowed(m)'
  BY <1>19 DEF NotifySender
<1>20. CASE DeleteFriend
  BY <1>20 DEF DeleteFriend
<1>21. CASE BecomeFriends
  BY <1>21 DEF BecomeFriends
<1>22. ASSUME NEW k \in Keys, AckStep(k) PROVE Allowed(m)'
  BY <1>22 DEF AckStep, ReadForAck, CommitAck, AckFails
<1>23. ASSUME NEW k \in topic, ConfirmMessageDispatch(k) PROVE Allowed(m)'
  BY <1>23 DEF ConfirmMessageDispatch
<1>24. ASSUME NEW p \in Pushers, LockPair(p) \/ UnlockPair(p) PROVE Allowed(m)'
  <2>1. UNCHANGED <<friends, deletedSeq, seq, stage, state, receipts>>
    BY <1>24 DEF LockPair, UnlockPair
  <2>2. QED
    BY <2>1
<1>25. CASE Crash
  BY <1>25 DEF Crash
<1>26. CASE UNCHANGED vars
  BY <1>26
<1>27. QED
  BY <1>1, <1>2, <1>3, <1>4, <1>5, <1>6, <1>7, <1>8, <1>9, <1>10, <1>11, <1>12,
     <1>13, <1>14, <1>15, <1>16, <1>17, <1>18, <1>19, <1>20, <1>21, <1>22, <1>23,
     <1>24, <1>25, <1>26 DEF Next, SenderStep, WorkerStep, LocalWorkerStep

(* A call past its test has the lock, and the test still holds.             *)
OpenInv ==
    \A p \in Pushers : call[p].pc = "open" => pairLock = p /\ Allowed(call[p].key)

(* Only its own call gives up a lock that a delivery holds.                 *)
LEMMA LockKept ==
    ASSUME Inv, NEW q \in Pushers, pairLock = q,
           \/ SenderStep \/ DeleteFriend \/ BecomeFriends
           \/ \E w \in Workers : WorkerStep(w)
           \/ \E k \in Keys : AckStep(k)
           \/ \E k \in topic : ConfirmMessageDispatch(k)
    PROVE pairLock' = q
<1> q # None /\ q \notin Workers
  BY ConstantsAssumption
<1>1. CASE SenderStep
  BY <1>1 DEF SenderStep, TakeId, QueueSingleMessage, QueueFails, AnswerSender
<1>2. CASE DeleteFriend \/ BecomeFriends
  BY <1>2 DEF DeleteFriend, BecomeFriends
<1>3. ASSUME NEW w \in Workers, WorkerStep(w) PROVE pairLock' = q
  BY <1>3 DEF WorkerStep, LocalWorkerStep, ClaimOutboxTask, BeginPersist, BeginDispatch,
     BeginPhase, SaveBody, PublishMessage, CacheBody, DeliverConfirmed, CleanCache, CleanBody,
     MarkDelivered, Uncache, External, CommitPersist, CommitReschedule, CommitSettle, Commit,
     StepFails, LoseLock, RetryOutboxTask, RecoveryDeferred, NotifySender
<1>4. ASSUME NEW k \in Keys, AckStep(k) PROVE pairLock' = q
  BY <1>4 DEF AckStep, ReadForAck, CommitAck, AckFails
<1>5. ASSUME NEW k \in topic, ConfirmMessageDispatch(k) PROVE pairLock' = q
  BY <1>5 DEF ConfirmMessageDispatch
<1>6. QED
  BY <1>1, <1>2, <1>3, <1>4, <1>5

(* A call between its test and its push keeps the pair lock, which every    *)
(* change of the permission needs.                                          *)
LEMMA OpenStep ==
    ASSUME LockLoss = FALSE, Inv, LaneInv, OpenInv, [DNext]_allVars PROVE OpenInv'
<1> DEFINE Open(p) == call[p].pc = "open" => pairLock = p /\ Allowed(call[p].key)
<1>1. \A p, r \in Pushers : call[p].pc = "open" /\ call[r].pc = "open" => p = r
  BY DEF OpenInv
<1>2. ASSUME NEW p \in Pushers, call[p].pc = "open", pairLock' = p, call'[p] = call[p]
      PROVE Open(p)'
  <2>1. PICK k \in Keys : k = call[p].key
    BY <1>2 DEF LaneInv
  <2>2. Allowed(k) /\ pairLock = p
    BY <1>2, <2>1 DEF OpenInv
  <2>3. Allowed(k)'
    BY <2>2, StepImplements, AllowedStable
  <2>4. k = call'[p].key
    BY <1>2, <2>1
  <2>5. QED
    BY <1>2, <2>3, <2>4
<1> SUFFICES \A p \in Pushers : Open(p)'
  BY DEF OpenInv
<1>3. CASE call' = call /\
           (\/ SenderStep \/ DeleteFriend \/ BecomeFriends
            \/ \E w \in Workers : WorkerStep(w)
            \/ \E k \in Keys : AckStep(k)
            \/ \E k \in topic : ConfirmMessageDispatch(k))
  BY <1>2, <1>3, LockKept DEF OpenInv
<1>4. CASE LaneStep
  <2>1. CASE Confirm
    BY <2>1, <1>3 DEF Confirm, LaneInv
  <2>2. CASE ~Confirm
    <3>1. UNCHANGED vars /\ \A p \in Pushers : call'[p] = call[p] \/ call'[p].pc = "queued"
      <4>1. ASSUME NEW r \in Pushers, CallPush(r)
            PROVE \A p \in Pushers : call'[p] = call[p] \/ call'[p].pc = "queued"
        BY <4>1 DEF CallPush, LaneInv
      <4>2. (\E r \in Pushers : CallPush(r)) \/ call' = call
        BY <1>4, <2>2 DEF LaneStep, Fetch, SkipDone, LaneFails, Redeliver
      <4>3. UNCHANGED vars
        BY <1>4, <2>2 DEF LaneStep, Fetch, SkipDone, LaneFails, CallPush, Redeliver
      <4>4. QED
        BY <4>1, <4>2, <4>3
    <3>2. pairLock' = pairLock
      BY <3>1 DEF vars
    <3>3. QED
      BY <1>2, <3>1, <3>2 DEF OpenInv
  <2>3. QED
    BY <2>1, <2>2
<1>5. ASSUME NEW r \in Pushers, PushStep(r) PROVE \A p \in Pushers : Open(p)'
  <2>1. CASE BeginPush(r)
    <3>1. CASE Allowed(call[r].key)
      <4>1. \A p \in Pushers : call[p].pc # "open"
        BY <2>1, ConstantsAssumption DEF BeginPush, OpenInv
      <4>2. /\ pairLock' = r /\ call'[r].key = call[r].key
            /\ \A p \in Pushers \ {r} : call'[p] = call[p]
        BY <2>1, <3>1 DEF BeginPush, LaneInv, CallType
      <4>3. PICK k \in Keys : k = call[r].key
        BY <2>1 DEF BeginPush, LaneInv
      <4>4. Allowed(k)' /\ k = call'[r].key
        BY <2>1, <3>1, <4>2, <4>3 DEF BeginPush, Allowed, FriendAllows, friendVars, rowVars,
           taskVars, ackVars
      <4>5. QED
        BY <4>1, <4>2, <4>4
    <3>2. CASE ~Allowed(call[r].key)
      <4>1. pairLock' = pairLock /\ \A p \in Pushers : call'[p] = call[p] \/ call'[p].pc = "free"
        BY <2>1, <3>2 DEF BeginPush, Reply, FreeCall, LaneInv
      <4>2. QED
        BY <1>2, <4>1 DEF OpenInv
    <3>3. QED
      BY <3>1, <3>2
  <2>2. CASE PushToUser(r)
    <3>1. pairLock' = pairLock /\ call'[r].pc = "sent" /\ \A p \in Pushers \ {r} : call'[p] = call[p]
      BY <2>2 DEF PushToUser, LaneInv, CallType, vars
    <3>2. QED
      BY <1>2, <3>1 DEF OpenInv
  <2>3. CASE CommitPush(r) \/ PushFails(r)
    <3>1. /\ call'[r].pc = "free" /\ \A p \in Pushers \ {r} : call'[p] = call[p]
          /\ pairLock' = pairLock \/ pairLock = r
      BY <2>3 DEF CommitPush, PushFails, Reply, FreeCall, LaneInv
    <3>2. QED
      BY <1>2, <3>1 DEF OpenInv
  <2>4. CASE LosePushLock(r)
    BY <2>4 DEF LosePushLock
  <2>5. CASE \E k \in published : OfferOffline(k, r)
    <3>1. pairLock' = pairLock /\ \A p \in Pushers : call'[p] = call[p] \/ call'[p].pc = "queued"
      BY <2>5 DEF OfferOffline, LaneInv, vars
    <3>2. QED
      BY <1>2, <3>1 DEF OpenInv
  <2>6. QED
    BY <1>5, <2>1, <2>2, <2>3, <2>4, <2>5 DEF PushStep
<1>6. CASE DCrash
  BY <1>6 DEF DCrash, OpenInv, FreeCall
<1>7. CASE UNCHANGED allVars
  <2>1. pairLock' = pairLock /\ call' = call
    BY <1>7 DEF allVars, vars, deliveryVars
  <2>2. QED
    BY <1>2, <2>1 DEF OpenInv
<1>8. acks \subseteq Keys /\ device \subseteq Keys
  BY DEF Inv, TypeOK, LaneInv
<1>9. QED
  BY <1>3, <1>4, <1>5, <1>6, <1>7, <1>8 DEF DNext, deliveryVars, Announce, WorkerStep, AckStep

(* A message reaches the device only under a friendship that allows it, as  *)
(* long as MySQL keeps the connection that holds the pair lock.             *)
THEOREM DeliveredUnderFriendship ==
    ASSUME LockLoss = FALSE PROVE DSpec => []DeliveredWhileAllowed
<1>1. DInit => OpenInv
  BY DEF DInit, OpenInv, FreeCall
<1>2. (Inv /\ LaneInv) /\ OpenInv /\ [DNext]_allVars => OpenInv'
  BY OpenStep
<1>3. OpenInv => DeliveredWhileAllowed
  BY DEF OpenInv, DeliveredWhileAllowed
<1>4. QED
  BY <1>1, <1>2, <1>3, DeliveryInv, PTL DEF DSpec
=============================================================================
