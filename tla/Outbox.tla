------------------------------- MODULE Outbox -------------------------------
(***************************************************************************)
(* The transactional outbox that carries single-chat messages:             *)
(* MySQLHandler::QueueSingleMessage, ClaimOutboxTask, ProcessOutboxTask,    *)
(* RetryOutboxTask, QueueMessageAck, ConfirmMessageDispatch, the            *)
(* DeleteFriend branch of the friend commands (storage/mysqlhandler.cpp),   *)
(* the worker loop of msg_service/outbox_worker.cpp and the sending RPC of  *)
(* msg_service/server.cpp.                                                  *)
(*                                                                         *)
(* One conversation is modelled: two accounts, one friend_pairs row whose  *)
(* exclusive lock (lockPair) every transaction below takes first.  Rows of *)
(* im_outbox are named by what their unique key is made of:                *)
(*   <<"msg", k>>    operation 1, k stands for "sender:clientMsgID"         *)
(*   <<"clean", c>>  operation 2, c is the deletion cutoff                  *)
(*   <<"ack", k>>    operation 3, the receiver's acknowledgement of k       *)
(* A row is never deleted and fixes one serverMsgID, so k also names the   *)
(* message in MongoDB, Redis and Kafka.                                    *)
(*                                                                         *)
(* MySQL effects appear at COMMIT; MongoDB, Redis and Kafka effects are     *)
(* steps of their own that no ROLLBACK takes back.                         *)
(***************************************************************************)
EXTENDS Naturals, FiniteSets

CONSTANTS
    Keys,        \* sender:clientMsgID values
    Contents,    \* message contents a client may submit under a key
    Workers,     \* coroutines started by OutboxWorker::Start
    Pushers,     \* other holders of the pair lock (deliveries in progress)
    MaxSeq,      \* bound: ids handed out by Snowflake::nextId
    MaxSends,    \* bound: SendMessages calls between nextId and the lock
    ClockSteps,  \* TRUE: the id generator may go backwards or repeat
    LockLoss,    \* TRUE: MySQL may drop a connection inside a transaction
    None

ASSUME ConstantsAssumption ==
    /\ MaxSeq \in Nat /\ MaxSends \in Nat
    /\ ClockSteps \in BOOLEAN
    /\ LockLoss \in BOOLEAN
    /\ None \notin Workers \cup Pushers \cup Contents
    /\ Workers \cap Pushers = {}

Seqs == 1..MaxSeq

Msg(k) == <<"msg", k>>
Clean(c) == <<"clean", c>>
Ack(k) == <<"ack", k>>

MsgTask == {"msg"} \X Keys
CleanTask == {"clean"} \X Seqs
AckTask == {"ack"} \X Keys
Task == MsgTask \cup CleanTask \cup AckTask

Send == [key : Keys, content : Contents, seq : Seqs]
Poll == [key : Keys, content : Contents]

VARIABLES
    friends,       \* both rows of table friends exist
    deletedSeq,    \* friend_chat_deletions.deleted_seq, 0 when no row
    lastId,        \* the id handed out last
    sends,         \* SendMessages calls between nextId and QueueSingleMessage
    polls,         \* SendMessages calls waiting for stage 1
    told,          \* history: submissions answered with errorCode "0"
    seq,           \* im_outbox.seq of Msg(k), 0 when there is no row
    content,       \* im_outbox.payload of Msg(k), None when blanked or absent
    stage,         \* im_outbox.stage of Msg(k)
    dispatchDone,  \* the keys with im_outbox.dispatch_done set
    state,         \* im_outbox.state of every task
    lease,         \* im_outbox.lease_token of every task: the claiming worker
    receipts,      \* im_message_receipts
    acks,          \* QueueMessageAck calls past their unlocked read
    saved,         \* bodies stored in MongoDB
    published,     \* of those, the ones with committed = true
    received,      \* of those, the ones with status = 2
    cache,         \* bodies cached in Redis
    topic,         \* records in the Kafka partition of the conversation
    pairLock,      \* who holds the friend_pairs row lock
    pc, task       \* the workers

friendVars == <<friends, deletedSeq>>
sendVars   == <<sends, polls, told>>
rowVars    == <<seq, content, stage, dispatchDone>>
taskVars   == <<state, lease>>
ackVars    == <<receipts, acks>>
mongoVars  == <<saved, published, received>>
storeVars  == <<mongoVars, cache, topic>>
workerVars == <<pc, task>>
vars == <<friendVars, lastId, sendVars, rowVars, taskVars, ackVars, storeVars,
          pairLock, workerVars>>

-----------------------------------------------------------------------------
(* pc values between lockPair and COMMIT of one transaction of a worker.    *)
PersistSteps  == {"save", "record"}
DispatchSteps == {"publish", "cache", "produce", "reschedule"}
CleanSteps    == {"cleanCache", "cleanBody"}
AckSteps      == {"mark", "uncache"}
InTxn == PersistSteps \cup DispatchSteps \cup CleanSteps \cup AckSteps \cup {"settle"}
PC == InTxn \cup {"idle", "persist", "dispatch", "retry", "notify"}

Exists(k) == seq[k] > 0

(* Snowflake::nextId.  Increasing unless the clock steps back.              *)
NextIds == IF ClockSteps THEN Seqs ELSE {lastId + 1} \cap Seqs

(* Mutant of FriendAllows: the deletion mark is not consulted.              *)
FriendAllowsAny(s) == friends

(* friendAllows: both friend rows, and the id is above the deletion mark.   *)
FriendAllows(s) == friends /\ s > deletedSeq

(* InnoDB row locks taken by an open worker transaction: its own row       *)
(* (SELECT ... FOR UPDATE) and, for a cleanup, the rows it cancels.        *)
RowLocked(t) ==
    \E w \in Workers :
        /\ pairLock = w
        /\ \/ task[w] = t
           \/ /\ t \in MsgTask /\ task[w] \in CleanTask
              /\ Exists(t[2]) /\ seq[t[2]] <= task[w][2]

HoldsLease(w) == state[task[w]] = "claimed" /\ lease[task[w]] = w

(* A friendship removed at cutoff c cancels what its messages still owe.    *)
Cancelled(c, live) == {k \in Keys : Exists(k) /\ seq[k] <= c /\ state[Msg(k)] \in live}

-----------------------------------------------------------------------------
Init ==
    /\ friends = TRUE /\ deletedSeq = 0 /\ lastId = 0
    /\ sends = {} /\ polls = {} /\ told = {}
    /\ seq = [k \in Keys |-> 0]
    /\ content = [k \in Keys |-> None]
    /\ stage = [k \in Keys |-> 0]
    /\ dispatchDone = {}
    /\ state = [t \in Task |-> "absent"]
    /\ lease = [t \in Task |-> None]
    /\ receipts = {} /\ acks = {}
    /\ saved = {} /\ published = {} /\ received = {}
    /\ cache = {} /\ topic = {}
    /\ pairLock = None
    /\ pc = [w \in Workers |-> "idle"]
    /\ task = [w \in Workers |-> None]

-----------------------------------------------------------------------------
(* The sender: SendMessages.                                                *)

(* The id is taken before the pair lock.                                    *)
TakeId(k, c) ==
    /\ Cardinality(sends) < MaxSends
    /\ \E id \in NextIds :
          /\ lastId' = id
          /\ sends' = sends \cup {[key |-> k, content |-> c, seq |-> id]}
    /\ UNCHANGED <<friendVars, polls, told, rowVars, taskVars, ackVars,
                   storeVars, pairLock, workerVars>>

(* Mutant of Repeatable: the stored content is not compared.                *)
RepeatableAny(s) ==
    /\ state[Msg(s.key)] # "cancelled"
    /\ content[s.key] # None
    /\ FriendAllows(seq[s.key])

(* An existing row answers a repeated clientMsgID only if it is alive,      *)
(* still allowed and carries the same content.                              *)
Repeatable(s) ==
    /\ state[Msg(s.key)] # "cancelled"
    /\ content[s.key] # None
    /\ FriendAllows(seq[s.key])
    /\ content[s.key] = s.content

(* QueueSingleMessage.  A refusal is answered INVALID_MESSAGE; when the      *)
(* COMMIT's answer is lost the row is there and the sender reads DB_ERROR.  *)
QueueSingleMessage(s) ==
    /\ pairLock = None
    /\ sends' = sends \ {s}
    /\ IF ~FriendAllows(s.seq) \/ (Exists(s.key) /\ ~Repeatable(s))
       THEN UNCHANGED <<polls, rowVars, taskVars>>
       ELSE /\ \/ polls' = polls \cup {[key |-> s.key, content |-> s.content]}
               \/ UNCHANGED polls
            /\ IF Exists(s.key)
               THEN UNCHANGED <<rowVars, taskVars>>
               ELSE /\ seq' = [seq EXCEPT ![s.key] = s.seq]
                    /\ content' = [content EXCEPT ![s.key] = s.content]
                    /\ state' = [state EXCEPT ![Msg(s.key)] = "pending"]
                    /\ UNCHANGED <<stage, dispatchDone, lease>>
    /\ UNCHANGED <<friendVars, lastId, told, ackVars, storeVars, pairLock, workerVars>>

(* The transaction of QueueSingleMessage fails and leaves no row.           *)
QueueFails(s) ==
    /\ sends' = sends \ {s}
    /\ UNCHANGED <<friendVars, lastId, polls, told, rowVars, taskVars, ackVars,
                   storeVars, pairLock, workerVars>>

(* The wait for stage 1 ends: persisted, cancelled or 8 s passed.  Only a   *)
(* live row at stage 1 is answered "0"; the other answers are PENDING,      *)
(* NOT_FRIEND, and DB_ERROR for a read that fails or a blanked payload,     *)
(* which does not parse.                                                    *)
AnswerSender(p) ==
    /\ polls' = polls \ {p}
    /\ \/ /\ content[p.key] # None
          /\ state[Msg(p.key)] # "cancelled"
          /\ stage[p.key] = 1
          /\ told' = told \cup {p}
       \/ UNCHANGED told
    /\ UNCHANGED <<friendVars, lastId, sends, rowVars, taskVars, ackVars,
                   storeVars, pairLock, workerVars>>

-----------------------------------------------------------------------------
(* A worker: OutboxWorker::Run.                                             *)

(* Mutant of ClaimOutboxTask: an expired lease is not taken over.           *)
ClaimPendingOnly(w, t) ==
    /\ pc[w] = "idle"
    /\ state[t] = "pending"
    /\ ~RowLocked(t)
    /\ state' = [state EXCEPT ![t] = "claimed"]
    /\ lease' = [lease EXCEPT ![t] = w]
    /\ task' = [task EXCEPT ![w] = t]
    /\ pc' = [pc EXCEPT ![w] = IF t \in MsgTask THEN "persist" ELSE "dispatch"]
    /\ UNCHANGED <<friendVars, lastId, sendVars, rowVars, ackVars, storeVars, pairLock>>

(* ClaimOutboxTask: a pending row whose time has come, or a claimed one     *)
(* whose lease has run out; SKIP LOCKED passes over locked rows.            *)
ClaimOutboxTask(w, t) ==
    /\ pc[w] = "idle"
    /\ state[t] \in {"pending", "claimed"}
    /\ ~RowLocked(t)
    /\ state' = [state EXCEPT ![t] = "claimed"]
    /\ lease' = [lease EXCEPT ![t] = w]
    /\ task' = [task EXCEPT ![w] = t]
    /\ pc' = [pc EXCEPT ![w] = IF t \in MsgTask THEN "persist" ELSE "dispatch"]
    /\ UNCHANGED <<friendVars, lastId, sendVars, rowVars, ackVars, storeVars, pairLock>>

(* Mutant of BeginPhase: the claim is not tested again under the lock.      *)
BeginPhaseUnchecked(w, from, enter, skip) ==
    /\ pc[w] = from
    /\ pairLock = None
    /\ IF skip # None
       THEN pc' = [pc EXCEPT ![w] = skip] /\ UNCHANGED pairLock
       ELSE pc' = [pc EXCEPT ![w] = enter] /\ pairLock' = w
    /\ UNCHANGED <<friendVars, lastId, sendVars, rowVars, taskVars, ackVars, storeVars, task>>

(* Head of both phases: lockPair, re-read the row under its lock, stop if   *)
(* the claim is gone, cancel the message if the friendship forbids it.      *)
(* enter is where the phase goes on with the lock, skip where it goes on    *)
(* without.                                                                 *)
BeginPhase(w, from, enter, skip) ==
    /\ pc[w] = from
    /\ pairLock = None
    /\ IF ~HoldsLease(w)
       THEN /\ pc' = [pc EXCEPT ![w] = "notify"]
            /\ UNCHANGED <<state, pairLock>>
       ELSE IF task[w] \in MsgTask /\ ~FriendAllows(seq[task[w][2]])
       THEN /\ state' = [state EXCEPT ![task[w]] = "cancelled"]
            /\ pc' = [pc EXCEPT ![w] = "notify"]
            /\ UNCHANGED pairLock
       ELSE IF skip # None
       THEN /\ pc' = [pc EXCEPT ![w] = skip]
            /\ UNCHANGED <<state, pairLock>>
       ELSE /\ pc' = [pc EXCEPT ![w] = enter]
            /\ pairLock' = w
            /\ UNCHANGED state
    /\ UNCHANGED <<friendVars, lastId, sendVars, rowVars, lease, ackVars, storeVars, task>>

(* phase(true): a message already at stage 1 goes straight to phase(false). *)
BeginPersist(w) ==
    /\ task[w] \in MsgTask
    /\ BeginPhase(w, "persist", "save",
                  IF stage[task[w][2]] = 0 THEN None ELSE "dispatch")

(* phase(false).                                                            *)
BeginDispatch(w) ==
    /\ task[w] \in Task
    /\ BeginPhase(w, "dispatch",
                  CASE task[w] \in MsgTask -> "publish"
                    [] task[w] \in CleanTask -> "cleanCache"
                    [] OTHER -> "mark", None)

(* An external effect of worker w: it needs no MySQL lock and survives any  *)
(* rollback.                                                                *)
External(w, from, to) ==
    /\ pc[w] = from
    /\ pc' = [pc EXCEPT ![w] = to]
    /\ UNCHANGED <<friendVars, lastId, sendVars, rowVars, taskVars, ackVars,
                   pairLock, task>>

(* SaveMsgToMongo: $setOnInsert, committed = false.                         *)
SaveBody(w) ==
    /\ External(w, "save", "record")
    /\ saved' = saved \cup {task[w][2]}
    /\ UNCHANGED <<published, received, cache, topic>>

(* Mutant of PublishMessage: an update that matches nothing.                *)
PublishNothing(w) ==
    /\ External(w, "publish",
                IF pairLock # w THEN "retry"
                ELSE IF task[w][2] \in receipts THEN "settle" ELSE "cache")
    /\ UNCHANGED storeVars

(* PublishMessage, which throws when the body is missing, followed by the   *)
(* read of the receipt, which needs the connection.                         *)
PublishMessage(w) ==
    /\ External(w, "publish",
                IF pairLock # w THEN "retry"
                ELSE IF task[w][2] \in receipts THEN "settle" ELSE "cache")
    /\ task[w][2] \in saved
    /\ published' = published \cup {task[w][2]}
    /\ UNCHANGED <<saved, received, cache, topic>>

(* RedisHandler::SaveMsg.                                                   *)
CacheBody(w) ==
    /\ External(w, "cache", "produce")
    /\ cache' = cache \cup {task[w][2]}
    /\ UNCHANGED <<mongoVars, topic>>

(* deliverConfirmed: the record reaches the broker.  A delivery report that *)
(* is late or lost is this step followed by StepFails.                      *)
DeliverConfirmed(w) ==
    /\ External(w, "produce", "reschedule")
    /\ topic' = topic \cup {task[w][2]}
    /\ UNCHANGED <<mongoVars, cache>>

(* Mutant of Doomed: only published bodies are listed.                      *)
DoomedPublished(w) == {k \in published : seq[k] <= task[w][2]}

(* Cleanup of a deleted conversation: the ids MongoDB still knows are       *)
(* removed from Redis first, then the bodies from MongoDB.                  *)
Doomed(w) == {k \in saved : seq[k] <= task[w][2]}

CleanCache(w) ==
    /\ External(w, "cleanCache", "cleanBody")
    /\ cache' = cache \ Doomed(w)
    /\ UNCHANGED <<mongoVars, topic>>

CleanBody(w) ==
    /\ External(w, "cleanBody", "settle")
    /\ saved' = saved \ Doomed(w)
    /\ published' = published \ Doomed(w)
    /\ received' = received \ Doomed(w)
    /\ UNCHANGED <<cache, topic>>

(* MarkMsgsAsDelivered matches no document when the body is gone.           *)
MarkDelivered(w) ==
    /\ External(w, "mark", "uncache")
    /\ received' = received \cup ({task[w][2]} \cap saved)
    /\ UNCHANGED <<saved, published, cache, topic>>

(* CleanupAcknowledgedMessage.                                              *)
Uncache(w) ==
    /\ External(w, "uncache", "settle")
    /\ cache' = cache \ {task[w][2]}
    /\ UNCHANGED <<mongoVars, topic>>

(* COMMIT of worker w.  The answer to the COMMIT may be lost, and then the  *)
(* worker believes that the step failed.                                    *)
Commit(w, from, to) ==
    /\ pc[w] = from
    /\ pairLock = w
    /\ pairLock' = None
    /\ \/ pc' = [pc EXCEPT ![w] = to]
       \/ pc' = [pc EXCEPT ![w] = "retry"]
    /\ UNCHANGED <<friendVars, lastId, sendVars, seq, dispatchDone, ackVars,
                   storeVars, task>>

(* Mutant of CommitPersist: the stage is not written.                       *)
CommitPersistUnstaged(w) ==
    /\ Commit(w, "record", "dispatch")
    /\ UNCHANGED <<stage, content, taskVars>>

(* RecordConversationMessage and stage=1.                                   *)
CommitPersist(w) ==
    /\ Commit(w, "record", "dispatch")
    /\ stage' = [stage EXCEPT ![task[w][2]] = 1]
    /\ UNCHANGED <<content, taskVars>>

(* Produced and not acknowledged yet: pending again, 5 s from now.          *)
CommitReschedule(w) ==
    /\ Commit(w, "reschedule", "notify")
    /\ state' = [state EXCEPT ![task[w]] = "pending"]
    /\ lease' = [lease EXCEPT ![task[w]] = None]
    /\ UNCHANGED <<content, stage>>

(* Nothing left to do: state=2.  A cleanup also cancels every message row   *)
(* at or below its cutoff, whatever its state.                              *)
Swept(w) ==
    IF task[w] \in CleanTask
    THEN Cancelled(task[w][2], {"pending", "claimed", "done", "cancelled"}) ELSE {}

CommitSettle(w) ==
    /\ Commit(w, "settle", "notify")
    /\ state' = [t \in Task |-> IF t = task[w] THEN "done"
                                ELSE IF t \in MsgTask /\ t[2] \in Swept(w) THEN "cancelled"
                                ELSE state[t]]
    /\ lease' = [t \in Task |-> IF t = task[w] \/ (t \in MsgTask /\ t[2] \in Swept(w))
                                THEN None ELSE lease[t]]
    /\ content' = [k \in Keys |-> IF k \in Swept(w) THEN None ELSE content[k]]
    /\ UNCHANGED stage

(* An exception anywhere in ProcessOutboxTask: ROLLBACK and the catch of    *)
(* Run.                                                                     *)
StepFails(w) ==
    /\ pc[w] \in InTxn \cup {"persist", "dispatch"}
    /\ pc' = [pc EXCEPT ![w] = "retry"]
    /\ pairLock' = IF pairLock = w THEN None ELSE pairLock
    /\ UNCHANGED <<friendVars, lastId, sendVars, rowVars, taskVars, ackVars,
                   storeVars, task>>

(* The server drops the connection of w: its locks go, w does not know yet. *)
LoseLock(w) ==
    /\ LockLoss
    /\ pairLock = w
    /\ pairLock' = None
    /\ UNCHANGED <<friendVars, lastId, sendVars, rowVars, taskVars, ackVars,
                   storeVars, workerVars>>

(* Mutant of RetryOutboxTask: the UPDATE does not name the lease.           *)
RetryWithoutLease(w) ==
    /\ pc[w] = "retry"
    /\ ~RowLocked(task[w])
    /\ pc' = [pc EXCEPT ![w] = "notify"]
    /\ state' = [state EXCEPT ![task[w]] = "pending"]
    /\ lease' = [lease EXCEPT ![task[w]] = None]
    /\ UNCHANGED <<friendVars, lastId, sendVars, rowVars, ackVars, storeVars,
                   pairLock, task>>

(* RetryOutboxTask: only the holder of the lease puts the row back.         *)
RetryOutboxTask(w) ==
    /\ pc[w] = "retry"
    /\ ~RowLocked(task[w])
    /\ pc' = [pc EXCEPT ![w] = "notify"]
    /\ IF HoldsLease(w)
       THEN /\ state' = [state EXCEPT ![task[w]] = "pending"]
            /\ lease' = [lease EXCEPT ![task[w]] = None]
       ELSE UNCHANGED taskVars
    /\ UNCHANGED <<friendVars, lastId, sendVars, rowVars, ackVars, storeVars,
                   pairLock, task>>

(* RetryOutboxTask or GetOutboxTask fails: recovery is left to the lease.   *)
RecoveryDeferred(w) ==
    /\ pc[w] \in {"retry", "notify"}
    /\ pc' = [pc EXCEPT ![w] = "idle"]
    /\ task' = [task EXCEPT ![w] = None]
    /\ UNCHANGED <<friendVars, lastId, sendVars, rowVars, taskVars, ackVars,
                   storeVars, pairLock>>

(* notifySender(GetOutboxTask): a second answer, over the sender's session: *)
(* "0" for a persisted message, NOT_FRIEND for one cancelled before that.   *)
NotifySender(w) ==
    /\ pc[w] = "notify"
    /\ pc' = [pc EXCEPT ![w] = "idle"]
    /\ task' = [task EXCEPT ![w] = None]
    /\ LET k == task[w][2]
       IN told' = IF /\ task[w] \in MsgTask /\ stage[k] = 1
                     /\ state[task[w]] # "cancelled" /\ content[k] # None
                  THEN told \cup {[key |-> k, content |-> content[k]]} ELSE told
    /\ UNCHANGED <<friendVars, lastId, sends, polls, rowVars, taskVars, ackVars,
                   storeVars, pairLock>>

-----------------------------------------------------------------------------
(* The friendship.                                                          *)

(* DeleteFriend: the mark is an id taken under the lock, the cleanup task   *)
(* is queued and the unfinished messages are cancelled in one transaction.  *)
(* Repeated on removed friends it queues the same cleanup again.            *)
DeleteFriend ==
    /\ pairLock = None
    /\ IF friends
       THEN \E id \in NextIds : deletedSeq' = id /\ lastId' = id
       ELSE deletedSeq > 0 /\ UNCHANGED <<deletedSeq, lastId>>
    /\ friends' = FALSE
    /\ LET live == {"pending", "claimed"}
           hit(t) == t \in MsgTask /\ t[2] \in Cancelled(deletedSeq', live)
       IN /\ state' = [t \in Task |->
                          IF hit(t) THEN "cancelled"
                          ELSE IF t = Clean(deletedSeq') /\ state[t] = "absent" THEN "pending"
                          ELSE state[t]]
          /\ lease' = [t \in Task |-> IF hit(t) THEN None ELSE lease[t]]
          /\ content' = [k \in Keys |-> IF k \in Cancelled(deletedSeq', live)
                                        THEN None ELSE content[k]]
    /\ UNCHANGED <<sendVars, seq, stage, dispatchDone, ackVars, storeVars,
                   pairLock, workerVars>>

(* HandleApplication accepts: both friend rows are written.                 *)
BecomeFriends ==
    /\ pairLock = None
    /\ ~friends
    /\ friends' = TRUE
    /\ UNCHANGED <<deletedSeq, lastId, sendVars, rowVars, taskVars, ackVars,
                   storeVars, pairLock, workerVars>>

-----------------------------------------------------------------------------
(* The receiver.                                                            *)

(* QueueMessageAck, the read made before the lock: it goes on only for a    *)
(* message that is persisted and not cancelled at that time.                *)
ReadForAck(k) ==
    /\ Exists(k) /\ stage[k] = 1
    /\ state[Msg(k)] # "cancelled" /\ content[k] # None
    /\ acks' = acks \cup {k}
    /\ UNCHANGED <<friendVars, lastId, sendVars, rowVars, taskVars, receipts,
                   storeVars, pairLock, workerVars>>

(* Its transaction: receipt and cleanup task together, both idempotent.     *)
CommitAck(k) ==
    /\ k \in acks
    /\ pairLock = None
    /\ acks' = acks \ {k}
    /\ receipts' = receipts \cup {k}
    /\ state' = [state EXCEPT ![Ack(k)] = IF @ = "absent" THEN "pending" ELSE @]
    /\ UNCHANGED <<friendVars, lastId, sendVars, rowVars, lease, storeVars,
                   pairLock, workerVars>>

AckFails(k) ==
    /\ k \in acks
    /\ acks' = acks \ {k}
    /\ UNCHANGED <<friendVars, lastId, sendVars, rowVars, taskVars, receipts,
                   storeVars, pairLock, workerVars>>

(* ConfirmMessageDispatch, a single UPDATE without the pair lock.           *)
ConfirmMessageDispatch(k) ==
    /\ ~RowLocked(Msg(k))
    /\ IF Exists(k) /\ stage[k] = 1 /\ state[Msg(k)] # "cancelled"
       THEN /\ state' = [state EXCEPT ![Msg(k)] = "done"]
            /\ lease' = [lease EXCEPT ![Msg(k)] = None]
            /\ dispatchDone' = dispatchDone \cup {k}
       ELSE UNCHANGED <<taskVars, dispatchDone>>
    /\ UNCHANGED <<friendVars, lastId, sendVars, seq, content, stage, ackVars,
                   storeVars, pairLock, workerVars>>

(* WithFriendMessage of a delivery p takes and releases the pair lock and   *)
(* changes nothing else here.                                               *)
LockPair(p) ==
    /\ pairLock = None
    /\ pairLock' = p
    /\ UNCHANGED <<friendVars, lastId, sendVars, rowVars, taskVars, ackVars,
                   storeVars, workerVars>>

UnlockPair(p) ==
    /\ pairLock = p
    /\ pairLock' = None
    /\ UNCHANGED <<friendVars, lastId, sendVars, rowVars, taskVars, ackVars,
                   storeVars, workerVars>>

-----------------------------------------------------------------------------
(* The process dies: every coroutine is lost and MySQL rolls back what was  *)
(* open.                                                                    *)
Crash ==
    /\ sends' = {} /\ polls' = {} /\ acks' = {}
    /\ pairLock' = None
    /\ pc' = [w \in Workers |-> "idle"]
    /\ task' = [w \in Workers |-> None]
    /\ UNCHANGED <<friendVars, lastId, told, rowVars, taskVars, receipts, storeVars>>

(* Everything a worker does except announcing a message in Kafka.           *)
LocalWorkerStep(w) ==
    \/ \E t \in Task : ClaimOutboxTask(w, t)
    \/ BeginPersist(w) \/ SaveBody(w) \/ CommitPersist(w)
    \/ BeginDispatch(w) \/ PublishMessage(w) \/ CacheBody(w)
    \/ CommitReschedule(w)
    \/ CleanCache(w) \/ CleanBody(w) \/ MarkDelivered(w) \/ Uncache(w)
    \/ CommitSettle(w)
    \/ StepFails(w) \/ LoseLock(w)
    \/ RetryOutboxTask(w) \/ RecoveryDeferred(w) \/ NotifySender(w)

WorkerStep(w) == LocalWorkerStep(w) \/ DeliverConfirmed(w)

SenderStep ==
    \/ \E k \in Keys, c \in Contents : TakeId(k, c)
    \/ \E s \in sends : QueueSingleMessage(s) \/ QueueFails(s)
    \/ \E p \in polls : AnswerSender(p)

AckStep(k) == ReadForAck(k) \/ CommitAck(k) \/ AckFails(k)

Next ==
    \/ SenderStep
    \/ \E w \in Workers : WorkerStep(w)
    \/ DeleteFriend \/ BecomeFriends
    \/ \E k \in Keys : AckStep(k)
    \/ \E k \in topic : ConfirmMessageDispatch(k)
    \/ \E p \in Pushers : LockPair(p) \/ UnlockPair(p)
    \/ Crash

Spec == Init /\ [][Next]_vars

-----------------------------------------------------------------------------
(* Type invariant.                                                          *)
TypeOK ==
    /\ friends \in BOOLEAN
    /\ deletedSeq \in 0..MaxSeq
    /\ lastId \in 0..MaxSeq
    /\ sends \subseteq Send
    /\ polls \subseteq Poll
    /\ told \subseteq Poll
    /\ seq \in [Keys -> 0..MaxSeq]
    /\ content \in [Keys -> Contents \cup {None}]
    /\ stage \in [Keys -> 0..1]
    /\ dispatchDone \subseteq Keys
    /\ state \in [Task -> {"absent", "pending", "claimed", "done", "cancelled"}]
    /\ lease \in [Task -> Workers \cup {None}]
    /\ receipts \subseteq Keys /\ acks \subseteq Keys
    /\ saved \subseteq Keys /\ published \subseteq saved /\ received \subseteq saved
    /\ cache \subseteq Keys /\ topic \subseteq Keys
    /\ pairLock \in Workers \cup Pushers \cup {None}
    /\ pc \in [Workers -> PC]
    /\ task \in [Workers -> Task \cup {None}]

Outstanding(s) == \E c \in Seqs : c >= s /\ state[Clean(c)] \in {"pending", "claimed"}

(* A transaction commits only for the claim it was opened with: while a     *)
(* worker holds the pair lock its row stays claimed under its own lease,    *)
(* whatever lease expiry, ConfirmMessageDispatch, RetryOutboxTask of an     *)
(* older holder or a friend deletion do meanwhile (ProcessOutboxTask tests  *)
(* the token once, at the head of the phase).                               *)
LeaseHeldToCommit == \A w \in Workers : pairLock = w => HoldsLease(w)

(* Nothing leaves the database before it is durable: a body that is         *)
(* published in MongoDB, cached in Redis or announced in Kafka belongs to   *)
(* a message whose stage=1 has been committed.                              *)
NothingLeaksBeforeCommit ==
    \A k \in published \cup cache \cup topic : stage[k] = 1

(* No message is lost: an outbox row that is done and not acknowledged has  *)
(* its published body in MongoDB, where the login synchronisation finds     *)
(* it, unless a cleanup that covers it is still owed.                       *)
DoneIsRecoverable ==
    \A k \in Keys :
        /\ state[Msg(k)] = "done"
        /\ k \notin receipts
        => (k \in published /\ k \notin received) \/ Outstanding(seq[k])

(* Removing a friend settles every earlier message: a row at or below the   *)
(* deletion mark is cancelled, or it was done and its cleanup is owed.      *)
WatermarkCancels ==
    \A k \in Keys :
        Exists(k) /\ seq[k] <= deletedSeq =>
            \/ state[Msg(k)] = "cancelled"
            \/ state[Msg(k)] = "done" /\ Outstanding(seq[k])

(* A finished cleanup leaves nothing behind: no body and no cached copy of  *)
(* a message at or below its cutoff, however often a worker died between    *)
(* the Redis, the MongoDB and the MySQL part.                               *)
CleanupComplete ==
    \A c \in Seqs : state[Clean(c)] = "done" =>
        \A k \in saved \cup cache : seq[k] > c

(* A receipt is never lost between its transaction and its cleanup: it has  *)
(* a cleanup task, and MongoDB calls a message received only with one.      *)
ReceiptHasTask ==
    /\ \A k \in Keys : k \in receipts <=> state[Ack(k)] # "absent"
    /\ received \subseteq receipts

(* A submission answered "0" is durable under the content that was sent:    *)
(* its row is at stage 1, holds that content unless a deletion blanked it,  *)
(* and its body is stored unless a cleanup has taken or will take it.       *)
AnsweredIsDurable ==
    \A p \in told :
        /\ stage[p.key] = 1
        /\ content[p.key] \in {p.content, None}
        /\ p.key \in saved \/ seq[p.key] <= deletedSeq

(* Settled rows stay settled: no late worker, retry or confirmation brings  *)
(* a done or cancelled message back to work, or a cancelled one to done.    *)
SettledStays ==
    [][\A t \in Task :
         /\ state[t] = "cancelled" => state'[t] = "cancelled"
         /\ state[t] = "done" => state'[t] \in {"done", "cancelled"}]_vars
=============================================================================
