------------------------------ MODULE Delivery ------------------------------
(***************************************************************************)
(* The way from Kafka to the receiver's device, composed with Outbox:       *)
(* PushHandler::handle (the consumer's lane of the conversation),           *)
(* PushServer::PushMsg and WithFriendMessage (delivery under the pair       *)
(* lock), the login synchronisation of WSSession (deliverOfflineMessage,    *)
(* which uses WithFriendMessage too) and the receiver's acknowledgements.   *)
(*                                                                         *)
(* A Pusher is one execution of WithFriendMessage.  A call started by the   *)
(* lane goes on after the lane's gRPC deadline has passed.                  *)
(***************************************************************************)
EXTENDS Outbox

VARIABLES
    todo,     \* records the consumer has not committed
    lane,     \* the lane's handler: step, message, and the call it waits for
    call,     \* executions of WithFriendMessage
    device    \* messages the receiving client has stored

deliveryVars == <<todo, lane, call, device>>
allVars == <<vars, deliveryVars>>

IdleLane == [pc |-> "idle", key |-> None, slot |-> None]
FreeCall == [pc |-> "free", key |-> None]

DInit ==
    /\ Init
    /\ todo = {} /\ device = {}
    /\ lane = IdleLane
    /\ call = [p \in Pushers |-> FreeCall]

(* The test of WithFriendMessage with requireUndelivered.                   *)
Allowed(k) ==
    /\ FriendAllows(seq[k])
    /\ stage[k] = 1 /\ state[Msg(k)] # "cancelled"
    /\ k \notin receipts

(* MessageDispatchDone.                                                     *)
DispatchDone(k) == state[Msg(k)] = "cancelled" \/ k \in dispatchDone \/ k \in receipts

-----------------------------------------------------------------------------
(* The consumer lane.                                                       *)

(* The body comes from Redis or else from MongoDB; without a body the       *)
(* record is skipped and its offset committed.                              *)
Fetch(k) ==
    /\ lane.pc = "idle" /\ k \in todo
    /\ IF k \in cache \cup saved
       THEN lane' = [lane EXCEPT !.pc = "loaded", !.key = k] /\ UNCHANGED todo
       ELSE todo' = todo \ {k} /\ UNCHANGED lane
    /\ UNCHANGED <<vars, call, device>>

(* A message already dispatched, cancelled or acknowledged is skipped.      *)
SkipDone ==
    /\ lane.pc = "loaded" /\ DispatchDone(lane.key)
    /\ todo' = todo \ {lane.key}
    /\ lane' = IdleLane
    /\ UNCHANGED <<vars, call, device>>

(* The PushMsg call leaves the lane.                                        *)
CallPush(p) ==
    /\ lane.pc = "loaded" /\ ~DispatchDone(lane.key)
    /\ call[p].pc = "free"
    /\ call' = [call EXCEPT ![p] = [pc |-> "queued", key |-> lane.key]]
    /\ lane' = [lane EXCEPT !.pc = "calling", !.slot = p]
    /\ UNCHANGED <<vars, todo, device>>

(* PushMsg answered OK: ConfirmMessageDispatch, then the offset.            *)
Confirm ==
    /\ lane.pc = "confirm"
    /\ ConfirmMessageDispatch(lane.key)
    /\ todo' = todo \ {lane.key}
    /\ lane' = IdleLane
    /\ UNCHANGED <<call, device>>

(* A store, the RPC deadline or ConfirmMessageDispatch fails: the handler   *)
(* throws and the lane tries the record again.                              *)
LaneFails ==
    /\ lane.pc # "idle"
    /\ lane' = IdleLane
    /\ UNCHANGED <<vars, todo, call, device>>

(* A rebalance or a lost offset commit delivers a consumed record again.    *)
Redeliver(k) ==
    /\ k \in topic \ todo
    /\ todo' = todo \cup {k}
    /\ UNCHANGED <<vars, lane, call, device>>

-----------------------------------------------------------------------------
(* WithFriendMessage.                                                       *)

(* Call p ends; the lane hears of it only if it still waits for p.          *)
Reply(p, ok) ==
    /\ call' = [call EXCEPT ![p] = FreeCall]
    /\ lane' = IF lane.pc = "calling" /\ lane.slot = p
               THEN IF ok THEN [lane EXCEPT !.pc = "confirm"] ELSE IdleLane
               ELSE lane
    /\ UNCHANGED <<todo, friendVars, lastId, sendVars, rowVars, taskVars, ackVars,
                   storeVars, workerVars>>

(* Mutant of BeginPush: the lock is released again after the test.          *)
BeginPushUnlocked(p) ==
    /\ call[p].pc = "queued" /\ pairLock = None
    /\ IF Allowed(call[p].key)
       THEN /\ call' = [call EXCEPT ![p].pc = "open"]
            /\ UNCHANGED <<todo, lane, vars>>
       ELSE Reply(p, TRUE) /\ UNCHANGED pairLock
    /\ UNCHANGED device

(* lockPair and the test.  A message that is not allowed is discarded and   *)
(* the call answers OK.                                                     *)
BeginPush(p) ==
    /\ call[p].pc = "queued" /\ pairLock = None
    /\ IF Allowed(call[p].key)
       THEN /\ pairLock' = p
            /\ call' = [call EXCEPT ![p].pc = "open"]
            /\ UNCHANGED <<todo, lane, friendVars, lastId, sendVars, rowVars,
                           taskVars, ackVars, storeVars, workerVars>>
       ELSE Reply(p, TRUE) /\ UNCHANGED pairLock
    /\ UNCHANGED device

(* The action: the message reaches the device, or the receiver is offline   *)
(* and the call goes on all the same.                                       *)
PushToUser(p) ==
    /\ call[p].pc = "open"
    /\ call' = [call EXCEPT ![p].pc = "sent"]
    /\ \/ device' = device \cup {call[p].key}
       \/ UNCHANGED device
    /\ UNCHANGED <<vars, todo, lane>>

CommitPush(p) ==
    /\ call[p].pc = "sent" /\ pairLock = p
    /\ pairLock' = None
    /\ Reply(p, TRUE)
    /\ UNCHANGED device

(* Redis, the gateway or MySQL fails: ROLLBACK, UNAVAILABLE.                *)
PushFails(p) ==
    /\ call[p].pc # "free"
    /\ pairLock' = IF pairLock = p THEN None ELSE pairLock
    /\ Reply(p, FALSE)
    /\ UNCHANGED device

LosePushLock(p) ==
    /\ LockLoss
    /\ pairLock = p
    /\ pairLock' = None
    /\ UNCHANGED <<deliveryVars, friendVars, lastId, sendVars, rowVars, taskVars,
                   ackVars, storeVars, workerVars>>

(* Mutant of OfferOffline: dispatched messages are left out of the scan.    *)
OfferUndispatched(k, p) ==
    /\ k \in published \ received /\ k \notin dispatchDone
    /\ call[p].pc = "free"
    /\ call' = [call EXCEPT ![p] = [pc |-> "queued", key |-> k]]
    /\ UNCHANGED <<vars, todo, lane, device>>

(* Login: the scan of MongoDB offers k; the delivery itself comes later.    *)
OfferOffline(k, p) ==
    /\ k \in published \ received
    /\ call[p].pc = "free"
    /\ call' = [call EXCEPT ![p] = [pc |-> "queued", key |-> k]]
    /\ UNCHANGED <<vars, todo, lane, device>>

-----------------------------------------------------------------------------
DCrash ==
    /\ Crash
    /\ lane' = IdleLane
    /\ call' = [p \in Pushers |-> FreeCall]
    /\ UNCHANGED <<todo, device>>

(* A record is appended for every announcement, also for a repeated one.    *)
Announce(w) ==
    /\ DeliverConfirmed(w)
    /\ todo' = todo \cup {task[w][2]}
    /\ UNCHANGED <<lane, call, device>>

LaneStep ==
    \/ \E k \in todo : Fetch(k)
    \/ SkipDone \/ Confirm \/ LaneFails
    \/ \E p \in Pushers : CallPush(p)
    \/ \E k \in topic : Redeliver(k)

PushStep(p) ==
    \/ BeginPush(p) \/ PushToUser(p) \/ CommitPush(p) \/ PushFails(p) \/ LosePushLock(p)
    \/ \E k \in published : OfferOffline(k, p)

DNext ==
    \/ SenderStep /\ UNCHANGED deliveryVars
    \/ \E w \in Workers : LocalWorkerStep(w) /\ UNCHANGED deliveryVars
    \/ \E w \in Workers : Announce(w)
    \/ (DeleteFriend \/ BecomeFriends) /\ UNCHANGED deliveryVars
    \/ \E k \in device : ReadForAck(k) /\ UNCHANGED deliveryVars
    \/ \E k \in acks : (CommitAck(k) \/ AckFails(k)) /\ UNCHANGED deliveryVars
    \/ LaneStep
    \/ \E p \in Pushers : PushStep(p)
    \/ DCrash

DSpec == DInit /\ [][DNext]_allVars

(* Fairness.  The loops of OutboxWorker::Run and of the consumer lane go on *)
(* (weak fairness); a step that waits for a row lock, for a free call or    *)
(* for a worker's attention gets its turn among those that compete with it  *)
(* (strong fairness: InnoDB grants waiting locks in order, ClaimOutboxTask  *)
(* takes the row that is due longest).  Nothing is owed by senders, by      *)
(* friend commands, by acknowledgements or by failures.                     *)
WorkerFairness ==
    \A w \in Workers :
        /\ \A t \in Task : SF_allVars(ClaimOutboxTask(w, t) /\ UNCHANGED deliveryVars)
        /\ SF_allVars((BeginPersist(w) \/ BeginDispatch(w)) /\ UNCHANGED deliveryVars)
        /\ WF_allVars(/\ \/ SaveBody(w) \/ CommitPersist(w) \/ PublishMessage(w)
                         \/ CacheBody(w) \/ CommitReschedule(w)
                         \/ CleanCache(w) \/ CleanBody(w)
                         \/ MarkDelivered(w) \/ Uncache(w) \/ CommitSettle(w)
                         \/ RetryOutboxTask(w) \/ NotifySender(w)
                      /\ UNCHANGED deliveryVars)
        /\ WF_allVars(Announce(w))

(* A delivery that has the pair lock ends: the gateway call has a deadline. *)
LockHolderFairness == \A p \in Pushers : WF_allVars(PushToUser(p) \/ CommitPush(p))

(* The lane works on, and the receiver logs in again and again.             *)
DeliveryFairness ==
    /\ \A k \in Keys : WF_allVars(Fetch(k))
    /\ WF_allVars(SkipDone)
    /\ SF_allVars(Confirm)
    /\ \A p \in Pushers :
        /\ SF_allVars(CallPush(p))
        /\ SF_allVars(BeginPush(p))
        /\ \A k \in Keys : SF_allVars(OfferOffline(k, p))

-----------------------------------------------------------------------------
(* Type invariant of the added state.                                       *)
DTypeOK ==
    /\ TypeOK
    /\ todo \subseteq topic
    /\ device \subseteq Keys
    /\ lane \in [pc : {"idle", "loaded", "calling", "confirm"},
                 key : Keys \cup {None}, slot : Pushers \cup {None}]
    /\ call \in [Pushers -> [pc : {"free", "queued", "open", "sent"},
                             key : Keys \cup {None}]]

(* What is checked under the pair lock is still true when the message goes  *)
(* to the device: the friendship stands, the message is above the deletion  *)
(* mark, persisted, not cancelled and not acknowledged, although            *)
(* ConfirmMessageDispatch, claims and retries go on without that lock.      *)
DeliveredWhileAllowed ==
    \A p \in Pushers : call[p].pc = "open" => Allowed(call[p].key)

(* The composition implements Outbox: consumer, push server and receiver    *)
(* touch the outbox only through the steps Outbox grants its environment,   *)
(* so what is proved of Outbox holds of the composed system.                *)
ImplementsOutbox == Spec

(* Every accepted message is delivered to the device or cancelled by a      *)
(* friend deletion, over all failures, crashes and offline times.           *)
DeliveredOrCancelled ==
    \A k \in Keys : Exists(k) ~> (k \in device \/ state[Msg(k)] = "cancelled")

(* The outbox drains: with finitely many ids handed out, a time comes when  *)
(* every message, cleanup and receipt task is done or cancelled, and no     *)
(* retry, expired lease or late confirmation revives one.                   *)
EventuallySettled == <>[](\A t \in Task : state[t] \notin {"pending", "claimed"})
=============================================================================
