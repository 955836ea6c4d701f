--------------------------- MODULE MCDeliveryLive ---------------------------
(* Liveness of Delivery for TLC.                                            *)
EXTENDS Delivery

CONSTANT MaxFaults   \* bound: failures in a behaviour of LiveSpec

VARIABLE faults

(* For liveness: one message has just been accepted and its sender is gone; *)
(* with MaxSends = 0 the only id left to hand out marks a friend deletion.  *)
AcceptedInit ==
    /\ friends = TRUE /\ deletedSeq = 0 /\ lastId = 1
    /\ sends = {} /\ polls = {} /\ told = {}
    /\ seq = [k \in Keys |-> 1]
    /\ content \in [Keys -> Contents]
    /\ stage = [k \in Keys |-> 0]
    /\ dispatchDone = {}
    /\ state = [t \in Task |-> IF t \in MsgTask THEN "pending" ELSE "absent"]
    /\ lease = [t \in Task |-> None]
    /\ receipts = {} /\ acks = {}
    /\ saved = {} /\ published = {} /\ received = {}
    /\ cache = {} /\ topic = {}
    /\ pairLock = None
    /\ pc = [w \in Workers |-> "idle"]
    /\ task = [w \in Workers |-> None]
    /\ todo = {} /\ device = {}
    /\ lane = IdleLane
    /\ call = [p \in Pushers |-> FreeCall]

(* Failures are rare enough that the retries get through: at most MaxFaults *)
(* steps fail, crash, lose a COMMIT's answer or find the receiver offline.  *)
WorkerFault(w) == pc'[w] = "retry" \/ (pc[w] = "retry" /\ pc'[w] = "idle")

Reached(p) == call[p].key \in device'

Fault ==
    \/ \E w \in Workers : LocalWorkerStep(w) /\ WorkerFault(w) /\ UNCHANGED deliveryVars
    \/ LaneFails \/ DCrash
    \/ \E p \in Pushers : PushFails(p) \/ (PushToUser(p) /\ ~Reached(p))

Work ==
    \/ \E w \in Workers : LocalWorkerStep(w) /\ ~WorkerFault(w) /\ UNCHANGED deliveryVars
    \/ \E w \in Workers : Announce(w)
    \/ (DeleteFriend \/ BecomeFriends) /\ UNCHANGED deliveryVars
    \/ \E k \in device : ReadForAck(k) /\ UNCHANGED deliveryVars
    \/ \E k \in acks : (CommitAck(k) \/ AckFails(k)) /\ UNCHANGED deliveryVars
    \/ \E k \in todo : Fetch(k)
    \/ SkipDone \/ Confirm
    \/ \E k \in topic : Redeliver(k)
    \/ \E p \in Pushers :
        \/ CallPush(p) \/ BeginPush(p) \/ CommitPush(p)
        \/ PushToUser(p) /\ Reached(p)
        \/ \E k \in published : OfferOffline(k, p)

LiveInit == AcceptedInit /\ faults = 0

LiveNext ==
    \/ Work /\ UNCHANGED faults
    \/ Fault /\ faults < MaxFaults /\ faults' = faults + 1

Behaviours == LiveInit /\ [][LiveNext]_<<allVars, faults>>

LiveSpec == Behaviours /\ WorkerFairness /\ LockHolderFairness /\ DeliveryFairness
=============================================================================
