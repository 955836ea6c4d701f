------------------------------ MODULE Gateway -------------------------------
(* The WebSocket gateway as one account sees it: the successive (and        *)
(* possibly overlapping) connections of the account, WSSession, the entry   *)
(* of the account in WSSessionManager::sessions_, the online flag kept in   *)
(* Redis, the scan of unacknowledged messages that follows a login, and the *)
(* online push of PushServer::PushMsg that reads the flag.                  *)
(*                                                                          *)
(* Every session runs on a strand of its own, so a step of a session is the *)
(* code between two co_awaits.  A setex is in flight from its co_await      *)
(* until it lands or fails; RedisConnector spreads the calls over four      *)
(* connections, so writes in flight land in any order.                      *)
(*                                                                          *)
(* Messages are numbered by their seq.  Each has a sender of its own, that  *)
(* is, an account-pair lock of its own: messages of one sender exclude each *)
(* other more often, never less.                                            *)
EXTENDS Integers, Sequences, FiniteSetsExt

CONSTANTS
    Sessions,   \* the connections the account opens
    None,       \* no session is registered
    MaxMsgs,    \* bound: single-chat messages to the account
    Batch,      \* batchSize of scanOfflineMessages
    QueueCap,   \* capacity of write_queue_
    RedisEvents \* bound: which events touch the online flag besides logins
                \* and disconnections (a subset of AllRedisEvents)

(* A heartbeat refreshes the flag, CheckUserOnline caches "0", a setex call *)
(* fails, the flag's TTL runs out.                                          *)
AllRedisEvents == {"ping", "check", "fail", "expire"}

ASSUME GatewayAssumption ==
    /\ MaxMsgs \in Nat /\ Batch \in Nat \ {0} /\ QueueCap \in Nat \ {0}
    /\ None \notin Sessions /\ RedisEvents \subseteq AllRedisEvents

VARIABLES
    registered, \* WSSessionManager::sessions_[account]
    conn,       \* login of a session: "new", "auth" (setex awaited), "open"
    down,       \* disconnected_
    queue,      \* write_queue_
    posted,     \* messages posted to the session's strand by asyncSend
    pending,    \* keys of pendingOfflineMsgs_
    scan,       \* scanOfflineMessages: where it is, its cursor, its batch, and
                \* (history) the messages published when it began
    acking,     \* handleAck of the read loop
    flag,       \* Redis user:<account>:online
    writes,     \* setex calls in flight
    body,       \* "none", "published" (Mongo committed), "gone" (deleted)
    push,       \* PushMsg of a message: "none", "online", "done"
    acked,      \* im_message_receipts
    got,        \* history: messages a session wrote to its client
    complete,   \* history: sessions that queued "offline sync complete"
    deferred,   \* history: messages whose push missed an open session
    latest      \* history: the session that registered last

sessionVars == <<registered, latest>>
frameVars == <<queue, posted, pending>>
redisVars == <<flag, writes>>
messageVars == <<body, push, deferred>>
scanVars == <<scan, complete>>
ackVars == <<acking, acked>>
vars == <<sessionVars, conn, down, frameVars, scanVars, ackVars, redisVars,
          messageVars, got>>

Msgs == 1..MaxMsgs
Note == 0                   \* any frame that carries no message
Idle == [msg |-> 0, left |-> 0, saved |-> FALSE]
Scan(at) == [at |-> at, after |-> 0, rest |-> {}, start |-> {}]
Over == Scan("end")         \* its locals are gone

Writes == (Sessions \X {"auth", "beat", "drop"}) \cup {<<None, "check">>}
Value(w) == IF w[2] \in {"auth", "beat"} THEN "1" ELSE "0"

TypeOK ==
    /\ registered \in Sessions \cup {None} /\ latest \in Sessions \cup {None}
    /\ conn \in [Sessions -> {"new", "auth", "open"}]
    /\ down \in [Sessions -> BOOLEAN]
    /\ queue \in [Sessions -> Seq(Msgs \cup {Note})]
    /\ \A s \in Sessions : Len(queue[s]) <= QueueCap
    /\ posted \in [Sessions -> SUBSET Msgs]
    /\ pending \in [Sessions -> SUBSET Msgs]
    /\ scan \in [Sessions -> [at : {"off", "fetch", "check", "send", "end"},
                              after : Nat, rest : SUBSET Msgs,
                              start : SUBSET Msgs]]
    /\ acking \in [Sessions -> [msg : Nat, left : 0..2, saved : BOOLEAN]]
    /\ flag \in {"none", "0", "1"}
    /\ writes \subseteq Writes
    /\ body \in [Msgs -> {"none", "published", "gone"}]
    /\ push \in [Msgs -> {"none", "online", "done"}]
    /\ acked \subseteq Msgs /\ deferred \subseteq Msgs
    /\ got \in [Sessions -> SUBSET Msgs]
    /\ complete \subseteq Sessions

Init ==
    /\ registered = None /\ latest = None
    /\ conn = [s \in Sessions |-> "new"]
    /\ down = [s \in Sessions |-> FALSE]
    /\ queue = [s \in Sessions |-> <<>>]
    /\ posted = [s \in Sessions |-> {}] /\ pending = [s \in Sessions |-> {}]
    /\ scan = [s \in Sessions |-> Scan("off")]
    /\ acking = [s \in Sessions |-> Idle]
    /\ flag = "none" /\ writes = {}
    /\ body = [m \in Msgs |-> "none"] /\ push = [m \in Msgs |-> "none"]
    /\ acked = {} /\ deferred = {}
    /\ got = [s \in Sessions |-> {}]
    /\ complete = {}

-----------------------------------------------------------------------------
(* Closing a session, and its write queue.                                  *)

(* Mutant of Unregister: whatever session is registered is removed.         *)
UnregisterAny(s) == registered' = None

(* unregisterSession: only the session that is registered is removed.       *)
Unregister(s) == registered' = IF registered = s THEN None ELSE registered

(* onDisconnect up to its only co_await.  A second call changes nothing.    *)
OnDisconnect(s) ==
    /\ down' = [down EXCEPT ![s] = TRUE]
    /\ pending' = [pending EXCEPT ![s] = {}]
    /\ queue' = [queue EXCEPT ![s] = <<>>]
    /\ Unregister(s)
    /\ writes' = IF ~down[s] /\ registered = s THEN writes \cup {<<s, "drop">>}
                 ELSE writes

HasRoom(s) == ~down[s] /\ Len(queue[s]) < QueueCap

(* try_send of a frame, with what the session then waits for; a frame that  *)
(* does not fit closes the session.                                         *)
Offer(s, frame, waiting) ==
    IF HasRoom(s)
    THEN /\ queue' = [queue EXCEPT ![s] = Append(@, frame)]
         /\ pending' = [pending EXCEPT ![s] = waiting]
         /\ UNCHANGED <<registered, down, writes>>
    ELSE OnDisconnect(s)

(* doDrainWriteQueue: a frame reaches the client.                           *)
Drain(s) ==
    /\ ~down[s] /\ queue[s] # <<>>
    /\ queue' = [queue EXCEPT ![s] = Tail(@)]
    /\ got' = [got EXCEPT ![s] = @ \cup ({Head(queue[s])} \ {Note})]
    /\ UNCHANGED <<sessionVars, conn, down, posted, pending, scanVars, ackVars,
                   redisVars, messageVars>>

(* doDrainWriteQueue: async_write fails.                                    *)
DrainFails(s) ==
    /\ ~down[s] /\ queue[s] # <<>>
    /\ OnDisconnect(s)
    /\ UNCHANGED <<latest, conn, posted, scanVars, ackVars, flag, messageVars, got>>

-----------------------------------------------------------------------------
(* Login.                                                                   *)

(* handleAuth once the password or the token is accepted: the session takes *)
(* the place of the one registered, starts its write queue and awaits the   *)
(* setex of the online flag.                                                *)
HandleAuth(s) ==
    /\ conn[s] = "new"
    /\ conn' = [conn EXCEPT ![s] = "auth"]
    /\ registered' = s /\ latest' = s
    /\ writes' = writes \cup {<<s, "auth">>}
    /\ UNCHANGED <<down, frameVars, scanVars, ackVars, flag, messageVars, got>>

Published == {m \in Msgs : body[m] = "published"}

(* The rest of handleAuth: the answer is queued, the read loop and the scan *)
(* start.  The outcome of the setex is not looked at.                       *)
Greet(s) ==
    /\ conn[s] = "auth" /\ <<s, "auth">> \notin writes
    /\ conn' = [conn EXCEPT ![s] = "open"]
    /\ Offer(s, Note, pending[s])
    /\ scan' = [scan EXCEPT ![s] =
                    IF HasRoom(s) THEN [Scan("fetch") EXCEPT !.start = Published]
                    ELSE Over]
    /\ UNCHANGED <<latest, posted, complete, ackVars, flag, messageVars, got>>

-----------------------------------------------------------------------------
(* The read loop: heartbeats, acknowledgements, end of the connection.      *)

Reading(s) ==
    /\ conn[s] = "open" /\ ~down[s]
    /\ acking[s] = Idle /\ <<s, "beat">> \notin writes

(* Heartbeat: the pong is queued, then the flag renewed.  A session that    *)
(* was replaced does the same.                                              *)
Ping(s) ==
    /\ "ping" \in RedisEvents /\ Reading(s)
    /\ IF HasRoom(s)
       THEN /\ queue' = [queue EXCEPT ![s] = Append(@, Note)]
            /\ writes' = writes \cup {<<s, "beat">>}
            /\ UNCHANGED <<registered, down, pending>>
       ELSE OnDisconnect(s)
    /\ UNCHANGED <<latest, conn, posted, scanVars, ackVars, flag, messageVars, got>>

(* An ACK frame for a message the client has received on any connection;    *)
(* two attempts to persist it.                                              *)
HandleAck(s, m) ==
    /\ Reading(s)
    /\ \E t \in Sessions : m \in got[t]
    /\ acking' = [acking EXCEPT ![s] = [msg |-> m, left |-> 2, saved |-> FALSE]]
    /\ UNCHANGED <<sessionVars, conn, down, frameVars, scanVars, acked,
                   redisVars, messageVars, got>>

(* AckMsg answers OK: the receipt is in MySQL.                              *)
AckSaved(s) ==
    /\ acking[s].left > 0 /\ ~acking[s].saved
    /\ acked' = acked \cup {acking[s].msg}
    /\ acking' = [acking EXCEPT ![s].saved = TRUE]
    /\ UNCHANGED <<sessionVars, conn, down, frameVars, scanVars, redisVars,
                   messageVars, got>>

(* AckMsg fails, the receipt being written or not.                          *)
AckFails(s) ==
    /\ acking[s].left > 0 /\ ~acking[s].saved
    /\ acked' \in {acked, acked \cup {acking[s].msg}}
    /\ acking' = [acking EXCEPT ![s].left = @ - 1]
    /\ UNCHANGED <<sessionVars, conn, down, frameVars, scanVars, redisVars,
                   messageVars, got>>

(* Back on the strand: the message is no longer waited for.                 *)
AckReturns(s) ==
    /\ acking[s].saved
    /\ acking' = [acking EXCEPT ![s] = Idle]
    /\ pending' = [pending EXCEPT ![s] = @ \ {acking[s].msg}]
    /\ UNCHANGED <<sessionVars, conn, down, queue, posted, scanVars, acked,
                   redisVars, messageVars, got>>

(* async_read fails: the client has gone, or both attempts of handleAck     *)
(* failed and it closed the socket.                                         *)
ReadEnds(s) ==
    /\ ~down[s]
    /\ Reading(s) \/ (acking[s].msg # 0 /\ acking[s].left = 0)
    /\ OnDisconnect(s)
    /\ acking' = [acking EXCEPT ![s] = Idle]
    /\ UNCHANGED <<latest, conn, posted, scanVars, acked, flag, messageVars, got>>

-----------------------------------------------------------------------------
(* The scan of offline messages.  `after` is advanced message by message:   *)
(* the code's `next`, which becomes its `after` at the end of the batch,    *)
(* the only time either is read again.                                      *)

(* WithFriendMessage(..., true) under the pair lock.                        *)
Deliverable(m) == body[m] = "published" /\ m \notin acked

FirstBatch(S) == {m \in S : Cardinality({n \in S : n <= m}) <= Batch}

(* What Mongo may return after a cursor: its status lags the receipts, and  *)
(* deleted messages are erased later, so those may be missing or not.       *)
Candidates(after) ==
    {{m \in Msgs : body[m] # "none" /\ m > after} \ hidden :
        hidden \in SUBSET {m \in Msgs : m \in acked \/ body[m] = "gone"}}

(* fetch returns messages.                                                  *)
Fetch(s) ==
    /\ scan[s].at = "fetch" /\ ~down[s]
    /\ \E C \in Candidates(scan[s].after) :
        /\ C # {}
        /\ scan' = [scan EXCEPT ![s].at = "check", ![s].rest = FirstBatch(C)]
    /\ UNCHANGED <<sessionVars, conn, down, frameVars, complete, ackVars,
                   redisVars, messageVars, got>>

(* fetch returns nothing: "offline sync complete" is queued.                *)
SyncComplete(s) ==
    /\ scan[s].at = "fetch" /\ ~down[s]
    /\ {} \in Candidates(scan[s].after)
    /\ Offer(s, Note, pending[s])
    /\ scan' = [scan EXCEPT ![s] =
                    IF HasRoom(s) THEN [Over EXCEPT !.start = scan[s].start] ELSE Over]
    /\ complete' = IF HasRoom(s) THEN complete \cup {s} ELSE complete
    /\ UNCHANGED <<latest, conn, posted, ackVars, flag, messageVars, got>>

(* deliverOfflineMessage: the checks in MySQL, taking the pair lock of the  *)
(* message if it is to be sent.                                             *)
CheckNext(s) ==
    /\ scan[s].at = "check" /\ scan[s].rest # {} /\ ~down[s]
    /\ LET m == Min(scan[s].rest) IN
       /\ push[m] # "online"
       /\ IF Deliverable(m) THEN scan' = [scan EXCEPT ![s].at = "send"]
          ELSE scan' = [scan EXCEPT ![s].rest = @ \ {m}, ![s].after = m]
    /\ UNCHANGED <<sessionVars, conn, down, frameVars, complete, ackVars,
                   redisVars, messageVars, got>>

(* deliverOfflineMessage back on the strand: the message is registered as   *)
(* waiting for its ACK, then queued.                                        *)
SendNext(s) ==
    /\ scan[s].at = "send" /\ ~down[s]
    /\ LET m == Min(scan[s].rest) IN
       /\ Offer(s, m, pending[s] \cup {m})
       /\ scan' = [scan EXCEPT ![s] =
                       IF HasRoom(s)
                       THEN [scan[s] EXCEPT !.at = "check", !.rest = @ \ {m}, !.after = m]
                       ELSE Over]
    /\ UNCHANGED <<latest, conn, posted, complete, ackVars, flag,
                   messageVars, got>>

BatchSent(s) == scan[s].at = "check" /\ scan[s].rest = {} /\ ~down[s]

(* Mutant of BatchAcked: the batch is not waited for.                       *)
BatchUnawaited(s) ==
    /\ BatchSent(s)
    /\ scan' = [scan EXCEPT ![s].at = "fetch"]
    /\ UNCHANGED <<sessionVars, conn, down, frameVars, complete, ackVars,
                   redisVars, messageVars, got>>

(* waitOfflineBatch: nothing is waited for any more.                        *)
BatchAcked(s) ==
    /\ BatchSent(s) /\ pending[s] = {}
    /\ scan' = [scan EXCEPT ![s].at = "fetch"]
    /\ UNCHANGED <<sessionVars, conn, down, frameVars, complete, ackVars,
                   redisVars, messageVars, got>>

(* Mutant of BatchTimesOut: the session waits on.                           *)
BatchWaitsOn(s) == BatchSent(s) /\ pending[s] # {} /\ UNCHANGED vars

(* waitOfflineBatch: 60 s have passed.                                      *)
BatchTimesOut(s) ==
    /\ BatchSent(s) /\ pending[s] # {}
    /\ OnDisconnect(s)
    /\ scan' = [scan EXCEPT ![s] = Over]
    /\ UNCHANGED <<latest, conn, posted, complete, ackVars, flag,
                   messageVars, got>>

(* Mongo or MySQL fails: SYNC_ERROR is queued and the session stays.        *)
ScanFails(s) ==
    /\ scan[s].at \in {"fetch", "check", "send"} /\ ~down[s]
    /\ scan[s].at = "check" => scan[s].rest # {}
    /\ Offer(s, Note, pending[s])
    /\ scan' = [scan EXCEPT ![s] = Over]
    /\ UNCHANGED <<latest, conn, posted, complete, ackVars, flag,
                   messageVars, got>>

(* The scan notices that its session is down.                               *)
ScanStops(s) ==
    /\ scan[s].at \in {"fetch", "check", "send"} /\ down[s]
    /\ scan' = [scan EXCEPT ![s] = Over]
    /\ UNCHANGED <<sessionVars, conn, down, frameVars, complete, ackVars,
                   redisVars, messageVars, got>>

-----------------------------------------------------------------------------
(* Messages: the outbox publishes them, deleting the friend cancels them,   *)
(* PushMsg tries to deliver them online.                                    *)

(* The outbox publishes a message whose row has reached stage 1.            *)
PublishMessage(m) ==
    /\ body[m] = "none"
    /\ body' = [body EXCEPT ![m] = "published"]
    /\ UNCHANGED <<sessionVars, conn, down, frameVars, scanVars, ackVars,
                   redisVars, push, deferred, got>>

PairLocked(m) ==
    \/ push[m] = "online"
    \/ \E s \in Sessions : scan[s].at = "send" /\ Min(scan[s].rest) = m

DeleteFriend(m) ==
    /\ body[m] = "published" /\ ~PairLocked(m)
    /\ body' = [body EXCEPT ![m] = "gone"]
    /\ UNCHANGED <<sessionVars, conn, down, frameVars, scanVars, ackVars,
                   redisVars, push, deferred, got>>

(* A session past its login, which therefore may not scan again.            *)
Served == registered # None /\ conn[registered] = "open"

(* PushMsg reads the flag under the pair lock.                              *)
ReadFlag(m) ==
    /\ body[m] # "none" /\ push[m] = "none" /\ ~PairLocked(m)
    /\ push' = [push EXCEPT ![m] = IF Deliverable(m) /\ flag = "1" THEN "online"
                                   ELSE "done"]
    /\ deferred' = IF flag # "1" /\ Served THEN deferred \cup {m} ELSE deferred
    /\ UNCHANGED <<sessionVars, conn, down, frameVars, scanVars, ackVars,
                   redisVars, body, got>>

(* GatewayPushServer::PushToUser and pushToUser: asyncSend posts to the     *)
(* session registered, if any.                                              *)
PushToUser(m) ==
    /\ push[m] = "online"
    /\ push' = [push EXCEPT ![m] = "done"]
    /\ posted' = IF registered = None THEN posted
                 ELSE [posted EXCEPT ![registered] = @ \cup {m}]
    /\ UNCHANGED <<sessionVars, conn, down, queue, pending, scanVars, ackVars,
                   redisVars, body, deferred, got>>

(* The RPC to the gateway fails: taken for an offline user.                 *)
PushFails(m) ==
    /\ push[m] = "online"
    /\ push' = [push EXCEPT ![m] = "done"]
    /\ deferred' = IF Served THEN deferred \cup {m} ELSE deferred
    /\ UNCHANGED <<sessionVars, conn, down, frameVars, scanVars, ackVars,
                   redisVars, body, got>>

(* Mutant of AsyncSend: a frame that does not fit is dropped.               *)
AsyncSendDrops(s, m) ==
    /\ m \in posted[s]
    /\ posted' = [posted EXCEPT ![s] = @ \ {m}]
    /\ queue' = [queue EXCEPT ![s] = IF HasRoom(s) THEN Append(@, m) ELSE @]
    /\ UNCHANGED <<sessionVars, conn, down, pending, scanVars, ackVars, redisVars,
                   messageVars, got>>

(* The handler asyncSend posted runs on the strand.                         *)
AsyncSend(s, m) ==
    /\ m \in posted[s]
    /\ posted' = [posted EXCEPT ![s] = @ \ {m}]
    /\ Offer(s, m, pending[s])
    /\ UNCHANGED <<latest, conn, scanVars, ackVars, flag, messageVars, got>>

-----------------------------------------------------------------------------
(* Redis.                                                                   *)

Lands(w) ==
    /\ writes' = writes \ {w}
    /\ flag' = Value(w)
    /\ UNCHANGED <<sessionVars, conn, down, frameVars, scanVars, ackVars,
                   messageVars, got>>

(* The call fails, which every caller only logs.                            *)
IsLost(w) ==
    /\ "fail" \in RedisEvents
    /\ writes' = writes \ {w}
    /\ UNCHANGED <<sessionVars, conn, down, frameVars, scanVars, ackVars, flag,
                   messageVars, got>>

Expires ==
    /\ "expire" \in RedisEvents /\ flag # "none" /\ flag' = "none"
    /\ UNCHANGED <<sessionVars, conn, down, frameVars, scanVars, ackVars, writes,
                   messageVars, got>>

(* CheckUserOnline reads a flag that is not "1" and goes on to cache "0".   *)
CheckUserOnline ==
    /\ "check" \in RedisEvents /\ flag # "1"
    /\ writes' = writes \cup {<<None, "check">>}
    /\ UNCHANGED <<sessionVars, conn, down, frameVars, scanVars, ackVars, flag,
                   messageVars, got>>

-----------------------------------------------------------------------------
SessionStep(s) ==
    \/ HandleAuth(s) \/ Greet(s) \/ Drain(s) \/ DrainFails(s)
    \/ Ping(s) \/ AckSaved(s) \/ AckFails(s) \/ AckReturns(s) \/ ReadEnds(s)
    \/ Fetch(s) \/ SyncComplete(s) \/ CheckNext(s) \/ SendNext(s)
    \/ BatchAcked(s) \/ BatchTimesOut(s) \/ ScanFails(s) \/ ScanStops(s)
    \/ \E m \in Msgs : HandleAck(s, m) \/ AsyncSend(s, m)

MessageStep(m) ==
    PublishMessage(m) \/ DeleteFriend(m) \/ ReadFlag(m) \/ PushToUser(m) \/ PushFails(m)

Next ==
    \/ \E s \in Sessions : SessionStep(s)
    \/ \E m \in Msgs : MessageStep(m)
    \/ \E w \in writes : Lands(w) \/ IsLost(w)
    \/ Expires \/ CheckUserOnline

Spec == Init /\ [][Next]_vars

(* Fairness: the strands run what is ready, MySQL and Mongo calls return or *)
(* fail, Redis calls return or fail, and the 60 s timer fires.  Nothing is  *)
(* assumed of the client.                                                   *)
ScanStep(s) ==
    \/ Fetch(s) \/ SyncComplete(s) \/ CheckNext(s) \/ SendNext(s)
    \/ BatchAcked(s) \/ BatchTimesOut(s) \/ ScanStops(s)

LiveSpec ==
    /\ Spec
    /\ \A s \in Sessions : WF_vars(Greet(s)) /\ WF_vars(ScanStep(s))
    /\ \A s \in Sessions :
          WF_vars(<<s, "auth">> \in writes /\ (Lands(<<s, "auth">>) \/ IsLost(<<s, "auth">>)))
    /\ \A m \in Msgs : WF_vars(PushToUser(m) \/ PushFails(m))

-----------------------------------------------------------------------------
(* The session that registered last stays registered until it goes down     *)
(* itself: onDisconnect of a session that was replaced removes nothing.     *)
NewestStays ==
    latest # None => registered = IF down[latest] THEN None ELSE latest

(* "Offline sync complete" is queued only when every message that was       *)
(* published before the scan began has a durable receipt, or was deleted.   *)
CompleteMeansAcked ==
    \A s \in complete : \A m \in scan[s].start : m \in acked \/ body[m] = "gone"

(* No message is stranded: once the registered session has synchronised,    *)
(* every message whose push is over and that has no receipt is on its way   *)
(* to, or has reached, that session's client, unless its push found no use  *)
(* for the open session (a wrong flag or a failed call, see deferred).      *)
NoneStranded ==
    \A m \in Msgs :
        (push[m] = "done" /\ Deliverable(m) /\ m \notin deferred
            /\ registered \in complete)
        => \/ m \in posted[registered] \cup got[registered]
           \/ \E i \in DOMAIN queue[registered] : queue[registered][i] = m

(* An account whose registered session is open is not marked offline: a     *)
(* session sets "0" only while it is still the active one.  Stated for      *)
(* Redis calls that all succeed and without CheckUserOnline.                *)
OpenIsNotOffline ==
    (registered # None /\ conn[registered] = "open") => flag # "0"

(* Every login ends: with the session down, or its scan over.               *)
LoginSettles ==
    \A s \in Sessions : conn[s] = "auth" ~> (down[s] \/ scan[s].at = "end")
=============================================================================
