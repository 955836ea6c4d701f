--------------------------- MODULE GatewayProofs ----------------------------
(***************************************************************************)
(* The gateway, for any number of connections, messages, batch sizes and    *)
(* queue capacities, and whatever Redis does: the newest login keeps the    *)
(* account, "offline sync complete" is true when it is said, and no message *)
(* is stranded between the scan that follows a login and the online push.   *)
(***************************************************************************)
EXTENDS Gateway, FiniteSetTheorems, WellFoundedInduction, TLAPS

-----------------------------------------------------------------------------
(* The inductive invariant.                                                 *)

Scanning(s) == scan[s].at \in {"fetch", "check", "send"}

(* A session before its login has nothing, and a session that completed its *)
(* synchronisation is open and its scan is over.                            *)
SessionsOK ==
    /\ registered # None => latest = registered
    /\ \A s \in Sessions :
        /\ conn[s] = "new" =>
              ~down[s] /\ queue[s] = <<>> /\ posted[s] = {} /\ latest # s
        /\ conn[s] # "open" => scan[s].at = "off" /\ pending[s] = {} /\ acking[s] = Idle
        /\ s \in complete => conn[s] = "open" /\ scan[s].at = "end"

(* A message whose push has begun is published, a session acknowledges only *)
(* messages, and a receipt a session has been told of is in MySQL.          *)
MessagesOK ==
    /\ \A m \in Msgs : body[m] = "none" => push[m] = "none"
    /\ \A s \in Sessions :
        /\ acking[s].saved => acking[s].msg \in acked
        /\ acking[s].left > 0 => acking[s].msg \in Msgs

Settled(m) == m \in acked \/ body[m] = "gone"

(* Where a message that was published when the scan of s began may be: it   *)
(* is settled, it was sent and its ACK is waited for, it is in the batch    *)
(* being sent, or it is still ahead of the batch.                           *)
Accounted(s, m) ==
    \/ Settled(m) \/ m \in pending[s] \/ m \in scan[s].rest
    \/ m > scan[s].after /\ \A n \in scan[s].rest : n < m

ScanOK(s) ==
    Scanning(s) =>
        /\ \A m \in scan[s].start : body[m] # "none"
        /\ \A n \in scan[s].rest : n > scan[s].after
        /\ scan[s].at = "fetch" => scan[s].rest = {}
        /\ scan[s].at = "send" => scan[s].rest # {}
        /\ ~down[s] =>
              /\ scan[s].at = "fetch" => pending[s] = {}
              /\ \A m \in scan[s].start : Accounted(s, m)

ScansOK == \A s \in Sessions : ScanOK(s)

(* A message on its way to the client of s, or arrived.                     *)
Queued(s, m) == \E i \in DOMAIN queue[s] : queue[s][i] = m

Carried(s, m) == m \in posted[s] \cup got[s] \/ Queued(s, m)

(* A message that only the online push can bring to s: s is registered and  *)
(* open, its scan has not failed and does not cover the message, and the    *)
(* push is over and found nothing wrong.                                    *)
Due(s, m) ==
    /\ registered = s /\ conn[s] = "open" /\ (Scanning(s) \/ s \in complete)
    /\ m \notin scan[s].start
    /\ push[m] = "done" /\ Deliverable(m) /\ m \notin deferred

PushesReach == \A s \in Sessions, m \in Msgs : Due(s, m) => Carried(s, m)

Inv == /\ TypeOK /\ SessionsOK /\ NewestStays /\ MessagesOK /\ ScansOK
       /\ CompleteMeansAcked /\ PushesReach

-----------------------------------------------------------------------------
(* Lemmas about the operators.                                              *)

(* The least element of a set of message numbers.                           *)
LEMMA LeastMessage ==
    ASSUME NEW S, S \subseteq Msgs, S # {}
    PROVE  Min(S) \in S /\ \A n \in S : Min(S) <= n
<1> USE GatewayAssumption DEF Msgs
<1> DEFINE R == OpToRel(<, Nat)
<1>0. S \subseteq Nat
  OBVIOUS
<1>1. IsWellFoundedOn(R, Nat)
  BY NatLessThanWellFounded
<1>2. \A x, y \in Nat : <<y, x>> \in R <=> y < x
  BY DEF OpToRel
<1> HIDE DEF R
<1>3. PICK x \in S : \A y \in S : ~ (<<y, x>> \in R)
  BY <1>0, <1>1, WFMin
<1>4. ASSUME NEW y \in S PROVE x <= y
  <2>1. x \in Nat /\ y \in Nat
    BY <1>0
  <2>2. ~(y < x)
    BY <1>2, <1>3, <2>1
  <2> QED BY <2>1, <2>2
<1> QED BY <1>4 DEF Min

(* What is left out of a batch comes after all of it.                       *)
LEMMA BatchIsFirst ==
    ASSUME NEW C, C \subseteq Msgs
    PROVE  /\ FirstBatch(C) \subseteq C
           /\ \A m \in C \ FirstBatch(C) : \A n \in FirstBatch(C) : n < m
<1> USE GatewayAssumption
<1> DEFINE UpTo(m) == {n \in C : n <= m}
<1>1. IsFiniteSet(C)
  <2>1. IsFiniteSet(Msgs)
    BY FS_Interval DEF Msgs
  <2> QED BY <2>1, FS_Subset
<1>2. \A m \in C : IsFiniteSet(UpTo(m)) /\ Cardinality(UpTo(m)) \in Nat
  BY <1>1, FS_Subset, FS_CardinalityType
<1>3. ASSUME NEW m \in C, NEW n \in C, m <= n
      PROVE  Cardinality(UpTo(m)) <= Cardinality(UpTo(n))
  <2>1. C \subseteq Int
    BY DEF Msgs
  <2>2. UpTo(m) \subseteq UpTo(n)
    <3> SUFFICES ASSUME NEW k \in UpTo(m) PROVE k \in UpTo(n)
      OBVIOUS
    <3>1. k \in C /\ k <= m /\ k \in Int /\ m \in Int /\ n \in Int
      BY <2>1
    <3>2. k <= n
      BY <1>3, <3>1
    <3> QED BY <3>1, <3>2
  <2> QED BY <1>2, <2>2, FS_Subset
<1>4. \A m \in C : m \in FirstBatch(C) <=> Cardinality(UpTo(m)) <= Batch
  BY DEF FirstBatch
<1> HIDE DEF UpTo
<1>5. FirstBatch(C) \subseteq C
  BY DEF FirstBatch
<1>6. ASSUME NEW m \in C \ FirstBatch(C), NEW n \in FirstBatch(C) PROVE n < m
  <2>1. n \in C /\ Cardinality(UpTo(n)) <= Batch /\ ~(Cardinality(UpTo(m)) <= Batch)
    BY <1>4, <1>5
  <2>2. ~(m <= n)
    BY <1>2, <1>3, <2>1
  <2> QED BY <2>1, <2>2 DEF Msgs
<1> QED BY <1>5, <1>6

-----------------------------------------------------------------------------
(* Types.                                                                   *)

Frames == Msgs \cup {Note}
ScanRecord == [at : {"off", "fetch", "check", "send", "end"}, after : Nat,
               rest : SUBSET Msgs, start : SUBSET Msgs]
AckRecord == [msg : Nat, left : 0..2, saved : BOOLEAN]

(* The part of TypeOK that closing a session and queueing a frame touch.    *)
FrameTypes ==
    /\ registered \in Sessions \cup {None} /\ down \in [Sessions -> BOOLEAN]
    /\ queue \in [Sessions -> Seq(Frames)]
    /\ \A s \in Sessions : Len(queue[s]) <= QueueCap
    /\ pending \in [Sessions -> SUBSET Msgs] /\ writes \subseteq Writes

LEMMA DisconnectTypes ==
    ASSUME TypeOK, NEW s \in Sessions, OnDisconnect(s) PROVE FrameTypes'
<1> USE GatewayAssumption DEF TypeOK, FrameTypes, OnDisconnect, Unregister, Frames
<1>1. <<>> \in Seq(Frames) /\ Len(<<>>) = 0
  OBVIOUS
<1>2. <<s, "drop">> \in Writes
  BY DEF Writes
<1>3. queue' \in [Sessions -> Seq(Frames)] /\ \A t \in Sessions : Len(queue'[t]) <= QueueCap
  BY <1>1
<1>4. writes' \subseteq Writes
  BY <1>2
<1> QED BY <1>3, <1>4

LEMMA AppendTypes ==
    ASSUME TypeOK, NEW s \in Sessions, NEW frame \in Frames, HasRoom(s),
           queue' = [queue EXCEPT ![s] = Append(@, frame)]
    PROVE  /\ queue' \in [Sessions -> Seq(Frames)]
           /\ \A t \in Sessions : Len(queue'[t]) <= QueueCap
<1> USE GatewayAssumption DEF TypeOK, Frames, HasRoom
<1>1. /\ Append(queue[s], frame) \in Seq(Frames)
      /\ Len(Append(queue[s], frame)) = Len(queue[s]) + 1 /\ Len(queue[s]) \in Nat
  OBVIOUS
<1>2. ASSUME NEW t \in Sessions
      PROVE  queue'[t] \in Seq(Frames) /\ Len(queue'[t]) <= QueueCap
  <2>1. CASE t = s
    BY <1>1, <2>1
  <2>2. CASE t # s
    BY <2>2
  <2> QED BY <2>1, <2>2
<1> QED BY <1>2

LEMMA OfferTypes ==
    ASSUME TypeOK, NEW s \in Sessions, NEW frame \in Frames, NEW waiting \in SUBSET Msgs,
           Offer(s, frame, waiting)
    PROVE  FrameTypes'
<1>1. CASE HasRoom(s)
  <2>1. /\ queue' \in [Sessions -> Seq(Frames)]
        /\ \A t \in Sessions : Len(queue'[t]) <= QueueCap
    BY <1>1, AppendTypes DEF Offer
  <2> QED BY <1>1, <2>1 DEF Offer, TypeOK, FrameTypes
<1>2. CASE ~HasRoom(s)
  BY <1>2, DisconnectTypes DEF Offer
<1> QED BY <1>1, <1>2

(* Moves of a scan's cursor and batch stay in its type.                     *)
LEMMA ScanMoves ==
    ASSUME NEW r \in ScanRecord, NEW m \in Msgs,
           NEW at \in {"off", "fetch", "check", "send", "end"}
    PROVE  /\ m \in Nat
           /\ [r EXCEPT !.at = at] \in ScanRecord
           /\ [r EXCEPT !.rest = r.rest \ {m}, !.after = m] \in ScanRecord
           /\ [r EXCEPT !.at = at, !.rest = r.rest \ {m}, !.after = m] \in ScanRecord
<1>1. m \in Nat
  BY GatewayAssumption DEF Msgs
<1> QED BY <1>1 DEF ScanRecord

(* Every step keeps the types.                                              *)
LEMMA TypeStep ==
    ASSUME Inv, [Next]_vars PROVE TypeOK'
<1> USE GatewayAssumption DEF Inv, TypeOK, FrameTypes, Frames, sessionVars, frameVars,
      redisVars, messageVars, scanVars, ackVars
<1>1. ASSUME NEW s \in Sessions, HandleAuth(s) PROVE TypeOK'
  BY <1>1 DEF HandleAuth, Writes
<1>2. ASSUME NEW s \in Sessions, Greet(s) PROVE TypeOK'
  <2>1. FrameTypes'
    BY <1>2, OfferTypes DEF Greet, TypeOK, Frames
  <2>2. scan' \in [Sessions -> ScanRecord]
    <3>1. Over \in ScanRecord /\ [Scan("fetch") EXCEPT !.start = Published] \in ScanRecord
      BY DEF Over, Scan, ScanRecord, Published
    <3> QED BY <1>2, <3>1 DEF Greet, ScanRecord
  <2> QED BY <1>2, <2>1, <2>2 DEF Greet, ScanRecord
<1>3. ASSUME NEW s \in Sessions, Drain(s) PROVE TypeOK'
  <2>1. /\ Tail(queue[s]) \in Seq(Frames) /\ Len(Tail(queue[s])) <= Len(queue[s])
        /\ Len(queue[s]) \in Nat /\ Head(queue[s]) \in Frames
    BY <1>3 DEF Drain
  <2>2. /\ queue' \in [Sessions -> Seq(Frames)]
        /\ \A t \in Sessions : Len(queue'[t]) <= QueueCap
    <3>1. ASSUME NEW t \in Sessions
          PROVE  queue'[t] \in Seq(Frames) /\ Len(queue'[t]) <= QueueCap
      <4>1. CASE t = s
        BY <1>3, <2>1, <4>1 DEF Drain
      <4>2. CASE t # s
        BY <1>3, <4>2 DEF Drain
      <4> QED BY <4>1, <4>2
    <3> QED BY <1>3, <3>1 DEF Drain
  <2>3. got' \in [Sessions -> SUBSET Msgs]
    BY <1>3, <2>1 DEF Drain
  <2> QED BY <1>3, <2>2, <2>3 DEF Drain
<1>4. ASSUME NEW s \in Sessions, DrainFails(s) PROVE TypeOK'
  <2>1. FrameTypes'
    BY <1>4, DisconnectTypes DEF DrainFails
  <2> QED BY <1>4, <2>1 DEF DrainFails
<1>5. ASSUME NEW s \in Sessions, Ping(s) PROVE TypeOK'
  <2>1. CASE HasRoom(s)
    <3>1. /\ queue' \in [Sessions -> Seq(Frames)]
          /\ \A t \in Sessions : Len(queue'[t]) <= QueueCap
      BY <1>5, <2>1, AppendTypes DEF Ping
    <3>2. <<s, "beat">> \in Writes
      BY DEF Writes
    <3>3. writes' = writes \cup {<<s, "beat">>} /\ writes \subseteq Writes
      BY <1>5, <2>1 DEF Ping
    <3>4. writes' \subseteq Writes
      BY <3>2, <3>3
    <3> QED BY <1>5, <2>1, <3>1, <3>4 DEF Ping
  <2>2. CASE ~HasRoom(s)
    <3>1. FrameTypes'
      BY <1>5, <2>2, DisconnectTypes DEF Ping
    <3> QED BY <1>5, <3>1 DEF Ping
  <2> QED BY <2>1, <2>2
<1>6. ASSUME NEW s \in Sessions, AckSaved(s) PROVE TypeOK'
  <2>1. acking[s] \in AckRecord /\ acking[s].msg \in Msgs
    BY <1>6 DEF AckSaved, AckRecord, MessagesOK
  <2>2. [acking[s] EXCEPT !.saved = TRUE] \in AckRecord
    BY <2>1 DEF AckRecord
  <2> QED BY <1>6, <2>1, <2>2 DEF AckSaved, AckRecord
<1>7. ASSUME NEW s \in Sessions, AckFails(s) PROVE TypeOK'
  <2>1. acking[s] \in AckRecord /\ acking[s].msg \in Msgs
    BY <1>7 DEF AckFails, AckRecord, MessagesOK
  <2>2. acking[s].left - 1 \in 0..2
    BY <1>7, <2>1 DEF AckFails, AckRecord
  <2>3. [acking[s] EXCEPT !.left = @ - 1] \in AckRecord
    BY <2>2, <2>1 DEF AckRecord
  <2> QED BY <1>7, <2>1, <2>3 DEF AckFails, AckRecord
<1>8. ASSUME NEW s \in Sessions, AckReturns(s) PROVE TypeOK'
  <2>1. Idle \in AckRecord
    BY DEF Idle, AckRecord
  <2> QED BY <1>8, <2>1 DEF AckReturns, AckRecord
<1>9. ASSUME NEW s \in Sessions, ReadEnds(s) PROVE TypeOK'
  <2>1. FrameTypes'
    BY <1>9, DisconnectTypes DEF ReadEnds
  <2>2. Idle \in AckRecord
    BY DEF Idle, AckRecord
  <2> QED BY <1>9, <2>1, <2>2 DEF ReadEnds, AckRecord
<1>10. ASSUME NEW s \in Sessions, Fetch(s) PROVE TypeOK'
  <2>1. PICK C \in Candidates(scan[s].after) :
            scan' = [scan EXCEPT ![s].at = "check", ![s].rest = FirstBatch(C)]
    BY <1>10 DEF Fetch
  <2>2. FirstBatch(C) \subseteq Msgs
    BY BatchIsFirst DEF Candidates
  <2>3. scan[s] \in ScanRecord
    BY DEF ScanRecord
  <2>4. [scan[s] EXCEPT !.at = "check", !.rest = FirstBatch(C)] \in ScanRecord
    BY <2>2, <2>3 DEF ScanRecord
  <2> QED BY <1>10, <2>1, <2>4 DEF Fetch, ScanRecord
<1>11. ASSUME NEW s \in Sessions, SyncComplete(s) PROVE TypeOK'
  <2>1. FrameTypes'
    BY <1>11, OfferTypes DEF SyncComplete, TypeOK, Frames
  <2>2. scan' \in [Sessions -> ScanRecord]
    <3>1. Over \in ScanRecord /\ [Over EXCEPT !.start = scan[s].start] \in ScanRecord
      BY DEF Over, Scan, ScanRecord
    <3> QED BY <1>11, <3>1 DEF SyncComplete, ScanRecord
  <2> QED BY <1>11, <2>1, <2>2 DEF SyncComplete, ScanRecord
<1>12. ASSUME NEW s \in Sessions, CheckNext(s) PROVE TypeOK'
  <2>1. PICK m \in scan[s].rest : m = Min(scan[s].rest) /\ m \in Msgs
    BY <1>12, LeastMessage DEF CheckNext
  <2>2. scan[s] \in ScanRecord
    BY DEF ScanRecord
  <2>3. /\ [scan[s] EXCEPT !.at = "send"] \in ScanRecord
        /\ [scan[s] EXCEPT !.rest = scan[s].rest \ {m}, !.after = m] \in ScanRecord
    BY <2>1, <2>2, ScanMoves
  <2>4. \/ scan' = [scan EXCEPT ![s] = [scan[s] EXCEPT !.at = "send"]]
        \/ scan' = [scan EXCEPT ![s] = [scan[s] EXCEPT !.rest = scan[s].rest \ {m}, !.after = m]]
    BY <1>12, <2>1 DEF CheckNext
  <2>5. scan' \in [Sessions -> ScanRecord]
    <3>1. scan \in [Sessions -> ScanRecord]
      BY DEF ScanRecord
    <3> QED BY <2>3, <2>4, <3>1
  <2> QED BY <1>12, <2>5 DEF CheckNext, ScanRecord
<1>13. ASSUME NEW s \in Sessions, SendNext(s) PROVE TypeOK'
  <2>1. PICK m \in scan[s].rest : m = Min(scan[s].rest) /\ m \in Msgs
    BY <1>13, LeastMessage DEF SendNext, ScansOK, ScanOK, Scanning
  <2>2. FrameTypes'
    BY <1>13, <2>1, OfferTypes DEF SendNext
  <2>3. scan[s] \in ScanRecord /\ Over \in ScanRecord
    BY DEF ScanRecord, Over, Scan
  <2>4. [scan[s] EXCEPT !.at = "check", !.rest = scan[s].rest \ {m}, !.after = m] \in ScanRecord
    BY <2>1, <2>3, ScanMoves
  <2>5. \/ scan' = [scan EXCEPT ![s] = Over]
        \/ scan' = [scan EXCEPT ![s] =
                       [scan[s] EXCEPT !.at = "check", !.rest = scan[s].rest \ {m}, !.after = m]]
    <3>1. CASE HasRoom(s)
      BY <1>13, <2>1, <3>1 DEF SendNext
    <3>2. CASE ~HasRoom(s)
      BY <1>13, <3>2 DEF SendNext
    <3> QED BY <3>1, <3>2
  <2>6. scan' \in [Sessions -> ScanRecord]
    <3>1. scan \in [Sessions -> ScanRecord]
      BY DEF ScanRecord
    <3> QED BY <2>3, <2>4, <2>5, <3>1
  <2> QED BY <1>13, <2>2, <2>6 DEF SendNext, ScanRecord
<1>14. ASSUME NEW s \in Sessions, BatchAcked(s) PROVE TypeOK'
  <2>1. scan[s] \in ScanRecord
    BY DEF ScanRecord
  <2>2. [scan[s] EXCEPT !.at = "fetch"] \in ScanRecord
    BY <2>1 DEF ScanRecord
  <2> QED BY <1>14, <2>2 DEF BatchAcked, ScanRecord
<1>15. ASSUME NEW s \in Sessions, BatchTimesOut(s) PROVE TypeOK'
  <2>1. FrameTypes'
    BY <1>15, DisconnectTypes DEF BatchTimesOut
  <2>2. scan' \in [Sessions -> ScanRecord]
    <3>1. Over \in ScanRecord
      BY DEF Over, Scan, ScanRecord
    <3> QED BY <1>15, <3>1 DEF BatchTimesOut, ScanRecord
  <2> QED BY <1>15, <2>1, <2>2 DEF BatchTimesOut, ScanRecord
<1>16. ASSUME NEW s \in Sessions, ScanFails(s) PROVE TypeOK'
  <2>1. FrameTypes'
    BY <1>16, OfferTypes DEF ScanFails, TypeOK, Frames
  <2>2. scan' \in [Sessions -> ScanRecord]
    <3>1. Over \in ScanRecord
      BY DEF Over, Scan, ScanRecord
    <3> QED BY <1>16, <3>1 DEF ScanFails, ScanRecord
  <2> QED BY <1>16, <2>1, <2>2 DEF ScanFails, ScanRecord
<1>17. ASSUME NEW s \in Sessions, ScanStops(s) PROVE TypeOK'
  <2>1. scan' \in [Sessions -> ScanRecord]
    <3>1. Over \in ScanRecord
      BY DEF Over, Scan, ScanRecord
    <3> QED BY <1>17, <3>1 DEF ScanStops, ScanRecord
  <2> QED BY <1>17, <2>1 DEF ScanStops, ScanRecord
<1>18. ASSUME NEW s \in Sessions, NEW m \in Msgs, HandleAck(s, m) PROVE TypeOK'
  <2>1. [msg |-> m, left |-> 2, saved |-> FALSE] \in AckRecord
    BY DEF AckRecord, Msgs
  <2> QED BY <1>18, <2>1 DEF HandleAck, AckRecord
<1>19. ASSUME NEW s \in Sessions, NEW m \in Msgs, AsyncSend(s, m) PROVE TypeOK'
  <2>1. FrameTypes'
    BY <1>19, OfferTypes DEF AsyncSend
  <2> QED BY <1>19, <2>1 DEF AsyncSend
<1>20. ASSUME NEW m \in Msgs, PublishMessage(m) PROVE TypeOK'
  BY <1>20 DEF PublishMessage
<1>21. ASSUME NEW m \in Msgs, DeleteFriend(m) PROVE TypeOK'
  BY <1>21 DEF DeleteFriend
<1>22. ASSUME NEW m \in Msgs, ReadFlag(m) PROVE TypeOK'
  BY <1>22 DEF ReadFlag
<1>23. ASSUME NEW m \in Msgs, PushToUser(m) PROVE TypeOK'
  BY <1>23 DEF PushToUser
<1>24. ASSUME NEW m \in Msgs, PushFails(m) PROVE TypeOK'
  BY <1>24 DEF PushFails
<1>25. ASSUME NEW w \in writes, Lands(w) \/ IsLost(w) PROVE TypeOK'
  BY <1>25 DEF Lands, IsLost, Value
<1>26. ASSUME Expires \/ CheckUserOnline PROVE TypeOK'
  BY <1>26 DEF Expires, CheckUserOnline, Writes
<1>27. ASSUME UNCHANGED vars PROVE TypeOK'
  BY <1>27 DEF vars
<1>28. QED
  BY <1>1, <1>2, <1>3, <1>4, <1>5, <1>6, <1>7, <1>8, <1>9, <1>10, <1>11, <1>12, <1>13,
     <1>14, <1>15, <1>16, <1>17, <1>18, <1>19, <1>20, <1>21, <1>22, <1>23, <1>24, <1>25,
     <1>26, <1>27 DEF Next, SessionStep, MessageStep

-----------------------------------------------------------------------------
(* Sessions and messages.                                                   *)

(* Queueing a frame or closing a session concerns that session only, and    *)
(* removes no other from sessions_.                                         *)
LEMMA OwnSession ==
    ASSUME TypeOK, SessionsOK, NewestStays, NEW s \in Sessions, latest' = latest,
           OnDisconnect(s) \/ \E frame \in Frames : \E waiting : Offer(s, frame, waiting)
    PROVE  /\ NewestStays' /\ (registered' # None => latest' = registered')
           /\ \A t \in Sessions \ {s} :
                 down'[t] = down[t] /\ queue'[t] = queue[t] /\ pending'[t] = pending[t]
           /\ registered' = registered \/ (registered = s /\ registered' = None)
<1>1. OnDisconnect(s) =>
        /\ down' = [down EXCEPT ![s] = TRUE]
        /\ registered' = IF registered = s THEN None ELSE registered
        /\ queue' = [queue EXCEPT ![s] = <<>>] /\ pending' = [pending EXCEPT ![s] = {}]
  BY DEF OnDisconnect, Unregister
<1>2. CASE OnDisconnect(s)
  <2>1. registered = None \/ registered = latest
    BY DEF SessionsOK
  <2>2. \A t \in Sessions \ {s} :
            down'[t] = down[t] /\ queue'[t] = queue[t] /\ pending'[t] = pending[t]
    BY <1>1, <1>2 DEF TypeOK
  <2>3. down'[s] = TRUE /\ latest \in Sessions \cup {None}
    BY <1>1, <1>2 DEF TypeOK
  <2>4. NewestStays'
    BY <1>1, <1>2, <2>1, <2>2, <2>3, GatewayAssumption DEF NewestStays
  <2> QED BY <1>1, <1>2, <2>1, <2>2, <2>4
<1>3. CASE /\ registered' = registered /\ down' = down
           /\ \E f : queue' = [queue EXCEPT ![s] = f]
           /\ \E w : pending' = [pending EXCEPT ![s] = w]
  BY <1>3 DEF TypeOK, SessionsOK, NewestStays
<1>4. QED
  BY <1>2, <1>3 DEF Offer

(* No step but the login of another session, or its own end, takes the      *)
(* account from the session that logged in last.                            *)
LEMMA SessionsStep ==
    ASSUME Inv, [Next]_vars PROVE (SessionsOK /\ NewestStays)'
<1> USE GatewayAssumption DEF Inv, TypeOK, SessionsOK, NewestStays, sessionVars, frameVars,
      redisVars, messageVars, scanVars, ackVars
<1>1. ASSUME NEW s \in Sessions, HandleAuth(s) PROVE (SessionsOK /\ NewestStays)'
  BY <1>1 DEF HandleAuth
<1>2. ASSUME NEW s \in Sessions, Greet(s) PROVE (SessionsOK /\ NewestStays)'
  <2>1. /\ NewestStays' /\ (registered' # None => latest' = registered')
        /\ \A t \in Sessions \ {s} :
              down'[t] = down[t] /\ queue'[t] = queue[t] /\ pending'[t] = pending[t]
        /\ registered' = registered \/ (registered = s /\ registered' = None)
    BY <1>2, OwnSession DEF Greet, Frames
  <2>2. /\ conn' = [conn EXCEPT ![s] = "open"] /\ conn[s] = "auth" /\ complete' = complete
        /\ \A t \in Sessions \ {s} : scan'[t] = scan[t]
        /\ UNCHANGED <<posted, latest, acking>>
    BY <1>2 DEF Greet
  <2> QED BY <2>1, <2>2
<1>3. ASSUME NEW s \in Sessions, Drain(s) PROVE (SessionsOK /\ NewestStays)'
  BY <1>3 DEF Drain
<1>4. ASSUME NEW s \in Sessions, DrainFails(s) PROVE (SessionsOK /\ NewestStays)'
  <2>1. /\ NewestStays' /\ (registered' # None => latest' = registered')
        /\ \A t \in Sessions \ {s} :
              down'[t] = down[t] /\ queue'[t] = queue[t] /\ pending'[t] = pending[t]
        /\ registered' = registered \/ (registered = s /\ registered' = None)
    BY <1>4, OwnSession DEF DrainFails
  <2>2. conn[s] # "new" /\ UNCHANGED <<latest, conn, posted, scan, complete, acking>>
    BY <1>4 DEF DrainFails
  <2>3. pending'[s] = {}
    BY <1>4 DEF DrainFails, OnDisconnect
  <2> QED BY <2>1, <2>2, <2>3
<1>5. ASSUME NEW s \in Sessions, Ping(s) PROVE (SessionsOK /\ NewestStays)'
  <2>1. conn[s] = "open" /\ UNCHANGED <<latest, conn, posted, scan, complete, acking>>
    BY <1>5 DEF Ping, Reading
  <2>2. CASE HasRoom(s)
    BY <1>5, <2>1, <2>2 DEF Ping
  <2>3. CASE ~HasRoom(s)
    <3>1. OnDisconnect(s)
      BY <1>5, <2>3 DEF Ping
    <3> QED BY <2>1, <3>1, OwnSession
  <2> QED BY <2>2, <2>3
<1>6. ASSUME NEW s \in Sessions, AckSaved(s) PROVE (SessionsOK /\ NewestStays)'
  <2>1. conn[s] = "open" /\ \A t \in Sessions \ {s} : acking'[t] = acking[t]
    BY <1>6 DEF AckSaved, Idle
  <2> QED BY <1>6, <2>1 DEF AckSaved
<1>7. ASSUME NEW s \in Sessions, AckFails(s) PROVE (SessionsOK /\ NewestStays)'
  <2>1. conn[s] = "open" /\ \A t \in Sessions \ {s} : acking'[t] = acking[t]
    BY <1>7 DEF AckFails, Idle
  <2> QED BY <1>7, <2>1 DEF AckFails
<1>8. ASSUME NEW s \in Sessions, AckReturns(s) PROVE (SessionsOK /\ NewestStays)'
  <2>1. conn[s] = "open"
    BY <1>8 DEF AckReturns, Idle
  <2>2. \A t \in Sessions \ {s} : acking'[t] = acking[t] /\ pending'[t] = pending[t]
    BY <1>8 DEF AckReturns
  <2> QED BY <1>8, <2>1, <2>2 DEF AckReturns
<1>9. ASSUME NEW s \in Sessions, ReadEnds(s) PROVE (SessionsOK /\ NewestStays)'
  <2>1. /\ NewestStays' /\ (registered' # None => latest' = registered')
        /\ \A t \in Sessions \ {s} :
              down'[t] = down[t] /\ queue'[t] = queue[t] /\ pending'[t] = pending[t]
        /\ registered' = registered \/ (registered = s /\ registered' = None)
    BY <1>9, OwnSession DEF ReadEnds
  <2>2. conn[s] = "open" /\ UNCHANGED <<latest, conn, posted, scan, complete>>
    BY <1>9 DEF ReadEnds, Reading, Idle
  <2>3. \A t \in Sessions \ {s} : acking'[t] = acking[t]
    BY <1>9 DEF ReadEnds
  <2> QED BY <2>1, <2>2, <2>3
<1>10. ASSUME NEW s \in Sessions, Fetch(s) PROVE (SessionsOK /\ NewestStays)'
  <2>1. /\ conn[s] = "open" /\ s \notin complete /\ \A t \in Sessions \ {s} : scan'[t] = scan[t]
        /\ UNCHANGED <<sessionVars, conn, down, frameVars, complete, acking>>
    BY <1>10 DEF Fetch
  <2> QED BY <2>1
<1>11. ASSUME NEW s \in Sessions, SyncComplete(s) PROVE (SessionsOK /\ NewestStays)'
  <2>1. /\ NewestStays' /\ (registered' # None => latest' = registered')
        /\ \A t \in Sessions \ {s} :
              down'[t] = down[t] /\ queue'[t] = queue[t] /\ pending'[t] = pending[t]
        /\ registered' = registered \/ (registered = s /\ registered' = None)
    BY <1>11, OwnSession DEF SyncComplete, Frames
  <2>2. /\ conn[s] = "open" /\ UNCHANGED <<latest, conn, posted, acking>>
        /\ \A t \in Sessions \ {s} : scan'[t] = scan[t]
        /\ complete' \subseteq complete \cup {s} /\ scan'[s].at = "end"
    BY <1>11 DEF SyncComplete, Over, Scan
  <2> QED BY <2>1, <2>2
<1>12. ASSUME NEW s \in Sessions, CheckNext(s) PROVE (SessionsOK /\ NewestStays)'
  <2>1. /\ conn[s] = "open" /\ s \notin complete /\ \A t \in Sessions \ {s} : scan'[t] = scan[t]
        /\ UNCHANGED <<sessionVars, conn, down, frameVars, complete, acking>>
    BY <1>12 DEF CheckNext
  <2> QED BY <2>1
<1>13. ASSUME NEW s \in Sessions, SendNext(s) PROVE (SessionsOK /\ NewestStays)'
  <2>1. scan[s].rest # {} /\ scan[s].rest \subseteq Msgs
    BY <1>13 DEF SendNext, ScansOK, ScanOK, Scanning
  <2>2. Min(scan[s].rest) \in Msgs
    BY <2>1, LeastMessage
  <2>3. PICK m \in Msgs : Offer(s, m, pending[s] \cup {m})
    BY <1>13, <2>2 DEF SendNext
  <2>4. /\ NewestStays' /\ (registered' # None => latest' = registered')
        /\ \A t \in Sessions \ {s} :
              down'[t] = down[t] /\ queue'[t] = queue[t] /\ pending'[t] = pending[t]
        /\ registered' = registered \/ (registered = s /\ registered' = None)
    BY <1>13, <2>3, OwnSession DEF SendNext, Frames
  <2>5. /\ conn[s] = "open" /\ s \notin complete
        /\ UNCHANGED <<latest, conn, posted, complete, acking>>
        /\ \A t \in Sessions \ {s} : scan'[t] = scan[t]
    BY <1>13 DEF SendNext
  <2>6. SessionsOK'
    <3> SUFFICES ASSUME NEW t \in Sessions
                 PROVE  /\ (conn[t] = "new" => ~down[t] /\ queue[t] = <<>> /\ posted[t] = {}
                                                 /\ latest # t)'
                        /\ (conn[t] # "open" => scan[t].at = "off" /\ pending[t] = {}
                                                 /\ acking[t] = Idle)'
                        /\ (t \in complete => conn[t] = "open" /\ scan[t].at = "end")'
      BY <2>4
    <3>1. CASE t = s
      BY <2>5, <3>1
    <3>2. CASE t # s
      BY <2>4, <2>5, <3>2
    <3> QED BY <3>1, <3>2
  <2> QED BY <2>4, <2>6
<1>14. ASSUME NEW s \in Sessions, BatchAcked(s) PROVE (SessionsOK /\ NewestStays)'
  <2>1. /\ conn[s] = "open" /\ s \notin complete /\ \A t \in Sessions \ {s} : scan'[t] = scan[t]
        /\ UNCHANGED <<sessionVars, conn, down, frameVars, complete, acking>>
    BY <1>14 DEF BatchAcked, BatchSent
  <2> QED BY <2>1
<1>15. ASSUME NEW s \in Sessions, BatchTimesOut(s) PROVE (SessionsOK /\ NewestStays)'
  <2>1. /\ NewestStays' /\ (registered' # None => latest' = registered')
        /\ \A t \in Sessions \ {s} :
              down'[t] = down[t] /\ queue'[t] = queue[t] /\ pending'[t] = pending[t]
        /\ registered' = registered \/ (registered = s /\ registered' = None)
    BY <1>15, OwnSession DEF BatchTimesOut
  <2>2. /\ conn[s] = "open" /\ s \notin complete
        /\ UNCHANGED <<latest, conn, posted, complete, acking>>
        /\ \A t \in Sessions \ {s} : scan'[t] = scan[t]
    BY <1>15 DEF BatchTimesOut, BatchSent
  <2>3. SessionsOK'
    <3> SUFFICES ASSUME NEW t \in Sessions
                 PROVE  /\ (conn[t] = "new" => ~down[t] /\ queue[t] = <<>> /\ posted[t] = {}
                                                 /\ latest # t)'
                        /\ (conn[t] # "open" => scan[t].at = "off" /\ pending[t] = {}
                                                 /\ acking[t] = Idle)'
                        /\ (t \in complete => conn[t] = "open" /\ scan[t].at = "end")'
      BY <2>1
    <3>1. CASE t = s
      BY <2>2, <3>1
    <3>2. CASE t # s
      BY <2>1, <2>2, <3>2
    <3> QED BY <3>1, <3>2
  <2> QED BY <2>1, <2>3
<1>16. ASSUME NEW s \in Sessions, ScanFails(s) PROVE (SessionsOK /\ NewestStays)'
  <2>1. /\ NewestStays' /\ (registered' # None => latest' = registered')
        /\ \A t \in Sessions \ {s} :
              down'[t] = down[t] /\ queue'[t] = queue[t] /\ pending'[t] = pending[t]
        /\ registered' = registered \/ (registered = s /\ registered' = None)
    BY <1>16, OwnSession DEF ScanFails, Frames
  <2>2. /\ conn[s] = "open" /\ s \notin complete
        /\ UNCHANGED <<latest, conn, posted, complete, acking>>
        /\ \A t \in Sessions \ {s} : scan'[t] = scan[t]
    BY <1>16 DEF ScanFails
  <2>3. SessionsOK'
    <3> SUFFICES ASSUME NEW t \in Sessions
                 PROVE  /\ (conn[t] = "new" => ~down[t] /\ queue[t] = <<>> /\ posted[t] = {}
                                                 /\ latest # t)'
                        /\ (conn[t] # "open" => scan[t].at = "off" /\ pending[t] = {}
                                                 /\ acking[t] = Idle)'
                        /\ (t \in complete => conn[t] = "open" /\ scan[t].at = "end")'
      BY <2>1
    <3>1. CASE t = s
      BY <2>2, <3>1
    <3>2. CASE t # s
      BY <2>1, <2>2, <3>2
    <3> QED BY <3>1, <3>2
  <2> QED BY <2>1, <2>3
<1>17. ASSUME NEW s \in Sessions, ScanStops(s) PROVE (SessionsOK /\ NewestStays)'
  <2>1. /\ conn[s] = "open" /\ s \notin complete /\ \A t \in Sessions \ {s} : scan'[t] = scan[t]
        /\ UNCHANGED <<sessionVars, conn, down, frameVars, complete, acking>>
    BY <1>17 DEF ScanStops
  <2> QED BY <2>1
<1>18. ASSUME NEW s \in Sessions, NEW m \in Msgs, HandleAck(s, m)
       PROVE  (SessionsOK /\ NewestStays)'
  <2>1. conn[s] = "open" /\ \A t \in Sessions \ {s} : acking'[t] = acking[t]
    BY <1>18 DEF HandleAck, Reading
  <2> QED BY <1>18, <2>1 DEF HandleAck
<1>19. ASSUME NEW s \in Sessions, NEW m \in Msgs, AsyncSend(s, m)
       PROVE  (SessionsOK /\ NewestStays)'
  <2>1. /\ NewestStays' /\ (registered' # None => latest' = registered')
        /\ \A t \in Sessions \ {s} :
              down'[t] = down[t] /\ queue'[t] = queue[t] /\ pending'[t] = pending[t]
        /\ registered' = registered \/ (registered = s /\ registered' = None)
    BY <1>19, OwnSession DEF AsyncSend, Frames
  <2>2. /\ conn[s] # "new" /\ posted' = [posted EXCEPT ![s] = posted[s] \ {m}]
        /\ UNCHANGED <<latest, conn, scan, complete, acking>>
    BY <1>19 DEF AsyncSend
  <2>3. pending'[s] \in {pending[s], {}}
    BY <1>19 DEF AsyncSend, Offer, OnDisconnect
  <2> QED BY <2>1, <2>2, <2>3
<1>20. ASSUME NEW m \in Msgs, PublishMessage(m) \/ DeleteFriend(m) \/ ReadFlag(m) \/
              PushFails(m)
       PROVE  (SessionsOK /\ NewestStays)'
  BY <1>20 DEF PublishMessage, DeleteFriend, ReadFlag, PushFails
<1>21. ASSUME NEW m \in Msgs, PushToUser(m) PROVE (SessionsOK /\ NewestStays)'
  BY <1>21 DEF PushToUser
<1>22. ASSUME NEW w \in writes, Lands(w) \/ IsLost(w) PROVE (SessionsOK /\ NewestStays)'
  BY <1>22 DEF Lands, IsLost
<1>23. ASSUME Expires \/ CheckUserOnline PROVE (SessionsOK /\ NewestStays)'
  BY <1>23 DEF Expires, CheckUserOnline
<1>24. ASSUME UNCHANGED vars PROVE (SessionsOK /\ NewestStays)'
  BY <1>24 DEF vars
<1>25. QED
  BY <1>1, <1>2, <1>3, <1>4, <1>5, <1>6, <1>7, <1>8, <1>9, <1>10, <1>11, <1>12, <1>13,
     <1>14, <1>15, <1>16, <1>17, <1>18, <1>19, <1>20, <1>21, <1>22, <1>23, <1>24 DEF Next,
     SessionStep, MessageStep

(* A push begins after the publication, a receipt stays.                    *)
LEMMA MessagesStep ==
    ASSUME Inv, [Next]_vars PROVE MessagesOK'
<1> USE GatewayAssumption DEF Inv, TypeOK, MessagesOK, sessionVars, frameVars, redisVars,
      messageVars, scanVars, ackVars, Offer, OnDisconnect, Idle
<1>1. ASSUME NEW s \in Sessions, HandleAuth(s) \/ Greet(s) \/ Drain(s) \/ DrainFails(s) \/
             Ping(s) \/ Fetch(s) \/ SyncComplete(s) \/ CheckNext(s) \/ SendNext(s) \/
             BatchAcked(s) \/ BatchTimesOut(s) \/ ScanFails(s) \/ ScanStops(s)
      PROVE  MessagesOK'
  BY <1>1 DEF HandleAuth, Greet, Drain, DrainFails, Ping, Fetch, SyncComplete, CheckNext,
     SendNext, BatchAcked, BatchTimesOut, ScanFails, ScanStops
<1>2. ASSUME NEW s \in Sessions, AckSaved(s) PROVE MessagesOK'
  BY <1>2 DEF AckSaved
<1>3. ASSUME NEW s \in Sessions, AckFails(s) PROVE MessagesOK'
  BY <1>3 DEF AckFails
<1>4. ASSUME NEW s \in Sessions, AckReturns(s) PROVE MessagesOK'
  BY <1>4 DEF AckReturns
<1>5. ASSUME NEW s \in Sessions, ReadEnds(s) PROVE MessagesOK'
  BY <1>5 DEF ReadEnds
<1>6. ASSUME NEW s \in Sessions, NEW m \in Msgs, HandleAck(s, m) PROVE MessagesOK'
  BY <1>6 DEF HandleAck
<1>7. ASSUME NEW s \in Sessions, NEW m \in Msgs, AsyncSend(s, m) PROVE MessagesOK'
  BY <1>7 DEF AsyncSend
<1>8. ASSUME NEW m \in Msgs, PublishMessage(m) \/ DeleteFriend(m) \/ ReadFlag(m) \/
             PushToUser(m) \/ PushFails(m)
      PROVE  MessagesOK'
  BY <1>8 DEF PublishMessage, DeleteFriend, ReadFlag, PushToUser, PushFails
<1>9. ASSUME NEW w \in writes, Lands(w) \/ IsLost(w) PROVE MessagesOK'
  BY <1>9 DEF Lands, IsLost
<1>10. ASSUME Expires \/ CheckUserOnline PROVE MessagesOK'
  BY <1>10 DEF Expires, CheckUserOnline
<1>11. ASSUME UNCHANGED vars PROVE MessagesOK'
  BY <1>11 DEF vars
<1>12. QED
  BY <1>1, <1>2, <1>3, <1>4, <1>5, <1>6, <1>7, <1>8, <1>9, <1>10, <1>11 DEF Next,
     SessionStep, MessageStep

-----------------------------------------------------------------------------
(* The scan.                                                                *)

(* What is settled or published stays so.                                   *)
Lasting ==
    /\ acked \subseteq acked'
    /\ \A m \in Msgs : /\ body[m] = "gone" => body'[m] = "gone"
                       /\ body[m] # "none" => body'[m] # "none"

(* Receipts are never taken back, deleted messages never come back.         *)
LEMMA SettledStays ==
    ASSUME Inv, [Next]_vars PROVE Lasting
<1> USE GatewayAssumption DEF Inv, TypeOK, MessagesOK, sessionVars, frameVars, redisVars,
      messageVars, scanVars, ackVars, Lasting
<1>1. ASSUME NEW s \in Sessions, HandleAuth(s) \/ Greet(s) \/ Drain(s) \/ DrainFails(s) \/
             Ping(s) \/ AckReturns(s) \/ ReadEnds(s) \/ Fetch(s) \/ SyncComplete(s) \/
             CheckNext(s) \/ SendNext(s) \/ BatchAcked(s) \/ BatchTimesOut(s) \/
             ScanFails(s) \/ ScanStops(s)
      PROVE  Lasting
  BY <1>1 DEF HandleAuth, Greet, Drain, DrainFails, Ping, AckReturns, ReadEnds, Fetch,
     SyncComplete, CheckNext, SendNext, BatchAcked, BatchTimesOut, ScanFails, ScanStops
<1>2. ASSUME NEW s \in Sessions, AckSaved(s) PROVE Lasting
  BY <1>2 DEF AckSaved
<1>3. ASSUME NEW s \in Sessions, AckFails(s) PROVE Lasting
  BY <1>3 DEF AckFails
<1>4. ASSUME NEW s \in Sessions, NEW m \in Msgs, HandleAck(s, m) PROVE Lasting
  BY <1>4 DEF HandleAck
<1>5. ASSUME NEW s \in Sessions, NEW m \in Msgs, AsyncSend(s, m) PROVE Lasting
  BY <1>5 DEF AsyncSend
<1>6. ASSUME NEW m \in Msgs, ReadFlag(m) \/ PushToUser(m) \/ PushFails(m) PROVE Lasting
  BY <1>6 DEF ReadFlag, PushToUser, PushFails
<1>7. ASSUME NEW m \in Msgs, PublishMessage(m) PROVE Lasting
  BY <1>7 DEF PublishMessage
<1>8. ASSUME NEW m \in Msgs, DeleteFriend(m) PROVE Lasting
  BY <1>8 DEF DeleteFriend
<1>9. ASSUME NEW w \in writes, Lands(w) \/ IsLost(w) PROVE Lasting
  BY <1>9 DEF Lands, IsLost
<1>10. ASSUME Expires \/ CheckUserOnline PROVE Lasting
  BY <1>10 DEF Expires, CheckUserOnline
<1>11. ASSUME UNCHANGED vars PROVE Lasting
  BY <1>11 DEF vars
<1>12. QED
  BY <1>1, <1>2, <1>3, <1>4, <1>5, <1>6, <1>7, <1>8, <1>9, <1>10, <1>11 DEF Next,
     SessionStep, MessageStep

(* A scan that does not move keeps its account of the messages, whatever    *)
(* the other actors do, if what is no longer waited for has its receipt.    *)
LEMMA ScanKept ==
    ASSUME Inv, Lasting, NEW s \in Sessions, scan'[s] = scan[s],
           down'[s] \/ (/\ down'[s] = down[s] /\ pending'[s] \subseteq pending[s]
                        /\ \A m \in pending[s] \ pending'[s] : m \in acked)
    PROVE  ScanOK(s)'
<1>1. scan[s].start \subseteq Msgs /\ ScanOK(s)
  BY DEF Inv, TypeOK, ScansOK
<1>2. ASSUME NEW m \in Msgs, Settled(m) PROVE Settled(m)'
  BY <1>2 DEF Settled, Lasting
<1>3. ASSUME ~down'[s], NEW m \in Msgs, Accounted(s, m) PROVE Accounted(s, m)'
  <2>1. m \in pending[s] => m \in pending'[s] \/ Settled(m)
    BY <1>3 DEF Settled
  <2> QED BY <1>2, <1>3, <2>1 DEF Accounted
<1>4. ASSUME Scanning(s), ~down'[s]
      PROVE  /\ scan[s].at = "fetch" => pending'[s] = {}
             /\ \A m \in scan[s].start : Accounted(s, m)'
  <2>1. ~down[s]
    BY <1>4
  <2>2. /\ scan[s].at = "fetch" => pending[s] = {}
        /\ \A m \in scan[s].start : Accounted(s, m)
    BY <1>1, <1>4, <2>1 DEF ScanOK
  <2>3. scan[s].at = "fetch" => pending'[s] = {}
    BY <1>4, <2>2
  <2> QED BY <1>1, <1>3, <1>4, <2>2, <2>3
<1>5. Scanning(s)' <=> Scanning(s)
  BY DEF Scanning
<1>6. Scanning(s) => \A m \in scan[s].start : body'[m] # "none"
  BY <1>1 DEF ScanOK, Lasting
<1> QED BY <1>1, <1>4, <1>5, <1>6 DEF ScanOK

(* So do the promises of the scans that are complete.                       *)
LEMMA CompleteKept ==
    ASSUME Inv, Lasting, NEW s \in Sessions, scan'[s] = scan[s], s \in complete
    PROVE  \A m \in scan'[s].start : m \in acked' \/ body'[m] = "gone"
<1>1. scan[s].start \subseteq Msgs
  BY DEF Inv, TypeOK
<1> QED BY <1>1 DEF Inv, CompleteMeansAcked, Lasting

(* What is left to show for a step that moves the scan of one session.      *)
LEMMA OneScan ==
    ASSUME Inv, Lasting, NEW s \in Sessions, ScanOK(s)', complete' \subseteq complete \cup {s},
           s \in complete' => \A m \in scan'[s].start : m \in acked' \/ body'[m] = "gone",
           \A t \in Sessions \ {s} : /\ scan'[t] = scan[t] /\ down'[t] = down[t]
                                     /\ pending'[t] = pending[t]
    PROVE  (ScansOK /\ CompleteMeansAcked)'
<1>1. ASSUME NEW t \in Sessions PROVE ScanOK(t)'
  <2>1. CASE t = s
    BY <2>1
  <2>2. CASE t # s
    BY <2>2, ScanKept
  <2> QED BY <2>1, <2>2
<1>2. ASSUME NEW t \in complete'
      PROVE  \A m \in scan'[t].start : m \in acked' \/ body'[m] = "gone"
  <2>1. CASE t = s
    BY <1>2, <2>1
  <2>2. CASE t # s
    <3>1. t \in complete /\ t \in Sessions
      BY <1>2, <2>2 DEF Inv, TypeOK
    <3> QED BY <2>2, <3>1, CompleteKept
  <2> QED BY <2>1, <2>2
<1> QED BY <1>1, <1>2 DEF ScansOK, CompleteMeansAcked

(* A step that moves no scan.                                               *)
LEMMA NoScan ==
    ASSUME Inv, Lasting, scan' = scan, complete' = complete,
           \A s \in Sessions :
              down'[s] \/ (/\ down'[s] = down[s] /\ pending'[s] \subseteq pending[s]
                           /\ \A m \in pending[s] \ pending'[s] : m \in acked)
    PROVE  (ScansOK /\ CompleteMeansAcked)'
<1>1. \A s \in Sessions : ScanOK(s)'
  BY ScanKept
<1>2. complete \subseteq Sessions
  BY DEF Inv, TypeOK
<1> QED BY <1>1, <1>2, CompleteKept DEF ScansOK, CompleteMeansAcked

(* A scan that has passed the first message of its batch, which is settled  *)
(* or now waited for, accounts for the others as before.                    *)
LEMMA CursorMoves ==
    ASSUME Inv, NEW s \in Sessions, Scanning(s), ScanOK(s), ~down[s], NEW m \in scan[s].rest,
           \A n \in scan[s].rest : m <= n,
           scan'[s].at = "check", scan'[s].after = m,
           scan'[s].rest = scan[s].rest \ {m}, scan'[s].start = scan[s].start,
           UNCHANGED <<down, body, acked>>,
           \/ pending' = pending /\ (m \in scan[s].start => Settled(m))
           \/ pending'[s] = pending[s] \cup {m}
    PROVE  ScanOK(s)'
<1>1. scan[s].rest \subseteq Int /\ scan[s].start \subseteq Int /\ scan[s].after \in Int
  BY GatewayAssumption DEF Inv, TypeOK, Msgs
<1>2. \A n \in scan'[s].rest : n > scan'[s].after
  BY <1>1
<1>3. ASSUME NEW k \in scan[s].start PROVE Accounted(s, k)'
  <2>1. Accounted(s, k) /\ m > scan[s].after
    BY DEF ScanOK
  <2>2. pending[s] \subseteq pending'[s]
    OBVIOUS
  <2>3. Settled(k)' <=> Settled(k)
    BY DEF Settled
  <2>4. CASE Settled(k) \/ k \in pending[s]
    BY <2>2, <2>3, <2>4 DEF Accounted
  <2>5. CASE k \in scan[s].rest /\ ~Settled(k)
    BY <2>3, <2>5 DEF Accounted
  <2>6. CASE k > scan[s].after /\ \A n \in scan[s].rest : n < k
    <3>1. k > m /\ \A n \in scan[s].rest \ {m} : n < k
      BY <1>1, <2>6
    <3> QED BY <3>1 DEF Accounted
  <2> QED BY <2>1, <2>4, <2>5, <2>6 DEF Accounted
<1> QED BY <1>2, <1>3 DEF ScanOK, Scanning

(* No step loses a message the scan must account for, and "offline sync     *)
(* complete" is queued only with nothing left.                              *)
LEMMA ScansStep ==
    ASSUME Inv, [Next]_vars PROVE (ScansOK /\ CompleteMeansAcked)'
<1> USE GatewayAssumption DEF Inv, TypeOK, sessionVars, frameVars, redisVars, messageVars,
      scanVars, ackVars
<1>0. Lasting
  BY SettledStays
<1>1. ASSUME NEW s \in Sessions, HandleAuth(s) PROVE (ScansOK /\ CompleteMeansAcked)'
  BY <1>1, <1>0, NoScan DEF HandleAuth
<1>2. ASSUME NEW s \in Sessions, Greet(s) PROVE (ScansOK /\ CompleteMeansAcked)'
  <2>1. \A t \in Sessions \ {s} : /\ scan'[t] = scan[t] /\ down'[t] = down[t]
                                  /\ pending'[t] = pending[t]
    BY <1>2 DEF Greet, Offer, OnDisconnect
  <2>2. complete' = complete /\ s \notin complete /\ pending[s] = {}
    BY <1>2 DEF Greet, SessionsOK
  <2>3. ScanOK(s)'
    <3>1. CASE HasRoom(s)
      <4>1. /\ scan'[s].at = "fetch" /\ scan'[s].after = 0 /\ scan'[s].rest = {}
            /\ scan'[s].start = Published /\ pending'[s] = {} /\ body' = body
        BY <1>2, <2>2, <3>1 DEF Greet, Offer, Scan
      <4>2. \A m \in Published : m > 0 /\ body[m] # "none"
        BY DEF Published, Msgs
      <4> QED BY <4>1, <4>2 DEF ScanOK, Accounted
    <3>2. CASE ~HasRoom(s)
      BY <1>2, <3>2 DEF Greet, Over, Scan, ScanOK, Scanning
    <3> QED BY <3>1, <3>2
  <2> QED BY <1>0, <2>1, <2>2, <2>3, OneScan
<1>3. ASSUME NEW s \in Sessions, Drain(s) PROVE (ScansOK /\ CompleteMeansAcked)'
  BY <1>3, <1>0, NoScan DEF Drain
<1>4. ASSUME NEW s \in Sessions, DrainFails(s) PROVE (ScansOK /\ CompleteMeansAcked)'
  <2>1. /\ scan' = scan /\ complete' = complete
        /\ \A t \in Sessions : down'[t] \/ (down'[t] = down[t] /\ pending'[t] = pending[t])
    BY <1>4 DEF DrainFails, OnDisconnect
  <2> QED BY <1>0, <2>1, NoScan
<1>5. ASSUME NEW s \in Sessions, Ping(s) PROVE (ScansOK /\ CompleteMeansAcked)'
  <2>1. /\ scan' = scan /\ complete' = complete
        /\ \A t \in Sessions : down'[t] \/ (down'[t] = down[t] /\ pending'[t] = pending[t])
    BY <1>5 DEF Ping, OnDisconnect
  <2> QED BY <1>0, <2>1, NoScan
<1>6. ASSUME NEW s \in Sessions, AckSaved(s) PROVE (ScansOK /\ CompleteMeansAcked)'
  BY <1>6, <1>0, NoScan DEF AckSaved
<1>7. ASSUME NEW s \in Sessions, AckFails(s) PROVE (ScansOK /\ CompleteMeansAcked)'
  BY <1>7, <1>0, NoScan DEF AckFails
<1>8. ASSUME NEW s \in Sessions, AckReturns(s) PROVE (ScansOK /\ CompleteMeansAcked)'
  <2>1. acking[s].msg \in acked
    BY <1>8 DEF AckReturns, MessagesOK
  <2>2. scan' = scan /\ complete' = complete /\ down' = down
        /\ pending' = [pending EXCEPT ![s] = pending[s] \ {acking[s].msg}]
    BY <1>8 DEF AckReturns
  <2>3. \A t \in Sessions : /\ pending'[t] \subseteq pending[t]
                            /\ \A m \in pending[t] \ pending'[t] : m \in acked
    BY <2>1, <2>2
  <2> QED BY <1>0, <2>2, <2>3, NoScan
<1>9. ASSUME NEW s \in Sessions, ReadEnds(s) PROVE (ScansOK /\ CompleteMeansAcked)'
  <2>1. /\ scan' = scan /\ complete' = complete
        /\ \A t \in Sessions : down'[t] \/ (down'[t] = down[t] /\ pending'[t] = pending[t])
    BY <1>9 DEF ReadEnds, OnDisconnect
  <2> QED BY <1>0, <2>1, NoScan
<1>10. ASSUME NEW s \in Sessions, Fetch(s) PROVE (ScansOK /\ CompleteMeansAcked)'
  <2>1. \A t \in Sessions \ {s} : /\ scan'[t] = scan[t] /\ down'[t] = down[t]
                                  /\ pending'[t] = pending[t]
    BY <1>10 DEF Fetch
  <2>2. s \notin complete /\ complete' = complete /\ ScanOK(s) /\ Scanning(s)
    BY <1>10 DEF Fetch, SessionsOK, ScansOK, Scanning
  <2>3. PICK C \in Candidates(scan[s].after) :
            scan' = [scan EXCEPT ![s].at = "check", ![s].rest = FirstBatch(C)]
    BY <1>10 DEF Fetch
  <2>4. /\ scan'[s].at = "check" /\ scan'[s].after = scan[s].after
        /\ scan'[s].rest = FirstBatch(C) /\ scan'[s].start = scan[s].start
        /\ UNCHANGED <<down, pending, body, acked>> /\ ~down[s]
    BY <1>10, <2>3 DEF Fetch
  <2>5. /\ C \subseteq Msgs /\ \A n \in C : n > scan[s].after
        /\ \A m \in Msgs : body[m] # "none" /\ m > scan[s].after /\ ~Settled(m) => m \in C
    BY DEF Candidates, Settled
  <2>6. /\ FirstBatch(C) \subseteq C
        /\ \A m \in C \ FirstBatch(C) : \A n \in FirstBatch(C) : n < m
    BY <2>5, BatchIsFirst
  <2>7. scan[s].start \subseteq Msgs /\ scan[s].rest = {} /\ pending[s] = {}
    BY <1>10, <2>2 DEF Fetch, ScanOK
  <2>8. \A m \in scan[s].start : Settled(m) \/ (body[m] # "none" /\ m > scan[s].after)
    BY <2>2, <2>4, <2>7 DEF ScanOK, Accounted
  <2>9. \A m \in scan[s].start : Settled(m) \/ m \in FirstBatch(C)
                                  \/ (m > scan[s].after /\ \A n \in FirstBatch(C) : n < m)
    BY <2>5, <2>6, <2>7, <2>8
  <2>10. \A m \in scan[s].start : Accounted(s, m)'
    BY <2>4, <2>9 DEF Accounted, Settled
  <2>11. ScanOK(s)'
    <3>1. \A n \in FirstBatch(C) : n > scan[s].after
      BY <2>5, <2>6
    <3>2. \A m \in scan[s].start : body[m] # "none"
      BY <2>2 DEF ScanOK
    <3> QED BY <2>4, <2>10, <3>1, <3>2 DEF ScanOK
  <2> QED BY <1>0, <2>1, <2>2, <2>11, OneScan
<1>11. ASSUME NEW s \in Sessions, SyncComplete(s) PROVE (ScansOK /\ CompleteMeansAcked)'
  <2>1. \A t \in Sessions \ {s} : /\ scan'[t] = scan[t] /\ down'[t] = down[t]
                                  /\ pending'[t] = pending[t]
    BY <1>11 DEF SyncComplete, Offer, OnDisconnect
  <2>2. ScanOK(s) /\ Scanning(s) /\ scan[s].at = "fetch" /\ ~down[s]
    BY <1>11 DEF SyncComplete, ScansOK, Scanning
  <2>3. scan'[s].at = "end" /\ complete' \subseteq complete \cup {s} /\ s \notin complete
    BY <1>11, <2>2 DEF SyncComplete, Over, Scan, SessionsOK
  <2>4. ScanOK(s)'
    BY <2>3 DEF ScanOK, Scanning
  <2>5. s \in complete' => scan'[s].start = scan[s].start
    BY <1>11, <2>3 DEF SyncComplete, Over, Scan
  <2>6. \A m \in Msgs : body[m] # "none" /\ m > scan[s].after => Settled(m)
    BY <1>11 DEF SyncComplete, Candidates, Settled
  <2>7. \A m \in scan[s].start : Settled(m) /\ m \in Msgs
    BY <2>2, <2>6 DEF ScanOK, Accounted
  <2>8. s \in complete' => \A m \in scan'[s].start : m \in acked' \/ body'[m] = "gone"
    BY <1>0, <2>5, <2>7 DEF Settled, Lasting
  <2> QED BY <1>0, <2>1, <2>3, <2>4, <2>8, OneScan
<1>12. ASSUME NEW s \in Sessions, CheckNext(s) PROVE (ScansOK /\ CompleteMeansAcked)'
  <2>1. \A t \in Sessions \ {s} : /\ scan'[t] = scan[t] /\ down'[t] = down[t]
                                  /\ pending'[t] = pending[t]
    BY <1>12 DEF CheckNext
  <2>2. s \notin complete /\ complete' = complete /\ ScanOK(s) /\ Scanning(s)
    BY <1>12 DEF CheckNext, SessionsOK, ScansOK, Scanning
  <2>3. PICK m \in scan[s].rest :
          /\ m = Min(scan[s].rest) /\ m \in Msgs /\ \A n \in scan[s].rest : m <= n
    BY <1>12, LeastMessage DEF CheckNext
  <2>4. UNCHANGED <<down, pending, body, acked>> /\ ~down[s]
    BY <1>12 DEF CheckNext
  <2>5. CASE Deliverable(m)
    <3>1. /\ scan'[s].at = "send" /\ scan'[s].after = scan[s].after
          /\ scan'[s].rest = scan[s].rest /\ scan'[s].start = scan[s].start
      BY <1>12, <2>3, <2>5 DEF CheckNext
    <3>2. ScanOK(s)'
      BY <2>2, <2>3, <2>4, <3>1 DEF ScanOK, Accounted, Settled
    <3> QED BY <1>0, <2>1, <2>2, <3>2, OneScan
  <2>6. CASE ~Deliverable(m)
    <3>1. /\ scan'[s].at = "check" /\ scan'[s].after = m
          /\ scan'[s].rest = scan[s].rest \ {m} /\ scan'[s].start = scan[s].start
      BY <1>12, <2>3, <2>6 DEF CheckNext
    <3>2. m \in scan[s].start => Settled(m)
      BY <2>2, <2>3, <2>6 DEF ScanOK, Deliverable, Settled
    <3>3. ScanOK(s)'
      BY <2>2, <2>3, <2>4, <3>1, <3>2, CursorMoves
    <3> QED BY <1>0, <2>1, <2>2, <3>3, OneScan
  <2> QED BY <2>5, <2>6
<1>13. ASSUME NEW s \in Sessions, SendNext(s) PROVE (ScansOK /\ CompleteMeansAcked)'
  <2>1. PICK m \in scan[s].rest :
          /\ m = Min(scan[s].rest) /\ m \in Msgs /\ \A n \in scan[s].rest : m <= n
    BY <1>13, LeastMessage DEF SendNext, ScansOK, ScanOK, Scanning
  <2>2. /\ Offer(s, m, pending[s] \cup {m}) /\ ~down[s]
        /\ \A t \in Sessions \ {s} : scan'[t] = scan[t]
    BY <1>13, <2>1 DEF SendNext
  <2>3. \A t \in Sessions \ {s} : /\ scan'[t] = scan[t] /\ down'[t] = down[t]
                                  /\ pending'[t] = pending[t]
    BY <2>2 DEF Offer, OnDisconnect
  <2>4. /\ s \notin complete /\ complete' = complete /\ ScanOK(s) /\ Scanning(s)
        /\ UNCHANGED <<body, acked>>
    BY <1>13 DEF SendNext, SessionsOK, ScansOK, Scanning
  <2>5. CASE HasRoom(s)
    <3>1. /\ scan'[s].at = "check" /\ scan'[s].after = m
          /\ scan'[s].rest = scan[s].rest \ {m} /\ scan'[s].start = scan[s].start
      BY <1>13, <2>1, <2>5 DEF SendNext
    <3>2. pending'[s] = pending[s] \cup {m} /\ down' = down
      BY <2>2, <2>5 DEF Offer
    <3>3. ScanOK(s)'
      BY <2>1, <2>2, <2>4, <3>1, <3>2, CursorMoves
    <3> QED BY <1>0, <2>3, <2>4, <3>3, OneScan
  <2>6. CASE ~HasRoom(s)
    <3>1. scan'[s].at = "end"
      BY <1>13, <2>6 DEF SendNext, Over, Scan
    <3> QED BY <1>0, <2>3, <2>4, <3>1, OneScan DEF ScanOK, Scanning
  <2> QED BY <2>5, <2>6
<1>14. ASSUME NEW s \in Sessions, BatchAcked(s) PROVE (ScansOK /\ CompleteMeansAcked)'
  <2>1. \A t \in Sessions \ {s} : /\ scan'[t] = scan[t] /\ down'[t] = down[t]
                                  /\ pending'[t] = pending[t]
    BY <1>14 DEF BatchAcked
  <2>2. s \notin complete /\ complete' = complete /\ ScanOK(s) /\ Scanning(s)
    BY <1>14 DEF BatchAcked, BatchSent, SessionsOK, ScansOK, Scanning
  <2>3. /\ scan'[s].at = "fetch" /\ scan'[s].after = scan[s].after
        /\ scan'[s].rest = scan[s].rest /\ scan'[s].start = scan[s].start
        /\ scan[s].rest = {} /\ pending[s] = {} /\ UNCHANGED <<down, pending, body, acked>>
    BY <1>14 DEF BatchAcked, BatchSent
  <2>4. ScanOK(s)'
    BY <2>2, <2>3 DEF ScanOK, Accounted, Settled
  <2> QED BY <1>0, <2>1, <2>2, <2>4, OneScan
<1>15. ASSUME NEW s \in Sessions, BatchTimesOut(s) PROVE (ScansOK /\ CompleteMeansAcked)'
  <2>1. \A t \in Sessions \ {s} : /\ scan'[t] = scan[t] /\ down'[t] = down[t]
                                  /\ pending'[t] = pending[t]
    BY <1>15 DEF BatchTimesOut, OnDisconnect
  <2>2. scan'[s].at = "end" /\ complete' = complete /\ s \notin complete
    BY <1>15 DEF BatchTimesOut, Over, Scan, SessionsOK, BatchSent
  <2> QED BY <1>0, <2>1, <2>2, OneScan DEF ScanOK, Scanning
<1>16. ASSUME NEW s \in Sessions, ScanFails(s) PROVE (ScansOK /\ CompleteMeansAcked)'
  <2>1. \A t \in Sessions \ {s} : /\ scan'[t] = scan[t] /\ down'[t] = down[t]
                                  /\ pending'[t] = pending[t]
    BY <1>16 DEF ScanFails, Offer, OnDisconnect
  <2>2. scan'[s].at = "end" /\ complete' = complete /\ s \notin complete
    BY <1>16 DEF ScanFails, Over, Scan, SessionsOK
  <2> QED BY <1>0, <2>1, <2>2, OneScan DEF ScanOK, Scanning
<1>17. ASSUME NEW s \in Sessions, ScanStops(s) PROVE (ScansOK /\ CompleteMeansAcked)'
  <2>1. \A t \in Sessions \ {s} : /\ scan'[t] = scan[t] /\ down'[t] = down[t]
                                  /\ pending'[t] = pending[t]
    BY <1>17 DEF ScanStops
  <2>2. scan'[s].at = "end" /\ complete' = complete /\ s \notin complete
    BY <1>17 DEF ScanStops, Over, Scan, SessionsOK
  <2> QED BY <1>0, <2>1, <2>2, OneScan DEF ScanOK, Scanning
<1>18. ASSUME NEW s \in Sessions, NEW m \in Msgs, HandleAck(s, m)
       PROVE  (ScansOK /\ CompleteMeansAcked)'
  BY <1>18, <1>0, NoScan DEF HandleAck
<1>19. ASSUME NEW s \in Sessions, NEW m \in Msgs, AsyncSend(s, m)
       PROVE  (ScansOK /\ CompleteMeansAcked)'
  <2>1. /\ scan' = scan /\ complete' = complete
        /\ \A t \in Sessions : down'[t] \/ (down'[t] = down[t] /\ pending'[t] = pending[t])
    BY <1>19 DEF AsyncSend, Offer, OnDisconnect
  <2> QED BY <1>0, <2>1, NoScan
<1>20. ASSUME NEW m \in Msgs, PublishMessage(m) PROVE (ScansOK /\ CompleteMeansAcked)'
  BY <1>20, <1>0, NoScan DEF PublishMessage
<1>21. ASSUME NEW m \in Msgs, DeleteFriend(m) PROVE (ScansOK /\ CompleteMeansAcked)'
  BY <1>21, <1>0, NoScan DEF DeleteFriend
<1>22. ASSUME NEW m \in Msgs, ReadFlag(m) PROVE (ScansOK /\ CompleteMeansAcked)'
  BY <1>22, <1>0, NoScan DEF ReadFlag
<1>23. ASSUME NEW m \in Msgs, PushToUser(m) PROVE (ScansOK /\ CompleteMeansAcked)'
  BY <1>23, <1>0, NoScan DEF PushToUser
<1>24. ASSUME NEW m \in Msgs, PushFails(m) PROVE (ScansOK /\ CompleteMeansAcked)'
  BY <1>24, <1>0, NoScan DEF PushFails
<1>25. ASSUME NEW w \in writes, Lands(w) \/ IsLost(w) PROVE (ScansOK /\ CompleteMeansAcked)'
  BY <1>25, <1>0, NoScan DEF Lands, IsLost
<1>26. ASSUME Expires \/ CheckUserOnline PROVE (ScansOK /\ CompleteMeansAcked)'
  BY <1>26, <1>0, NoScan DEF Expires, CheckUserOnline
<1>27. ASSUME UNCHANGED vars PROVE (ScansOK /\ CompleteMeansAcked)'
  BY <1>27, <1>0, NoScan DEF vars
<1>28. QED
  BY <1>1, <1>2, <1>3, <1>4, <1>5, <1>6, <1>7, <1>8, <1>9, <1>10, <1>11, <1>12, <1>13,
     <1>14, <1>15, <1>16, <1>17, <1>18, <1>19, <1>20, <1>21, <1>22, <1>23, <1>24, <1>25,
     <1>26, <1>27 DEF Next, SessionStep, MessageStep

-----------------------------------------------------------------------------
(* The online push.                                                         *)

(* A frame that is queued joins those before it.                            *)
LEMMA AppendQueues ==
    ASSUME TypeOK, NEW s \in Sessions, NEW frame \in Frames,
           queue' = [queue EXCEPT ![s] = Append(@, frame)]
    PROVE  /\ Queued(s, frame)'
           /\ \A t \in Sessions, m \in Msgs : Queued(t, m) => Queued(t, m)'
<1>1. queue[s] \in Seq(Frames) /\ queue'[s] = Append(queue[s], frame)
  BY DEF TypeOK, Frames
<1>2. /\ DOMAIN queue[s] = 1..Len(queue[s]) /\ Len(queue[s]) \in Nat
      /\ DOMAIN queue'[s] = 1..(Len(queue[s]) + 1)
  BY <1>1
<1>3. /\ queue'[s][Len(queue[s]) + 1] = frame
      /\ \A i \in 1..Len(queue[s]) : queue'[s][i] = queue[s][i]
  BY <1>1, <1>2
<1>4. Queued(s, frame)'
  BY <1>2, <1>3 DEF Queued
<1>5. ASSUME NEW t \in Sessions, NEW m \in Msgs, Queued(t, m) PROVE Queued(t, m)'
  <2>1. CASE t = s
    <3>1. PICK i \in 1..Len(queue[s]) : queue[s][i] = m
      BY <1>2, <1>5, <2>1 DEF Queued
    <3>2. i \in DOMAIN queue'[s] /\ queue'[s][i] = m
      BY <1>2, <1>3, <3>1
    <3> QED BY <2>1, <3>2 DEF Queued
  <2>2. CASE t # s
    <3>1. queue'[t] = queue[t]
      BY <2>2 DEF TypeOK
    <3> QED BY <1>5, <3>1 DEF Queued
  <2> QED BY <2>1, <2>2
<1> QED BY <1>4, <1>5

(* Queueing a frame loses none of the session that stays registered, and    *)
(* the frame itself is queued if the session is that one.                   *)
LEMMA OfferQueues ==
    ASSUME TypeOK, NEW s \in Sessions, NEW t \in Sessions, registered = t, registered' = t,
           OnDisconnect(s) \/ \E frame \in Frames : \E waiting : Offer(s, frame, waiting)
    PROVE  \A m \in Msgs : Queued(t, m) => Queued(t, m)'
<1>1. CASE OnDisconnect(s)
  <2>1. t # s
    BY <1>1, GatewayAssumption DEF OnDisconnect, Unregister
  <2>2. queue'[t] = queue[t]
    BY <1>1, <2>1 DEF OnDisconnect, TypeOK
  <2> QED BY <2>2 DEF Queued
<1>2. CASE \E frame \in Frames : queue' = [queue EXCEPT ![s] = Append(@, frame)]
  BY <1>2, AppendQueues
<1> QED BY <1>1, <1>2 DEF Offer

(* What the registered session carries, it carries until the client has it. *)
CarriedStays ==
    \A s \in Sessions, m \in Msgs :
        registered = s /\ registered' = s /\ Carried(s, m) => Carried(s, m)'

(* No step loses a frame of the registered session.                         *)
LEMMA CarriedStep ==
    ASSUME Inv, [Next]_vars PROVE CarriedStays
<1> USE GatewayAssumption DEF Inv, TypeOK, sessionVars, frameVars, redisVars, messageVars,
      scanVars, ackVars
<1>1. ASSUME NEW s \in Sessions, HandleAuth(s) \/ AckSaved(s) \/ AckFails(s) \/
             AckReturns(s) \/ Fetch(s) \/ CheckNext(s) \/ BatchAcked(s) \/ ScanStops(s)
      PROVE  CarriedStays
  BY <1>1 DEF CarriedStays, Carried, Queued, HandleAuth, AckSaved, AckFails, AckReturns,
     Fetch, CheckNext, BatchAcked, ScanStops
<1>2. ASSUME NEW s \in Sessions, Greet(s) PROVE CarriedStays
  <2>1. UNCHANGED <<posted, got>>
    BY <1>2 DEF Greet
  <2>2. \A t \in Sessions, k \in Msgs :
            registered = t /\ registered' = t /\ Queued(t, k) => Queued(t, k)'
    BY <1>2, OfferQueues DEF Greet, Frames
  <2> QED BY <2>1, <2>2 DEF CarriedStays, Carried
<1>3. ASSUME NEW s \in Sessions, Drain(s) PROVE CarriedStays
  <2>1. /\ queue[s] \in Seq(Frames) /\ queue[s] # <<>> /\ posted' = posted
        /\ queue' = [queue EXCEPT ![s] = Tail(queue[s])]
        /\ got' = [got EXCEPT ![s] = got[s] \cup ({Head(queue[s])} \ {Note})]
    BY <1>3 DEF Drain, Frames
  <2>2. \A m \in Msgs : m # Note
    BY DEF Msgs, Note
  <2>3. /\ DOMAIN queue[s] = 1..Len(queue[s]) /\ Len(queue[s]) \in Nat
        /\ DOMAIN Tail(queue[s]) = 1..(Len(queue[s]) - 1) /\ Head(queue[s]) = queue[s][1]
        /\ \A i \in 1..(Len(queue[s]) - 1) : Tail(queue[s])[i] = queue[s][i + 1]
    BY <2>1
  <2>4. ASSUME NEW t \in Sessions, NEW m \in Msgs, Queued(t, m)
        PROVE  m \in got'[t] \/ Queued(t, m)'
    <3>1. CASE t = s
      <4>1. PICK i \in 1..Len(queue[s]) : queue[s][i] = m
        BY <2>3, <2>4, <3>1 DEF Queued
      <4>2. CASE i = 1
        BY <2>1, <2>2, <2>3, <3>1, <4>1, <4>2
      <4>3. CASE i # 1
        <5>1. i - 1 \in 1..(Len(queue[s]) - 1) /\ (i - 1) + 1 = i
          BY <2>3, <4>3
        <5>2. i - 1 \in DOMAIN Tail(queue[s]) /\ Tail(queue[s])[i - 1] = m
          BY <2>3, <4>1, <5>1
        <5>3. queue'[s] = Tail(queue[s])
          BY <2>1
        <5> QED BY <3>1, <5>2, <5>3 DEF Queued
      <4> QED BY <4>2, <4>3
    <3>2. CASE t # s
      <4>1. queue'[t] = queue[t]
        BY <2>1, <3>2
      <4> QED BY <2>4, <4>1 DEF Queued
    <3> QED BY <3>1, <3>2
  <2>5. \A t \in Sessions : got[t] \subseteq got'[t]
    BY <2>1
  <2> QED BY <2>1, <2>4, <2>5 DEF CarriedStays, Carried
<1>4. ASSUME NEW s \in Sessions, DrainFails(s) PROVE CarriedStays
  <2>1. UNCHANGED <<posted, got>>
    BY <1>4 DEF DrainFails
  <2>2. \A t \in Sessions, k \in Msgs :
            registered = t /\ registered' = t /\ Queued(t, k) => Queued(t, k)'
    BY <1>4, OfferQueues DEF DrainFails, Frames
  <2> QED BY <2>1, <2>2 DEF CarriedStays, Carried
<1>5. ASSUME NEW s \in Sessions, Ping(s) PROVE CarriedStays
  <2>1. UNCHANGED <<posted, got>>
    BY <1>5 DEF Ping
  <2>2. \A t \in Sessions, k \in Msgs :
            registered = t /\ registered' = t /\ Queued(t, k) => Queued(t, k)'
    <3>1. CASE HasRoom(s)
      BY <1>5, <3>1, AppendQueues DEF Ping, Frames
    <3>2. CASE ~HasRoom(s)
      BY <1>5, <3>2, OfferQueues DEF Ping
    <3> QED BY <3>1, <3>2
  <2> QED BY <2>1, <2>2 DEF CarriedStays, Carried
<1>6. ASSUME NEW s \in Sessions, ReadEnds(s) PROVE CarriedStays
  <2>1. UNCHANGED <<posted, got>>
    BY <1>6 DEF ReadEnds
  <2>2. \A t \in Sessions, k \in Msgs :
            registered = t /\ registered' = t /\ Queued(t, k) => Queued(t, k)'
    BY <1>6, OfferQueues DEF ReadEnds, Frames
  <2> QED BY <2>1, <2>2 DEF CarriedStays, Carried
<1>7. ASSUME NEW s \in Sessions, SyncComplete(s) PROVE CarriedStays
  <2>1. UNCHANGED <<posted, got>>
    BY <1>7 DEF SyncComplete
  <2>2. \A t \in Sessions, k \in Msgs :
            registered = t /\ registered' = t /\ Queued(t, k) => Queued(t, k)'
    BY <1>7, OfferQueues DEF SyncComplete, Frames
  <2> QED BY <2>1, <2>2 DEF CarriedStays, Carried
<1>8. ASSUME NEW s \in Sessions, SendNext(s) PROVE CarriedStays
  <2>1. scan[s].rest # {} /\ scan[s].rest \subseteq Msgs
    BY <1>8 DEF SendNext, ScansOK, ScanOK, Scanning
  <2>2. Min(scan[s].rest) \in Msgs
    BY <2>1, LeastMessage
  <2>3. PICK m \in Msgs : Offer(s, m, pending[s] \cup {m})
    BY <1>8, <2>2 DEF SendNext
  <2>4. UNCHANGED <<posted, got>>
    BY <1>8 DEF SendNext
  <2>5. \A t \in Sessions, k \in Msgs :
            registered = t /\ registered' = t /\ Queued(t, k) => Queued(t, k)'
    BY <2>3, OfferQueues DEF Frames
  <2> QED BY <2>4, <2>5 DEF CarriedStays, Carried
<1>9. ASSUME NEW s \in Sessions, BatchTimesOut(s) PROVE CarriedStays
  <2>1. UNCHANGED <<posted, got>>
    BY <1>9 DEF BatchTimesOut
  <2>2. \A t \in Sessions, k \in Msgs :
            registered = t /\ registered' = t /\ Queued(t, k) => Queued(t, k)'
    BY <1>9, OfferQueues DEF BatchTimesOut, Frames
  <2> QED BY <2>1, <2>2 DEF CarriedStays, Carried
<1>10. ASSUME NEW s \in Sessions, ScanFails(s) PROVE CarriedStays
  <2>1. UNCHANGED <<posted, got>>
    BY <1>10 DEF ScanFails
  <2>2. \A t \in Sessions, k \in Msgs :
            registered = t /\ registered' = t /\ Queued(t, k) => Queued(t, k)'
    BY <1>10, OfferQueues DEF ScanFails, Frames
  <2> QED BY <2>1, <2>2 DEF CarriedStays, Carried
<1>11. ASSUME NEW s \in Sessions, NEW m \in Msgs, HandleAck(s, m) PROVE CarriedStays
  BY <1>11 DEF HandleAck, CarriedStays, Carried, Queued
<1>12. ASSUME NEW s \in Sessions, NEW m \in Msgs, AsyncSend(s, m) PROVE CarriedStays
  <2>1. /\ posted' = [posted EXCEPT ![s] = posted[s] \ {m}] /\ got' = got
        /\ Offer(s, m, pending[s])
    BY <1>12 DEF AsyncSend
  <2>2. \A t \in Sessions, k \in Msgs :
            registered = t /\ registered' = t /\ Queued(t, k) => Queued(t, k)'
    BY <2>1, OfferQueues DEF Frames
  <2>3. registered = s /\ registered' = s => Queued(s, m)'
    <3>1. CASE HasRoom(s)
      BY <2>1, <3>1, AppendQueues DEF Offer, Frames
    <3>2. CASE ~HasRoom(s)
      BY <2>1, <3>2 DEF Offer, OnDisconnect, Unregister
    <3> QED BY <3>1, <3>2
  <2>4. \A t \in Sessions, k \in Msgs : k \in posted[t] => k \in posted'[t] \/ (t = s /\ k = m)
    BY <2>1
  <2> QED BY <2>1, <2>2, <2>3, <2>4 DEF CarriedStays, Carried
<1>13. ASSUME NEW m \in Msgs, PublishMessage(m) \/ DeleteFriend(m) \/ ReadFlag(m) \/
              PushFails(m)
       PROVE  CarriedStays
  BY <1>13 DEF CarriedStays, Carried, Queued, PublishMessage, DeleteFriend, ReadFlag,
     PushFails
<1>14. ASSUME NEW m \in Msgs, PushToUser(m) PROVE CarriedStays
  <2>1. UNCHANGED <<queue, got>> /\ \A t \in Sessions : posted[t] \subseteq posted'[t]
    BY <1>14 DEF PushToUser
  <2> QED BY <2>1 DEF CarriedStays, Carried, Queued
<1>15. ASSUME NEW w \in writes, Lands(w) \/ IsLost(w) PROVE CarriedStays
  BY <1>15 DEF CarriedStays, Carried, Queued, Lands, IsLost
<1>16. ASSUME Expires \/ CheckUserOnline PROVE CarriedStays
  BY <1>16 DEF CarriedStays, Carried, Queued, Expires, CheckUserOnline
<1>17. ASSUME UNCHANGED vars PROVE CarriedStays
  BY <1>17 DEF CarriedStays, Carried, Queued, vars
<1>18. QED
  BY <1>1, <1>2, <1>3, <1>4, <1>5, <1>6, <1>7, <1>8, <1>9, <1>10, <1>11, <1>12, <1>13,
     <1>14, <1>15, <1>16, <1>17 DEF Next, SessionStep, MessageStep

(* What was due already is still carried.                                   *)
LEMMA DueKept ==
    ASSUME Inv, Lasting, CarriedStays, NEW s \in Sessions, NEW m \in Msgs, Due(s, m)',
           registered = s, conn[s] = "open", Scanning(s) \/ s \in complete,
           m \notin scan[s].start, push[m] = "done", m \notin deferred
    PROVE  Carried(s, m)'
<1>1. registered' = s /\ Deliverable(m)'
  BY DEF Due
<1>2. body[m] # "none" /\ body[m] # "gone" /\ m \notin acked
  BY <1>1 DEF Inv, MessagesOK, Lasting, Deliverable
<1>3. Deliverable(m)
  BY <1>2 DEF Inv, TypeOK, Deliverable
<1>4. Carried(s, m)
  BY <1>3 DEF Due, Inv, PushesReach
<1> QED BY <1>1, <1>4 DEF CarriedStays

(* A step that moves no login, scan or push.                                *)
LEMMA NoPush ==
    ASSUME Inv, Lasting, CarriedStays, registered' = registered \/ registered' = None,
           UNCHANGED <<conn, scan, complete, push, deferred>>
    PROVE  PushesReach'
<1> SUFFICES ASSUME NEW s \in Sessions, NEW m \in Msgs, Due(s, m)' PROVE Carried(s, m)'
  BY DEF PushesReach
<1>1. /\ registered = s /\ conn[s] = "open" /\ (Scanning(s) \/ s \in complete)
      /\ m \notin scan[s].start /\ push[m] = "done" /\ m \notin deferred
  BY GatewayAssumption DEF Due, Scanning
<1> QED BY <1>1, DueKept

(* A step of a scan, which goes on with the messages it covers, or ends.    *)
LEMMA ScanPush ==
    ASSUME Inv, Lasting, CarriedStays, registered' = registered \/ registered' = None,
           UNCHANGED <<conn, push, deferred>>, NEW s \in Sessions, Scanning(s),
           Scanning(s)' \/ s \in complete' => scan'[s].start = scan[s].start,
           complete' \subseteq complete \cup {s},
           \A t \in Sessions \ {s} : scan'[t] = scan[t]
    PROVE  PushesReach'
<1> SUFFICES ASSUME NEW t \in Sessions, NEW m \in Msgs, Due(t, m)' PROVE Carried(t, m)'
  BY DEF PushesReach
<1>1. /\ registered = t /\ conn[t] = "open" /\ push[m] = "done" /\ m \notin deferred
      /\ (Scanning(t)' \/ t \in complete') /\ m \notin scan'[t].start
  BY GatewayAssumption DEF Due
<1>2. (Scanning(t) \/ t \in complete) /\ m \notin scan[t].start
  <2>1. CASE t = s
    BY <1>1, <2>1
  <2>2. CASE t # s
    BY <1>1, <2>2 DEF Scanning
  <2> QED BY <2>1, <2>2
<1> QED BY <1>1, <1>2, DueKept

(* No step strands a message between the scan and the push.                 *)
LEMMA PushesStep ==
    ASSUME Inv, [Next]_vars PROVE PushesReach'
<1> USE GatewayAssumption DEF Inv, TypeOK, sessionVars, frameVars, redisVars, messageVars,
      scanVars, ackVars
<1>0. Lasting /\ CarriedStays
  BY SettledStays, CarriedStep
<1>1. ASSUME NEW s \in Sessions, HandleAuth(s) PROVE PushesReach'
  <2> SUFFICES ASSUME NEW t \in Sessions, NEW k \in Msgs, Due(t, k)' PROVE Carried(t, k)'
    BY DEF PushesReach
  <2>1. registered' = s /\ conn'[s] = "auth"
    BY <1>1 DEF HandleAuth
  <2> QED BY <2>1 DEF Due
<1>2. ASSUME NEW s \in Sessions, Greet(s) PROVE PushesReach'
  <2> SUFFICES ASSUME NEW t \in Sessions, NEW k \in Msgs, Due(t, k)' PROVE Carried(t, k)'
    BY DEF PushesReach
  <2>1. /\ registered = t /\ push[k] = "done" /\ k \notin deferred
        /\ conn'[t] = "open" /\ (Scanning(t)' \/ t \in complete') /\ k \notin scan'[t].start
        /\ body[k] = "published" /\ complete' = complete
    BY <1>2 DEF Greet, Offer, OnDisconnect, Unregister, Due, Deliverable
  <2>2. t # s
    <3> SUFFICES ASSUME t = s PROVE FALSE
      OBVIOUS
    <3>1. s \notin complete
      BY <1>2 DEF Greet, SessionsOK
    <3>2. HasRoom(s)
      BY <1>2, <2>1, <3>1 DEF Greet, Over, Scan, Scanning
    <3>3. scan'[s].start = Published
      BY <1>2, <3>2 DEF Greet, Scan
    <3> QED BY <2>1, <3>3 DEF Published
  <2>3. conn[t] = "open" /\ scan'[t] = scan[t]
    BY <1>2, <2>1, <2>2 DEF Greet
  <2>4. Scanning(t) \/ t \in complete
    BY <2>1, <2>3 DEF Scanning
  <2> QED BY <1>0, <2>1, <2>3, <2>4, DueKept
<1>3. ASSUME NEW s \in Sessions, Drain(s) PROVE PushesReach'
  BY <1>3, <1>0, NoPush DEF Drain
<1>4. ASSUME NEW s \in Sessions, DrainFails(s) PROVE PushesReach'
  <2>1. registered' = registered \/ registered' = None
    BY <1>4 DEF DrainFails, Offer, OnDisconnect, Unregister
  <2> QED BY <1>4, <1>0, <2>1, NoPush DEF DrainFails
<1>5. ASSUME NEW s \in Sessions, Ping(s) PROVE PushesReach'
  <2>1. registered' = registered \/ registered' = None
    BY <1>5 DEF Ping, Offer, OnDisconnect, Unregister
  <2> QED BY <1>5, <1>0, <2>1, NoPush DEF Ping
<1>6. ASSUME NEW s \in Sessions, AckSaved(s) PROVE PushesReach'
  BY <1>6, <1>0, NoPush DEF AckSaved
<1>7. ASSUME NEW s \in Sessions, AckFails(s) PROVE PushesReach'
  BY <1>7, <1>0, NoPush DEF AckFails
<1>8. ASSUME NEW s \in Sessions, AckReturns(s) PROVE PushesReach'
  BY <1>8, <1>0, NoPush DEF AckReturns
<1>9. ASSUME NEW s \in Sessions, ReadEnds(s) PROVE PushesReach'
  <2>1. registered' = registered \/ registered' = None
    BY <1>9 DEF ReadEnds, Offer, OnDisconnect, Unregister
  <2> QED BY <1>9, <1>0, <2>1, NoPush DEF ReadEnds
<1>10. ASSUME NEW s \in Sessions, Fetch(s) PROVE PushesReach'
  <2>1. registered' = registered \/ registered' = None
    BY <1>10 DEF Fetch
  <2>2. /\ Scanning(s) /\ s \notin complete
        /\ Scanning(s)' \/ s \in complete' => scan'[s].start = scan[s].start
    BY <1>10 DEF Fetch, Scanning, SessionsOK
  <2>3. /\ UNCHANGED <<conn, push, deferred>> /\ complete' \subseteq complete \cup {s}
        /\ \A t \in Sessions \ {s} : scan'[t] = scan[t]
    BY <1>10 DEF Fetch
  <2> QED BY <1>0, <2>1, <2>2, <2>3, ScanPush
<1>11. ASSUME NEW s \in Sessions, SyncComplete(s) PROVE PushesReach'
  <2>1. registered' = registered \/ registered' = None
    BY <1>11 DEF SyncComplete, Offer, OnDisconnect, Unregister
  <2>2. /\ Scanning(s) /\ s \notin complete
        /\ Scanning(s)' \/ s \in complete' => scan'[s].start = scan[s].start
    BY <1>11 DEF SyncComplete, Over, Scan, Scanning, SessionsOK
  <2>3. /\ UNCHANGED <<conn, push, deferred>> /\ complete' \subseteq complete \cup {s}
        /\ \A t \in Sessions \ {s} : scan'[t] = scan[t]
    BY <1>11 DEF SyncComplete
  <2> QED BY <1>0, <2>1, <2>2, <2>3, ScanPush
<1>12. ASSUME NEW s \in Sessions, CheckNext(s) PROVE PushesReach'
  <2>1. registered' = registered \/ registered' = None
    BY <1>12 DEF CheckNext
  <2>2. /\ Scanning(s) /\ s \notin complete
        /\ Scanning(s)' \/ s \in complete' => scan'[s].start = scan[s].start
    BY <1>12 DEF CheckNext, Scanning, SessionsOK
  <2>3. /\ UNCHANGED <<conn, push, deferred>> /\ complete' \subseteq complete \cup {s}
        /\ \A t \in Sessions \ {s} : scan'[t] = scan[t]
    BY <1>12 DEF CheckNext
  <2> QED BY <1>0, <2>1, <2>2, <2>3, ScanPush
<1>13. ASSUME NEW s \in Sessions, SendNext(s) PROVE PushesReach'
  <2>1. registered' = registered \/ registered' = None
    BY <1>13 DEF SendNext, Offer, OnDisconnect, Unregister
  <2>2. /\ Scanning(s) /\ s \notin complete
        /\ Scanning(s)' \/ s \in complete' => scan'[s].start = scan[s].start
    BY <1>13 DEF SendNext, Over, Scan, Scanning, SessionsOK
  <2>3. /\ UNCHANGED <<conn, push, deferred>> /\ complete' \subseteq complete \cup {s}
        /\ \A t \in Sessions \ {s} : scan'[t] = scan[t]
    BY <1>13 DEF SendNext
  <2> QED BY <1>0, <2>1, <2>2, <2>3, ScanPush
<1>14. ASSUME NEW s \in Sessions, BatchAcked(s) PROVE PushesReach'
  <2>1. registered' = registered \/ registered' = None
    BY <1>14 DEF BatchAcked
  <2>2. /\ Scanning(s) /\ s \notin complete
        /\ Scanning(s)' \/ s \in complete' => scan'[s].start = scan[s].start
    BY <1>14 DEF BatchAcked, BatchSent, Scanning, SessionsOK
  <2>3. /\ UNCHANGED <<conn, push, deferred>> /\ complete' \subseteq complete \cup {s}
        /\ \A t \in Sessions \ {s} : scan'[t] = scan[t]
    BY <1>14 DEF BatchAcked
  <2> QED BY <1>0, <2>1, <2>2, <2>3, ScanPush
<1>15. ASSUME NEW s \in Sessions, BatchTimesOut(s) PROVE PushesReach'
  <2>1. registered' = registered \/ registered' = None
    BY <1>15 DEF BatchTimesOut, Offer, OnDisconnect, Unregister
  <2>2. /\ Scanning(s) /\ s \notin complete
        /\ Scanning(s)' \/ s \in complete' => scan'[s].start = scan[s].start
    BY <1>15 DEF BatchTimesOut, BatchSent, Over, Scan, Scanning, SessionsOK
  <2>3. /\ UNCHANGED <<conn, push, deferred>> /\ complete' \subseteq complete \cup {s}
        /\ \A t \in Sessions \ {s} : scan'[t] = scan[t]
    BY <1>15 DEF BatchTimesOut
  <2> QED BY <1>0, <2>1, <2>2, <2>3, ScanPush
<1>16. ASSUME NEW s \in Sessions, ScanFails(s) PROVE PushesReach'
  <2>1. registered' = registered \/ registered' = None
    BY <1>16 DEF ScanFails, Offer, OnDisconnect, Unregister
  <2>2. /\ Scanning(s) /\ s \notin complete
        /\ Scanning(s)' \/ s \in complete' => scan'[s].start = scan[s].start
    BY <1>16 DEF ScanFails, Over, Scan, Scanning, SessionsOK
  <2>3. /\ UNCHANGED <<conn, push, deferred>> /\ complete' \subseteq complete \cup {s}
        /\ \A t \in Sessions \ {s} : scan'[t] = scan[t]
    BY <1>16 DEF ScanFails
  <2> QED BY <1>0, <2>1, <2>2, <2>3, ScanPush
<1>17. ASSUME NEW s \in Sessions, ScanStops(s) PROVE PushesReach'
  <2>1. registered' = registered \/ registered' = None
    BY <1>17 DEF ScanStops
  <2>2. /\ Scanning(s) /\ s \notin complete
        /\ Scanning(s)' \/ s \in complete' => scan'[s].start = scan[s].start
    BY <1>17 DEF ScanStops, Over, Scan, Scanning, SessionsOK
  <2>3. /\ UNCHANGED <<conn, push, deferred>> /\ complete' \subseteq complete \cup {s}
        /\ \A t \in Sessions \ {s} : scan'[t] = scan[t]
    BY <1>17 DEF ScanStops
  <2> QED BY <1>0, <2>1, <2>2, <2>3, ScanPush
<1>18. ASSUME NEW s \in Sessions, NEW m \in Msgs, HandleAck(s, m) PROVE PushesReach'
  BY <1>18, <1>0, NoPush DEF HandleAck
<1>19. ASSUME NEW s \in Sessions, NEW m \in Msgs, AsyncSend(s, m) PROVE PushesReach'
  <2>1. registered' = registered \/ registered' = None
    BY <1>19 DEF AsyncSend, Offer, OnDisconnect, Unregister
  <2> QED BY <1>19, <1>0, <2>1, NoPush DEF AsyncSend
<1>20. ASSUME NEW m \in Msgs, PublishMessage(m) PROVE PushesReach'
  BY <1>20, <1>0, NoPush DEF PublishMessage
<1>21. ASSUME NEW m \in Msgs, DeleteFriend(m) PROVE PushesReach'
  BY <1>21, <1>0, NoPush DEF DeleteFriend
<1>22. ASSUME NEW m \in Msgs, ReadFlag(m) PROVE PushesReach'
  <2> SUFFICES ASSUME NEW t \in Sessions, NEW k \in Msgs, Due(t, k)' PROVE Carried(t, k)'
    BY DEF PushesReach
  <2>1. /\ registered = t /\ conn[t] = "open" /\ (Scanning(t) \/ t \in complete)
        /\ k \notin scan[t].start /\ push'[k] = "done" /\ Deliverable(k) /\ k \notin deferred'
    BY <1>22 DEF ReadFlag, Due, Deliverable, Scanning
  <2>2. CASE k # m
    <3>1. push[k] = "done" /\ k \notin deferred
      BY <1>22, <2>1, <2>2 DEF ReadFlag
    <3> QED BY <1>0, <2>1, <3>1, DueKept
  <2>3. CASE k = m
    <3>1. Served
      BY <2>1 DEF Served
    <3>2. flag = "1"
      BY <1>22, <2>1, <2>3, <3>1 DEF ReadFlag
    <3>3. push'[m] = "online"
      BY <1>22, <2>1, <2>3, <3>2 DEF ReadFlag
    <3> QED BY <2>1, <2>3, <3>3
  <2> QED BY <2>2, <2>3
<1>23. ASSUME NEW m \in Msgs, PushToUser(m) PROVE PushesReach'
  <2> SUFFICES ASSUME NEW t \in Sessions, NEW k \in Msgs, Due(t, k)' PROVE Carried(t, k)'
    BY DEF PushesReach
  <2>1. /\ registered = t /\ conn[t] = "open" /\ (Scanning(t) \/ t \in complete)
        /\ k \notin scan[t].start /\ push'[k] = "done" /\ Deliverable(k) /\ k \notin deferred'
    BY <1>23 DEF PushToUser, Due, Deliverable, Scanning
  <2>2. CASE k # m
    <3>1. push[k] = "done" /\ k \notin deferred
      BY <1>23, <2>1, <2>2 DEF PushToUser
    <3> QED BY <1>0, <2>1, <3>1, DueKept
  <2>3. CASE k = m
    <3>1. posted' = [posted EXCEPT ![t] = posted[t] \cup {m}]
      BY <1>23, <2>1 DEF PushToUser
    <3> QED BY <2>3, <3>1 DEF Carried
  <2> QED BY <2>2, <2>3
<1>24. ASSUME NEW m \in Msgs, PushFails(m) PROVE PushesReach'
  <2> SUFFICES ASSUME NEW t \in Sessions, NEW k \in Msgs, Due(t, k)' PROVE Carried(t, k)'
    BY DEF PushesReach
  <2>1. /\ registered = t /\ conn[t] = "open" /\ (Scanning(t) \/ t \in complete)
        /\ k \notin scan[t].start /\ push'[k] = "done" /\ Deliverable(k) /\ k \notin deferred'
    BY <1>24 DEF PushFails, Due, Deliverable, Scanning
  <2>2. CASE k # m
    <3>1. push[k] = "done" /\ k \notin deferred
      BY <1>24, <2>1, <2>2 DEF PushFails
    <3> QED BY <1>0, <2>1, <3>1, DueKept
  <2>3. CASE k = m
    <3>1. Served
      BY <2>1 DEF Served
    <3> QED BY <1>24, <2>1, <2>3, <3>1 DEF PushFails
  <2> QED BY <2>2, <2>3
<1>25. ASSUME NEW w \in writes, Lands(w) \/ IsLost(w) PROVE PushesReach'
  BY <1>25, <1>0, NoPush DEF Lands, IsLost
<1>26. ASSUME Expires \/ CheckUserOnline PROVE PushesReach'
  BY <1>26, <1>0, NoPush DEF Expires, CheckUserOnline
<1>27. ASSUME UNCHANGED vars PROVE PushesReach'
  BY <1>27, <1>0, NoPush DEF vars
<1>28. QED
  BY <1>1, <1>2, <1>3, <1>4, <1>5, <1>6, <1>7, <1>8, <1>9, <1>10, <1>11, <1>12, <1>13,
     <1>14, <1>15, <1>16, <1>17, <1>18, <1>19, <1>20, <1>21, <1>22, <1>23, <1>24, <1>25,
     <1>26, <1>27 DEF Next, SessionStep, MessageStep

-----------------------------------------------------------------------------
(* The theorems.                                                            *)

LEMMA InvHolds == Spec => []Inv
<1>1. Init => Inv
  <2> SUFFICES ASSUME Init PROVE Inv
    OBVIOUS
  <2>1. TypeOK
    <3>1. Scan("off") \in ScanRecord /\ Idle \in AckRecord
      BY DEF Scan, ScanRecord, Idle, AckRecord
    <3>2. scan \in [Sessions -> ScanRecord] /\ acking \in [Sessions -> AckRecord]
      BY <3>1 DEF Init
    <3>3. \A s \in Sessions : queue[s] = <<>> /\ Len(queue[s]) <= QueueCap
      BY GatewayAssumption DEF Init
    <3>4. queue \in [Sessions -> Seq(Msgs \cup {Note})]
      BY DEF Init
    <3> QED BY <3>2, <3>3, <3>4 DEF Init, TypeOK, ScanRecord, AckRecord, Writes
  <2>2. SessionsOK /\ NewestStays /\ MessagesOK
    <3>1. SessionsOK /\ NewestStays
      BY GatewayAssumption DEF Init, SessionsOK, NewestStays, Scan
    <3>2. MessagesOK
      BY DEF Init, MessagesOK, Idle
    <3> QED BY <3>1, <3>2
  <2>3. ScansOK /\ CompleteMeansAcked /\ PushesReach
    BY GatewayAssumption DEF Init, ScansOK, ScanOK, Scanning, Scan, CompleteMeansAcked,
       PushesReach, Due
  <2> QED BY <2>1, <2>2, <2>3 DEF Inv
<1>2. Inv /\ [Next]_vars => Inv'
  BY TypeStep, SessionsStep, MessagesStep, ScansStep, PushesStep DEF Inv
<1> QED BY <1>1, <1>2, PTL DEF Spec

(* Types: whatever the clients, MySQL, Mongo and Redis do, no write queue   *)
(* grows past its capacity, which asyncSend and the scan check.             *)
THEOREM GatewayTypes == Spec => []TypeOK
<1>1. Inv => TypeOK
  BY DEF Inv
<1> QED BY <1>1, InvHolds, PTL

(* The session that logged in last keeps the account until it goes down     *)
(* itself: unregisterSession of a replaced session removes nothing.         *)
THEOREM NewestKeepsAccount == Spec => []NewestStays
<1>1. Inv => NewestStays
  BY DEF Inv
<1> QED BY <1>1, InvHolds, PTL

(* scanOfflineMessages says "offline sync complete" only when every message *)
(* published before it began has its receipt, or was deleted.               *)
THEOREM CompletionIsTrue == Spec => []CompleteMeansAcked
<1>1. Inv => CompleteMeansAcked
  BY DEF Inv
<1> QED BY <1>1, InvHolds, PTL

(* Between the scan of scanOfflineMessages and the online push of PushMsg,  *)
(* no message is missed by both, but for a wrong online flag or a failed    *)
(* call to the gateway (deferred).                                          *)
THEOREM NothingStranded == Spec => []NoneStranded
<1>1. Inv => NoneStranded
  <2> SUFFICES ASSUME Inv, NEW m \in Msgs, push[m] = "done", Deliverable(m), m \notin deferred,
                      registered \in complete
               PROVE  Carried(registered, m)
    BY DEF NoneStranded, Carried, Queued
  <2>1. registered \in Sessions /\ conn[registered] = "open"
    BY DEF Inv, TypeOK, SessionsOK
  <2>2. m \notin scan[registered].start
    BY DEF Inv, CompleteMeansAcked, Deliverable
  <2> QED BY <2>1, <2>2 DEF Inv, PushesReach, Due
<1> QED BY <1>1, InvHolds, PTL
=============================================================================
