---------------------------- MODULE Conversation ----------------------------
(***************************************************************************)
(* The conversation list: tables im_conversations and                       *)
(* im_conversation_unread and the operations of MySQLHandler on them        *)
(* (storage/mysqlhandler.cpp), behind conversation_service/server.cpp.      *)
(*                                                                         *)
(* One account, side "me", talks to several friends; conversation c has a   *)
(* row for "me" and one for its "peer".  Messages reach                     *)
(* RecordConversationMessage from the outbox workers, in any order: their   *)
(* ids are taken before the pair lock and workers run side by side.         *)
(*                                                                         *)
(* Every operation locks its rows with its first statement and is one       *)
(* transaction, so it is one step; SortedConversations reads twice.         *)
(***************************************************************************)
EXTENDS Naturals, FiniteSets, FiniteSetsExt

CONSTANTS
    Convs,       \* conversations of the account, as numbers in the order of
                 \* their ids
    MaxSeq,      \* bound: ids handed out by Snowflake::nextId
    MaxQueued,   \* bound: messages between nextId and RecordConversationMessage
    SendTime,    \* sendTime of a message by its id: equal for ids of one
                 \* millisecond, and not necessarily in their order
    SizeLimit,   \* rows of a page at most (100)
    MaxPage, MaxShown   \* bounds: what a list request asks for

ASSUME ConversationConstants ==
    /\ Convs \subseteq Nat /\ IsFiniteSet(Convs)
    /\ MaxSeq \in Nat /\ MaxQueued \in Nat
    /\ SendTime \in [0..MaxSeq -> Nat]
    /\ SizeLimit \in Nat \ {0} /\ MaxPage \in Nat /\ MaxShown \in Nat

Seqs == 1..MaxSeq
Sides == {"me", "peer"}
Rows == Convs \X Sides
Other(s) == IF s = "me" THEN "peer" ELSE "me"
Message == [conv : Convs, from : Sides, seq : Seqs]
Idle == [step |-> "idle"]

VARIABLES
    friends,      \* conversations whose accounts are friends
    deletedSeq,   \* friend_chat_deletions.deleted_seq of a conversation
    lastId,       \* the id handed out last
    queued,       \* messages with an id that are not recorded yet
    exists,       \* primary keys of im_conversations
    hidden,       \* rows with is_hidden=1
    pinned,       \* rows with is_pinned=1; recv_msg_opt behaves alike
    maxSeq, readSeq, unreadCount,   \* columns of the same names
    latest,       \* the message latest_message shows
    unread,       \* im_conversation_unread, by row
    inbox,        \* history: messages recorded for the receiver's row
    list          \* a SortedConversations call of the account

rowVars == <<exists, hidden, pinned, maxSeq, readSeq, unreadCount, latest, unread, inbox>>
vars == <<friends, deletedSeq, lastId, queued, rowVars, list>>

Init ==
    /\ friends = Convs
    /\ deletedSeq = [c \in Convs |-> 0]
    /\ lastId = 0
    /\ queued = {}
    /\ exists = {} /\ hidden = {} /\ pinned = {}
    /\ maxSeq = [r \in Rows |-> 0]
    /\ readSeq = [r \in Rows |-> 0]
    /\ unreadCount = [r \in Rows |-> 0]
    /\ latest = [r \in Rows |-> 0]
    /\ unread = [r \in Rows |-> {}]
    /\ inbox = [r \in Rows |-> {}]
    /\ list = Idle

-----------------------------------------------------------------------------
(* SendMessages takes an id; the message waits for its outbox worker.       *)
SendMessages(c, s) ==
    /\ lastId < MaxSeq
    /\ Cardinality(queued) < MaxQueued
    /\ lastId' = lastId + 1
    /\ queued' = queued \cup {[conv |-> c, from |-> s, seq |-> lastId + 1]}
    /\ UNCHANGED <<friends, deletedSeq, rowVars, list>>

(* friendAllows under the pair lock, at the head of the worker's phase.     *)
FriendAllows(m) == m.conv \in friends /\ m.seq > deletedSeq[m.conv]

(* The message is refused or cancelled.                                     *)
Cancel(m) ==
    /\ ~FriendAllows(m)
    /\ queued' = queued \ {m}
    /\ UNCHANGED <<friends, deletedSeq, lastId, rowVars, list>>

(* Mutant of NewerThanRow: the summary follows the order of arrival.        *)
AlwaysNewer(m, r) == TRUE

(* VALUES(max_seq) > max_seq, and the case of a row that is inserted.       *)
NewerThanRow(m, r) == r \notin exists \/ m.seq > maxSeq[r]

(* Mutant of CountsAsUnread: the receiver's read position is not consulted. *)
AlwaysUnread(m, r) == m.seq \notin unread[r]

(* INSERT IGNORE ... WHERE read_seq < seq AND min_seq < seq; min_seq is 0   *)
(* in every row.                                                            *)
CountsAsUnread(m, r) == readSeq[r] < m.seq /\ m.seq \notin unread[r]

(* RecordConversationMessage: both rows in one statement, then the unread   *)
(* row of the receiver and its counter.                                     *)
RecordConversationMessage(m) ==
    /\ FriendAllows(m)
    /\ queued' = queued \ {m}
    /\ LET both == {m.conv} \X Sides
           newer == {r \in both : NewerThanRow(m, r)}
           to == <<m.conv, Other(m.from)>>
           counted == CountsAsUnread(m, to)
       IN /\ exists' = exists \cup both
          /\ hidden' = hidden \ newer
          /\ maxSeq' = [r \in Rows |-> IF r \in both /\ m.seq > maxSeq[r]
                                       THEN m.seq ELSE maxSeq[r]]
          /\ latest' = [r \in Rows |-> IF r \in newer THEN m.seq ELSE latest[r]]
          /\ unread' = IF counted THEN [unread EXCEPT ![to] = @ \cup {m.seq}] ELSE unread
          /\ unreadCount' = IF counted THEN [unreadCount EXCEPT ![to] = @ + 1]
                            ELSE unreadCount
          /\ inbox' = [inbox EXCEPT ![to] = @ \cup {m.seq}]
    /\ UNCHANGED <<friends, deletedSeq, lastId, pinned, readSeq, list>>

-----------------------------------------------------------------------------
(* MarkConversationRead(seq): positions above max_seq are refused, those    *)
(* at or below read_seq are accepted and change nothing.                    *)
MarkConversationRead(r, q) ==
    /\ r \in exists /\ q <= maxSeq[r] /\ q > readSeq[r]
    /\ LET removed == {s \in unread[r] : s <= q}
       IN /\ unread' = [unread EXCEPT ![r] = @ \ removed]
          /\ unreadCount' = [unreadCount EXCEPT ![r] =
                                @ - Min({@, Cardinality(removed)})]
    /\ readSeq' = [readSeq EXCEPT ![r] = q]
    /\ UNCHANGED <<friends, deletedSeq, lastId, queued, exists, hidden, pinned,
                   maxSeq, latest, inbox, list>>

(* Mutant of DeleteConversation: the read position stays where it was.      *)
HideKeepsPosition(r) ==
    /\ r \in exists
    /\ unread' = [unread EXCEPT ![r] = {}]
    /\ hidden' = hidden \cup {r}
    /\ unreadCount' = [unreadCount EXCEPT ![r] = 0]
    /\ UNCHANGED <<friends, deletedSeq, lastId, queued, exists, pinned, maxSeq,
                   readSeq, latest, inbox, list>>

(* DeleteConversation: hidden, and everything recorded so far counts as     *)
(* read.                                                                    *)
DeleteConversation(r) ==
    /\ r \in exists
    /\ unread' = [unread EXCEPT ![r] = {}]
    /\ hidden' = hidden \cup {r}
    /\ readSeq' = [readSeq EXCEPT ![r] = maxSeq[r]]
    /\ unreadCount' = [unreadCount EXCEPT ![r] = 0]
    /\ UNCHANGED <<friends, deletedSeq, lastId, queued, exists, pinned, maxSeq,
                   latest, inbox, list>>

(* UpdateConversationSettings, its UPDATE ... AND is_hidden=0.  The SELECT   *)
(* that follows an UPDATE without effect only chooses the answer.           *)
UpdateConversationSettings(r, p) ==
    /\ r \in exists /\ r \notin hidden
    /\ pinned' = IF p THEN pinned \cup {r} ELSE pinned \ {r}
    /\ UNCHANGED <<friends, deletedSeq, lastId, queued, exists, hidden, maxSeq,
                   readSeq, unreadCount, latest, unread, inbox, list>>

(* DeleteFriend with DeleteConversationPair; the unread rows go with the    *)
(* foreign key.                                                             *)
Emptied(c, f, zero) == [r \in Rows |-> IF r[1] = c THEN zero ELSE f[r]]

DeleteFriend(c) ==
    /\ c \in friends /\ lastId < MaxSeq
    /\ lastId' = lastId + 1
    /\ deletedSeq' = [deletedSeq EXCEPT ![c] = lastId + 1]
    /\ friends' = friends \ {c}
    /\ exists' = {r \in exists : r[1] # c}
    /\ hidden' = {r \in hidden : r[1] # c}
    /\ pinned' = {r \in pinned : r[1] # c}
    /\ maxSeq' = Emptied(c, maxSeq, 0)
    /\ readSeq' = Emptied(c, readSeq, 0)
    /\ unreadCount' = Emptied(c, unreadCount, 0)
    /\ latest' = Emptied(c, latest, 0)
    /\ unread' = Emptied(c, unread, {})
    /\ inbox' = Emptied(c, inbox, {})
    /\ UNCHANGED <<queued, list>>

BecomeFriends(c) ==
    /\ c \notin friends
    /\ friends' = friends \cup {c}
    /\ UNCHANGED <<deletedSeq, lastId, queued, rowVars, list>>

-----------------------------------------------------------------------------
(* The rows is_hidden=0 of the account.                                     *)
Visible == {r \in exists : r[2] = "me" /\ r \notin hidden}

(* What a SELECT with the filter conversation_id IN (convs) returns of them, *)
(* with the columns the order and the totals are made of.                   *)
Selected(convs) ==
    [r \in {v \in Visible : v[1] \in convs} |->
        [pinned |-> r \in pinned, time |-> SendTime[latest[r]], unread |-> unreadCount[r]]]

(* COALESCE(SUM(unread_count), 0).                                          *)
UnreadSum(rows) == FoldSet(LAMBDA r, sum : rows[r].unread + sum, 0, DOMAIN rows)

(* ORDER BY is_pinned DESC, latest_time DESC, conversation_id DESC.         *)
Ahead(rows, q, r) ==
    \/ rows[q].pinned /\ ~rows[r].pinned
    \/ /\ rows[q].pinned = rows[r].pinned
       /\ \/ rows[q].time > rows[r].time
          \/ rows[q].time = rows[r].time /\ q[1] > r[1]

Place(rows, r) == Cardinality({q \in DOMAIN rows : Ahead(rows, q, r)})

(* LIMIT size OFFSET offset.                                                *)
Page(rows, offset, size) ==
    [r \in {q \in DOMAIN rows : offset <= Place(rows, q) /\ Place(rows, q) < offset + size} |->
        rows[r]]

(* max(1, pageNumber) and clamp(showNumber, 1, 100).                        *)
PageNumber(n) == IF n < 1 THEN 1 ELSE n
PageSize(k) == IF k < 1 THEN 1 ELSE IF k > SizeLimit THEN SizeLimit ELSE k

(* SortedConversations, first SELECT: totals of all rows the filter lets    *)
(* through; without conversation ids there is none.  The REPEATABLE READ    *)
(* snapshot of the transaction is made here.                                *)
ListCount(asked, pageNumber, showNumber) ==
    /\ list.step = "idle"
    /\ LET convs == IF asked = {} THEN Convs ELSE asked
           rows == Selected(convs)
           size == PageSize(showNumber)
       IN list' = [step |-> "counted", convs |-> convs, view |-> rows,
                   total |-> Cardinality(DOMAIN rows), sum |-> UnreadSum(rows),
                   offset |-> (PageNumber(pageNumber) - 1) * size, size |-> size]
    /\ UNCHANGED <<friends, deletedSeq, lastId, queued, rowVars>>

(* The answer: one page of rows, and the totals of the first SELECT.        *)
Listed(rows) ==
    [step |-> "listed", total |-> list.total, sum |-> list.sum,
     offset |-> list.offset, size |-> list.size,
     elems |-> Page(rows, list.offset, list.size)]

(* Mutant of ListPage: the second SELECT sees what was committed since.     *)
ListPageCommitted ==
    /\ list.step = "counted"
    /\ list' = Listed(Selected(list.convs))
    /\ UNCHANGED <<friends, deletedSeq, lastId, queued, rowVars>>

(* Second SELECT: a page of the snapshot.                                   *)
ListPage ==
    /\ list.step = "counted"
    /\ list' = Listed(list.view)
    /\ UNCHANGED <<friends, deletedSeq, lastId, queued, rowVars>>

ListDone ==
    /\ list.step = "listed"
    /\ list' = Idle
    /\ UNCHANGED <<friends, deletedSeq, lastId, queued, rowVars>>

-----------------------------------------------------------------------------
MessageStep ==
    \/ \E c \in Convs, s \in Sides : SendMessages(c, s)
    \/ \E m \in queued : Cancel(m) \/ RecordConversationMessage(m)

OwnerStep ==
    \E r \in Rows :
        \/ \E q \in Seqs : MarkConversationRead(r, q)
        \/ DeleteConversation(r)
        \/ \E p \in BOOLEAN : UpdateConversationSettings(r, p)

FriendStep == \E c \in Convs : DeleteFriend(c) \/ BecomeFriends(c)

ListStep ==
    \/ \E asked \in SUBSET Convs, n \in 0..MaxPage, k \in 0..MaxShown : ListCount(asked, n, k)
    \/ ListPage
    \/ ListDone

Next == MessageStep \/ OwnerStep \/ FriendStep \/ ListStep

Spec == Init /\ [][Next]_vars

-----------------------------------------------------------------------------
(* Type invariant.                                                          *)
TypeOK ==
    /\ friends \subseteq Convs
    /\ deletedSeq \in [Convs -> 0..MaxSeq]
    /\ lastId \in 0..MaxSeq
    /\ queued \subseteq Message
    /\ exists \subseteq Rows /\ hidden \subseteq exists /\ pinned \subseteq exists
    /\ maxSeq \in [Rows -> 0..MaxSeq]
    /\ readSeq \in [Rows -> 0..MaxSeq]
    /\ unreadCount \in [Rows -> Nat]
    /\ latest \in [Rows -> 0..MaxSeq]
    /\ unread \in [Rows -> SUBSET Seqs]
    /\ inbox \in [Rows -> SUBSET Seqs]

(* The counter a client sees is exact: unread_count is the number of        *)
(* unread rows, and these are the received messages above the read          *)
(* position, although messages are recorded out of order, the position      *)
(* jumps, and counter and rows are written by different statements.         *)
UnreadExact ==
    \A r \in Rows :
        /\ unread[r] = {s \in inbox[r] : s > readSeq[r]}
        /\ unreadCount[r] = Cardinality(unread[r])

(* A conversation the account has deleted stays quiet until a newer message *)
(* shows it again: while it is hidden everything in it counts as read, and  *)
(* a message recorded late does not raise its counter.                      *)
HiddenIsQuiet ==
    \A r \in hidden : unreadCount[r] = 0 /\ readSeq[r] = maxSeq[r]

(* Both sides show the same newest message, and none that was sent before   *)
(* the last friend deletion: the two rows of a conversation come and go     *)
(* together and agree on max_seq, which is the message in the summary.      *)
SidesAgree ==
    \A c \in Convs :
        /\ <<c, "me">> \in exists <=> <<c, "peer">> \in exists
        /\ maxSeq[<<c, "me">>] = maxSeq[<<c, "peer">>]
        /\ \A s \in Sides :
              /\ latest[<<c, s>>] = maxSeq[<<c, s>>]
              /\ <<c, s>> \in exists => latest[<<c, s>>] > deletedSeq[c]
              /\ readSeq[<<c, s>>] <= maxSeq[<<c, s>>]

(* The read position of a row never goes back: neither an old position      *)
(* reported late, nor DeleteConversation, nor a message recorded late moves *)
(* it down (MarkConversationRead, DeleteConversation).                      *)
ReadNeverBack ==
    [][\A r \in exists \cap exists' : readSeq'[r] >= readSeq[r]]_vars

(* Totals and page of a list reply belong together, whatever is committed   *)
(* between the two SELECTs of SortedConversations: a client that divides    *)
(* conversationTotal by the page size finds every page full but the last,   *)
(* and a page that holds all conversations adds up to unreadTotal.          *)
PageLength(total, offset, size) ==
    IF total <= offset THEN 0 ELSE IF total - offset < size THEN total - offset ELSE size

ListConsistent ==
    list.step = "listed" =>
        LET n == Cardinality(DOMAIN list.elems) IN
        /\ n = PageLength(list.total, list.offset, list.size)
        /\ n = list.total => list.sum = UnreadSum(list.elems)
=============================================================================
