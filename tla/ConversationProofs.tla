------------------------- MODULE ConversationProofs -------------------------
(***************************************************************************)
(* The counters and positions of the conversation list, for any number of   *)
(* conversations and messages.                                              *)
(***************************************************************************)
EXTENDS Conversation, FiniteSetTheorems, TLAPS

-----------------------------------------------------------------------------
(* Nothing recorded is above max_seq, and a key without a row has no        *)
(* history.                                                                 *)
RowsBounded ==
    \A r \in Rows :
        /\ \A s \in inbox[r] : s <= maxSeq[r]
        /\ r \notin exists => maxSeq[r] = 0 /\ inbox[r] = {}

Inv == TypeOK /\ UnreadExact /\ HiddenIsQuiet /\ SidesAgree /\ RowsBounded

(* Min of the counter and a smaller number is that number.                  *)
LEMMA MinOfSmaller ==
    ASSUME NEW a \in Nat, NEW b \in Nat, b <= a PROVE Min({a, b}) = b
<1>1. \A x \in {a, b} : (\A y \in {a, b} : x <= y) <=> x = b
  OBVIOUS
<1>2. QED
  BY <1>1 DEF Min

(* Every set of ids is finite.                                              *)
LEMMA SeqsFinite ==
    ASSUME NEW S \in SUBSET Seqs PROVE IsFiniteSet(S) /\ Cardinality(S) \in Nat
<1>1. IsFiniteSet(Seqs)
  BY FS_Interval, ConversationConstants DEF Seqs
<1>2. IsFiniteSet(S)
  BY <1>1, FS_Subset
<1>3. QED
  BY <1>2, FS_CardinalityType

(* An empty database satisfies the invariant.                               *)
LEMMA InitInv == Init => Inv
<1> SUFFICES ASSUME Init PROVE Inv
  OBVIOUS
<1>1. TypeOK
  BY ConversationConstants DEF Init, TypeOK, Seqs
<1>2. UnreadExact
  BY FS_EmptySet DEF Init, UnreadExact
<1>3. SidesAgree
  <2>1. \A c \in Convs, s \in Sides : <<c, s>> \in Rows
    BY DEF Rows
  <2>2. "me" \in Sides /\ "peer" \in Sides
    BY DEF Sides
  <2>3. QED
    BY <2>1, <2>2 DEF Init, SidesAgree
<1>4. HiddenIsQuiet /\ RowsBounded
  BY DEF Init, HiddenIsQuiet, RowsBounded
<1>5. QED
  BY <1>1, <1>2, <1>3, <1>4 DEF Inv

(* RecordConversationMessage keeps the invariant.                           *)
LEMMA RecordInv ==
    ASSUME Inv, NEW m \in queued, RecordConversationMessage(m) PROVE Inv'
<1> DEFINE both == {m.conv} \X Sides
           newer == {r \in both : NewerThanRow(m, r)}
           to == <<m.conv, Other(m.from)>>
           counted == CountsAsUnread(m, to)
<1>1. /\ m.conv \in Convs /\ m.seq \in Seqs /\ m.seq \in Nat /\ m.seq > 0
      /\ to \in Rows /\ to \in both /\ both \subseteq Rows
  BY DEF Inv, TypeOK, Message, Rows, Other, Sides, Seqs
<1>2. \A r \in both : r[1] = m.conv
  OBVIOUS
<1>3. /\ queued' = queued \ {m}
      /\ exists' = exists \cup both
      /\ hidden' = hidden \ newer
      /\ maxSeq' = [r \in Rows |-> IF r \in both /\ m.seq > maxSeq[r] THEN m.seq ELSE maxSeq[r]]
      /\ latest' = [r \in Rows |-> IF r \in newer THEN m.seq ELSE latest[r]]
      /\ unread' = IF counted THEN [unread EXCEPT ![to] = @ \cup {m.seq}] ELSE unread
      /\ unreadCount' = IF counted THEN [unreadCount EXCEPT ![to] = @ + 1] ELSE unreadCount
      /\ inbox' = [inbox EXCEPT ![to] = @ \cup {m.seq}]
      /\ UNCHANGED <<friends, deletedSeq, lastId, pinned, readSeq, list>>
  BY DEF RecordConversationMessage
<1>4. FriendAllows(m)
  BY DEF RecordConversationMessage
<1> HIDE DEF both, to, counted
<1>5. TypeOK'
  BY <1>1, <1>3 DEF Inv, TypeOK, Seqs
<1>6. \A r \in Rows \ {to} : unread'[r] = unread[r] /\ inbox'[r] = inbox[r]
                             /\ unreadCount'[r] = unreadCount[r]
  BY <1>3 DEF Inv, TypeOK
<1>7. UnreadExact'
  <2> SUFFICES ASSUME NEW r \in Rows
               PROVE /\ unread'[r] = {s \in inbox'[r] : s > readSeq[r]}
                     /\ unreadCount'[r] = Cardinality(unread'[r])
    BY <1>3 DEF UnreadExact
  <2>1. CASE r # to
    BY <2>1, <1>6 DEF Inv, UnreadExact
  <2>2. CASE r = to /\ counted
    <3>1. unread'[r] = unread[r] \cup {m.seq} /\ inbox'[r] = inbox[r] \cup {m.seq}
          /\ unreadCount'[r] = unreadCount[r] + 1
      BY <2>2, <1>1, <1>3 DEF Inv, TypeOK
    <3>2. readSeq[r] < m.seq /\ m.seq \notin unread[r]
      BY <2>2 DEF counted, CountsAsUnread
    <3>3. Cardinality(unread[r] \cup {m.seq}) = Cardinality(unread[r]) + 1
      BY <3>2, SeqsFinite, FS_AddElement DEF Inv, TypeOK
    <3>4. QED
      BY <3>1, <3>2, <3>3 DEF Inv, UnreadExact, TypeOK
  <2>3. CASE r = to /\ ~counted
    <3>1. unread'[r] = unread[r] /\ inbox'[r] = inbox[r] \cup {m.seq}
          /\ unreadCount'[r] = unreadCount[r]
      BY <2>3, <1>1, <1>3 DEF Inv, TypeOK
    <3>2. ~(readSeq[r] < m.seq) \/ m.seq \in unread[r]
      BY <2>3 DEF counted, CountsAsUnread
    <3>3. unread[r] = {s \in inbox[r] : s > readSeq[r]} /\ readSeq[r] \in Nat
      BY DEF Inv, UnreadExact, TypeOK
    <3>4. {s \in inbox[r] \cup {m.seq} : s > readSeq[r]} = {s \in inbox[r] : s > readSeq[r]}
      BY <3>2, <3>3, <1>1
    <3>5. QED
      BY <3>1, <3>3, <3>4 DEF Inv, UnreadExact
  <2>4. QED
    BY <2>1, <2>2, <2>3
<1>8. HiddenIsQuiet'
  <2> SUFFICES ASSUME NEW r \in hidden' PROVE unreadCount'[r] = 0 /\ readSeq[r] = maxSeq'[r]
    BY <1>3 DEF HiddenIsQuiet
  <2>1. r \in hidden /\ r \in Rows /\ unreadCount[r] = 0 /\ readSeq[r] = maxSeq[r] /\ r \in exists
        /\ maxSeq[r] \in Nat
    BY <1>3 DEF Inv, TypeOK, HiddenIsQuiet
  <2>2. r \in both => ~(m.seq > maxSeq[r])
    BY <1>3, <2>1 DEF NewerThanRow
  <2>3. maxSeq'[r] = maxSeq[r]
    BY <1>3, <2>1, <2>2
  <2>4. r = to => ~counted
    BY <2>1, <2>2, <1>1 DEF counted, CountsAsUnread
  <2>5. unreadCount'[r] = unreadCount[r]
    BY <2>4, <1>3, <1>6, <2>1
  <2>6. QED
    BY <2>1, <2>3, <2>5
<1>9. RowsBounded'
  BY <1>1, <1>3, <1>6 DEF Inv, RowsBounded, TypeOK, Seqs
<1>10. SidesAgree'
  <2> SUFFICES ASSUME NEW c \in Convs
               PROVE (/\ <<c, "me">> \in exists <=> <<c, "peer">> \in exists
                      /\ maxSeq[<<c, "me">>] = maxSeq[<<c, "peer">>]
                      /\ \A s \in Sides :
                          /\ latest[<<c, s>>] = maxSeq[<<c, s>>]
                          /\ <<c, s>> \in exists => latest[<<c, s>>] > deletedSeq[c]
                          /\ readSeq[<<c, s>>] <= maxSeq[<<c, s>>])'
    BY DEF SidesAgree
  <2>1. \A s \in Sides : <<c, s>> \in Rows /\ (<<c, s>> \in both <=> c = m.conv)
    BY DEF Rows, both
  <2>2. "me" \in Sides /\ "peer" \in Sides
    BY DEF Sides
  <2>3. CASE c # m.conv
    <3>1. \A s \in Sides : /\ <<c, s>> \in exists' <=> <<c, s>> \in exists
                           /\ maxSeq'[<<c, s>>] = maxSeq[<<c, s>>]
                           /\ latest'[<<c, s>>] = latest[<<c, s>>]
      BY <2>1, <2>3, <1>3
    <3>2. QED
      BY <3>1, <2>2, <1>3 DEF Inv, SidesAgree
  <2>4. CASE c = m.conv
    <3>1. m.seq > deletedSeq[c] /\ deletedSeq[c] \in Nat
      BY <1>4, <2>4 DEF FriendAllows, Inv, TypeOK
    <3>2. \A s \in Sides : /\ <<c, s>> \in exists'
                           /\ maxSeq'[<<c, s>>] = IF m.seq > maxSeq[<<c, s>>] THEN m.seq
                                                  ELSE maxSeq[<<c, s>>]
                           /\ maxSeq[<<c, s>>] \in Nat /\ readSeq[<<c, s>>] \in Nat
      BY <2>1, <2>4, <1>3 DEF Inv, TypeOK
    <3>3. \A s \in Sides : latest'[<<c, s>>] = IF <<c, s>> \notin exists \/ m.seq > maxSeq[<<c, s>>]
                                               THEN m.seq ELSE latest[<<c, s>>]
      BY <2>1, <2>4, <1>3 DEF NewerThanRow
    <3>4. \A s \in Sides : <<c, s>> \notin exists => maxSeq[<<c, s>>] = 0
      BY <2>1 DEF Inv, RowsBounded
    <3>5. \A s \in Sides : /\ latest[<<c, s>>] = maxSeq[<<c, s>>]
                           /\ <<c, s>> \in exists => latest[<<c, s>>] > deletedSeq[c]
                           /\ readSeq[<<c, s>>] <= maxSeq[<<c, s>>]
      BY DEF Inv, SidesAgree
    <3>6. maxSeq[<<c, "me">>] = maxSeq[<<c, "peer">>]
      BY DEF Inv, SidesAgree
    <3>7. \A s \in Sides : /\ latest'[<<c, s>>] = maxSeq'[<<c, s>>]
                           /\ latest'[<<c, s>>] > deletedSeq[c]
                           /\ readSeq[<<c, s>>] <= maxSeq'[<<c, s>>]
      BY <3>1, <3>2, <3>3, <3>4, <3>5, <1>1
    <3>8. maxSeq'[<<c, "me">>] = maxSeq'[<<c, "peer">>]
      BY <3>2, <3>6, <2>2
    <3>9. <<c, "me">> \in exists' /\ <<c, "peer">> \in exists'
      BY <3>2, <2>2
    <3>10. readSeq' = readSeq /\ deletedSeq' = deletedSeq
      BY <1>3
    <3>11. QED
      BY <3>7, <3>8, <3>9, <3>10
  <2>5. QED
    BY <2>3, <2>4
<1>11. QED
  BY <1>5, <1>7, <1>8, <1>9, <1>10 DEF Inv

(* A step that leaves the rows alone keeps what is said about them.         *)
LEMMA FrameInv ==
    ASSUME Inv, TypeOK', UNCHANGED <<rowVars, deletedSeq>> PROVE Inv'
<1>1. UnreadExact' /\ HiddenIsQuiet'
  BY DEF Inv, rowVars, UnreadExact, HiddenIsQuiet
<1>2. SidesAgree'
  BY DEF Inv, rowVars, SidesAgree
<1>3. RowsBounded'
  BY DEF Inv, rowVars, RowsBounded
<1>4. QED
  BY <1>1, <1>2, <1>3 DEF Inv

(* MarkConversationRead takes off the counter what it deletes.              *)
LEMMA MarkReadInv ==
    ASSUME Inv, NEW r \in Rows, NEW q \in Seqs, MarkConversationRead(r, q) PROVE Inv'
<1> DEFINE removed == {s \in unread[r] : s <= q}
<1>1. /\ r \in exists /\ q <= maxSeq[r] /\ q > readSeq[r]
      /\ unread' = [unread EXCEPT ![r] = @ \ removed]
      /\ unreadCount' = [unreadCount EXCEPT ![r] = @ - Min({@, Cardinality(removed)})]
      /\ readSeq' = [readSeq EXCEPT ![r] = q]
      /\ UNCHANGED <<friends, deletedSeq, lastId, queued, exists, hidden, pinned,
                     maxSeq, latest, inbox, list>>
  BY DEF MarkConversationRead
<1>2. unread[r] \in SUBSET Seqs /\ removed \in SUBSET Seqs /\ unread[r] \cap removed = removed
      /\ q \in Nat /\ readSeq[r] \in Nat /\ inbox[r] \in SUBSET Seqs
  BY DEF Inv, TypeOK, Seqs
<1>3. /\ Cardinality(unread[r] \ removed) = Cardinality(unread[r]) - Cardinality(removed)
      /\ Cardinality(unread[r]) \in Nat /\ Cardinality(removed) \in Nat
      /\ Cardinality(removed) <= Cardinality(unread[r])
  BY <1>2, SeqsFinite, FS_Difference, FS_Subset
<1>4. unreadCount[r] = Cardinality(unread[r])
  BY DEF Inv, UnreadExact
<1>5. unreadCount'[r] = Cardinality(unread[r] \ removed)
  <2>1. Min({unreadCount[r], Cardinality(removed)}) = Cardinality(removed)
    BY <1>3, <1>4, MinOfSmaller
  <2>2. unreadCount'[r] = unreadCount[r] - Cardinality(removed)
    BY <1>1, <2>1 DEF Inv, TypeOK
  <2>3. QED
    BY <2>2, <1>3, <1>4
<1>6. unreadCount'[r] \in Nat
  BY <1>2, <1>5, SeqsFinite
<1>7. unread'[r] = {s \in inbox[r] : s > q}
  <2>1. unread'[r] = unread[r] \ removed
    BY <1>1 DEF Inv, TypeOK
  <2>2. unread[r] = {s \in inbox[r] : s > readSeq[r]}
    BY DEF Inv, UnreadExact
  <2>3. QED
    BY <2>1, <2>2, <1>1, <1>2 DEF Seqs
<1>8. \A x \in Rows \ {r} : unread'[x] = unread[x] /\ unreadCount'[x] = unreadCount[x]
                            /\ readSeq'[x] = readSeq[x]
  BY <1>1 DEF Inv, TypeOK
<1>9. readSeq'[r] = q
  BY <1>1 DEF Inv, TypeOK
<1>10. TypeOK'
  <2>1. unreadCount' \in [Rows -> Nat]
    <3>1. unreadCount' = [x \in Rows |-> IF x = r THEN unreadCount'[r] ELSE unreadCount[x]]
      BY <1>1 DEF Inv, TypeOK
    <3>2. QED
      BY <3>1, <1>6 DEF Inv, TypeOK
  <2>2. QED
    BY <2>1, <1>1, <1>2 DEF Inv, TypeOK, Seqs
<1>11. UnreadExact'
  <2>1. unread'[r] = unread[r] \ removed
    BY <1>1 DEF Inv, TypeOK
  <2>2. \A x \in Rows : /\ unread'[x] = {s \in inbox[x] : s > readSeq'[x]}
                        /\ unreadCount'[x] = Cardinality(unread'[x])
    BY <1>5, <1>7, <1>8, <1>9, <2>1 DEF Inv, UnreadExact
  <2>3. QED
    BY <2>2, <1>1 DEF UnreadExact
<1>12. HiddenIsQuiet'
  <2>1. r \notin hidden
    BY <1>1, <1>2 DEF Inv, HiddenIsQuiet
  <2>2. QED
    BY <2>1, <1>1, <1>8 DEF Inv, HiddenIsQuiet, TypeOK
<1>13. SidesAgree'
  <2>1. \A c \in Convs, s \in Sides : readSeq'[<<c, s>>] <= maxSeq[<<c, s>>]
    <3> SUFFICES ASSUME NEW c \in Convs, NEW s \in Sides
                 PROVE readSeq'[<<c, s>>] <= maxSeq[<<c, s>>]
      OBVIOUS
    <3>1. <<c, s>> \in Rows
      BY DEF Rows
    <3>2. QED
      BY <3>1, <1>1, <1>8, <1>9 DEF Inv, SidesAgree
  <2>2. QED
    BY <2>1, <1>1 DEF Inv, SidesAgree
<1>14. RowsBounded'
  BY <1>1 DEF Inv, RowsBounded
<1>15. QED
  BY <1>10, <1>11, <1>12, <1>13, <1>14 DEF Inv

(* DeleteConversation moves the position to max_seq, above all that came.   *)
LEMMA DeleteConversationInv ==
    ASSUME Inv, NEW r \in Rows, DeleteConversation(r) PROVE Inv'
<1>1. /\ r \in exists
      /\ unread' = [unread EXCEPT ![r] = {}]
      /\ hidden' = hidden \cup {r}
      /\ readSeq' = [readSeq EXCEPT ![r] = maxSeq[r]]
      /\ unreadCount' = [unreadCount EXCEPT ![r] = 0]
      /\ UNCHANGED <<friends, deletedSeq, lastId, queued, exists, pinned, maxSeq,
                     latest, inbox, list>>
  BY DEF DeleteConversation
<1>2. TypeOK'
  BY <1>1 DEF Inv, TypeOK
<1>3. \A x \in Rows : /\ unread'[x] = IF x = r THEN {} ELSE unread[x]
                      /\ unreadCount'[x] = IF x = r THEN 0 ELSE unreadCount[x]
                      /\ readSeq'[x] = IF x = r THEN maxSeq[r] ELSE readSeq[x]
  BY <1>1 DEF Inv, TypeOK
<1>4. UnreadExact'
  <2>1. {s \in inbox[r] : s > maxSeq[r]} = {}
    BY DEF Inv, RowsBounded, TypeOK, Seqs
  <2>2. \A x \in Rows : /\ unread'[x] = {s \in inbox[x] : s > readSeq'[x]}
                        /\ unreadCount'[x] = Cardinality(unread'[x])
    BY <2>1, <1>3, FS_EmptySet DEF Inv, UnreadExact
  <2>3. QED
    BY <2>2, <1>1 DEF UnreadExact
<1>5. HiddenIsQuiet'
  BY <1>1, <1>3 DEF Inv, HiddenIsQuiet, TypeOK
<1>6. SidesAgree'
  <2>1. \A c \in Convs, s \in Sides : readSeq'[<<c, s>>] <= maxSeq[<<c, s>>]
    <3> SUFFICES ASSUME NEW c \in Convs, NEW s \in Sides
                 PROVE readSeq'[<<c, s>>] <= maxSeq[<<c, s>>]
      OBVIOUS
    <3>1. <<c, s>> \in Rows
      BY DEF Rows
    <3>2. maxSeq[<<c, s>>] \in Nat
      BY <3>1 DEF Inv, TypeOK
    <3>3. readSeq[<<c, s>>] <= maxSeq[<<c, s>>]
      BY DEF Inv, SidesAgree
    <3>4. QED
      BY <3>1, <3>2, <3>3, <1>3
  <2>2. QED
    BY <2>1, <1>1 DEF Inv, SidesAgree
<1>7. RowsBounded'
  BY <1>1 DEF Inv, RowsBounded
<1>8. QED
  BY <1>2, <1>4, <1>5, <1>6, <1>7 DEF Inv

(* DeleteFriend empties both rows at once.                                  *)
LEMMA DeleteFriendInv ==
    ASSUME Inv, NEW c \in Convs, DeleteFriend(c) PROVE Inv'
<1>1. /\ lastId < MaxSeq /\ lastId' = lastId + 1
      /\ deletedSeq' = [deletedSeq EXCEPT ![c] = lastId + 1]
      /\ friends' = friends \ {c}
      /\ exists' = {r \in exists : r[1] # c}
      /\ hidden' = {r \in hidden : r[1] # c}
      /\ pinned' = {r \in pinned : r[1] # c}
      /\ UNCHANGED <<queued, list>>
  BY DEF DeleteFriend
<1>2. /\ maxSeq' = [r \in Rows |-> IF r[1] = c THEN 0 ELSE maxSeq[r]]
      /\ readSeq' = [r \in Rows |-> IF r[1] = c THEN 0 ELSE readSeq[r]]
      /\ unreadCount' = [r \in Rows |-> IF r[1] = c THEN 0 ELSE unreadCount[r]]
      /\ latest' = [r \in Rows |-> IF r[1] = c THEN 0 ELSE latest[r]]
      /\ unread' = [r \in Rows |-> IF r[1] = c THEN {} ELSE unread[r]]
      /\ inbox' = [r \in Rows |-> IF r[1] = c THEN {} ELSE inbox[r]]
  BY DEF DeleteFriend, Emptied
<1>3. TypeOK'
  <2>1. lastId + 1 \in 0..MaxSeq
    BY <1>1, ConversationConstants DEF Inv, TypeOK
  <2>2. /\ maxSeq' \in [Rows -> 0..MaxSeq] /\ readSeq' \in [Rows -> 0..MaxSeq]
        /\ latest' \in [Rows -> 0..MaxSeq] /\ unreadCount' \in [Rows -> Nat]
    BY <1>2, ConversationConstants DEF Inv, TypeOK
  <2>3. unread' \in [Rows -> SUBSET Seqs] /\ inbox' \in [Rows -> SUBSET Seqs]
    BY <1>2 DEF Inv, TypeOK
  <2>4. QED
    BY <1>1, <2>1, <2>2, <2>3 DEF Inv, TypeOK
<1>4. UnreadExact'
  BY <1>2, FS_EmptySet DEF Inv, UnreadExact, TypeOK
<1>5. HiddenIsQuiet'
  BY <1>1, <1>2 DEF Inv, HiddenIsQuiet, TypeOK
<1>6. RowsBounded'
  BY <1>1, <1>2 DEF Inv, RowsBounded, TypeOK
<1>7. SidesAgree'
  <2>1. \A d \in Convs, s \in Sides :
            /\ <<d, s>> \in Rows
            /\ <<d, s>> \in exists' <=> d # c /\ <<d, s>> \in exists
            /\ maxSeq'[<<d, s>>] = IF d = c THEN 0 ELSE maxSeq[<<d, s>>]
            /\ latest'[<<d, s>>] = IF d = c THEN 0 ELSE latest[<<d, s>>]
            /\ readSeq'[<<d, s>>] = IF d = c THEN 0 ELSE readSeq[<<d, s>>]
    BY <1>1, <1>2 DEF Rows
  <2>2. \A d \in Convs : d # c => deletedSeq'[d] = deletedSeq[d]
    BY <1>1 DEF Inv, TypeOK
  <2>3. "me" \in Sides /\ "peer" \in Sides
    BY DEF Sides
  <2>4. ASSUME NEW d \in Convs
        PROVE /\ <<d, "me">> \in exists' <=> <<d, "peer">> \in exists'
              /\ maxSeq'[<<d, "me">>] = maxSeq'[<<d, "peer">>]
    BY <2>1, <2>3 DEF Inv, SidesAgree
  <2>5. ASSUME NEW d \in Convs, NEW s \in Sides
        PROVE /\ latest'[<<d, s>>] = maxSeq'[<<d, s>>]
              /\ <<d, s>> \in exists' => latest'[<<d, s>>] > deletedSeq'[d]
              /\ readSeq'[<<d, s>>] <= maxSeq'[<<d, s>>]
    <3>1. /\ latest[<<d, s>>] = maxSeq[<<d, s>>]
          /\ <<d, s>> \in exists => latest[<<d, s>>] > deletedSeq[d]
          /\ readSeq[<<d, s>>] <= maxSeq[<<d, s>>]
      BY DEF Inv, SidesAgree
    <3>2. QED
      BY <3>1, <2>1, <2>2
  <2>6. QED
    BY <2>4, <2>5 DEF SidesAgree
<1>8. QED
  BY <1>3, <1>4, <1>5, <1>6, <1>7 DEF Inv

(* A list request writes no table.                                          *)
LEMMA ListLeavesRows ==
    ListStep => UNCHANGED <<friends, deletedSeq, lastId, queued, rowVars>>
<1>1. ASSUME NEW asked \in SUBSET Convs, NEW n \in 0..MaxPage, NEW k \in 0..MaxShown,
             ListCount(asked, n, k)
      PROVE UNCHANGED <<friends, deletedSeq, lastId, queued, rowVars>>
  BY <1>1, Zenon DEF ListCount
<1>2. ListPage \/ ListDone => UNCHANGED <<friends, deletedSeq, lastId, queued, rowVars>>
  BY Zenon DEF ListPage, ListDone
<1>3. QED
  BY <1>1, <1>2, Zenon DEF ListStep

(* Every step keeps the invariant.                                          *)
LEMMA NextInv == Inv /\ [Next]_vars => Inv'
<1> SUFFICES ASSUME Inv, [Next]_vars PROVE Inv'
  OBVIOUS
<1>1. ASSUME NEW c \in Convs, NEW s \in Sides, SendMessages(c, s) PROVE Inv'
  <2>1. lastId + 1 \in Seqs /\ lastId + 1 \in 0..MaxSeq
    BY <1>1, ConversationConstants DEF SendMessages, Inv, TypeOK, Seqs
  <2>2. TypeOK'
    BY <1>1, <2>1 DEF SendMessages, Inv, TypeOK, rowVars, Message
  <2>3. QED
    BY <2>2, <1>1, FrameInv DEF SendMessages
<1>2. ASSUME NEW m \in queued, Cancel(m) PROVE Inv'
  <2>1. TypeOK'
    BY <1>2 DEF Cancel, Inv, TypeOK, rowVars
  <2>2. QED
    BY <2>1, <1>2, FrameInv DEF Cancel
<1>3. ASSUME NEW c \in Convs, BecomeFriends(c) PROVE Inv'
  <2>1. TypeOK'
    BY <1>3 DEF BecomeFriends, Inv, TypeOK, rowVars
  <2>2. QED
    BY <2>1, <1>3, FrameInv DEF BecomeFriends
<1>4. ASSUME NEW r \in Rows, NEW p \in BOOLEAN, UpdateConversationSettings(r, p) PROVE Inv'
  <2>1. TypeOK'
    BY <1>4 DEF UpdateConversationSettings, Inv, TypeOK
  <2>2. UnreadExact' /\ HiddenIsQuiet'
    BY <1>4 DEF UpdateConversationSettings, Inv, UnreadExact, HiddenIsQuiet
  <2>3. SidesAgree'
    BY <1>4 DEF UpdateConversationSettings, Inv, SidesAgree
  <2>4. RowsBounded'
    BY <1>4 DEF UpdateConversationSettings, Inv, RowsBounded
  <2>5. QED
    BY <2>1, <2>2, <2>3, <2>4 DEF Inv
<1>5. ASSUME UNCHANGED <<friends, deletedSeq, lastId, queued, rowVars>> PROVE Inv'
  <2>1. TypeOK'
    BY <1>5 DEF Inv, TypeOK, rowVars
  <2>2. QED
    BY <2>1, <1>5, FrameInv
<1>6. CASE ListStep
  BY <1>5, <1>6, ListLeavesRows
<1>7. CASE UNCHANGED vars
  BY <1>5, <1>7 DEF vars
<1>8. CASE MessageStep
  BY <1>1, <1>2, <1>8, RecordInv DEF MessageStep
<1>9. CASE OwnerStep
  BY <1>4, <1>9, MarkReadInv, DeleteConversationInv DEF OwnerStep
<1>10. CASE FriendStep
  BY <1>3, <1>10, DeleteFriendInv DEF FriendStep
<1>11. QED
  BY <1>6, <1>7, <1>8, <1>9, <1>10 DEF Next

(* What the theorems below rest on, for every set of conversations.         *)
THEOREM ConversationInv == Spec => []Inv
<1>1. QED
  BY InitInv, NextInv, PTL DEF Spec

(* The columns keep their types, whatever operations interleave.            *)
THEOREM ConversationTypes == Spec => []TypeOK
<1>1. Inv => TypeOK
  BY DEF Inv
<1>2. QED
  BY <1>1, ConversationInv, PTL

(* unread_count is exact in every reachable state: the number of received   *)
(* messages above the read position (RecordConversationMessage,             *)
(* MarkConversationRead, DeleteConversation).                               *)
THEOREM UnreadIsExact == Spec => []UnreadExact
<1>1. Inv => UnreadExact
  BY DEF Inv
<1>2. QED
  BY <1>1, ConversationInv, PTL

(* A deleted conversation has nothing unread until a newer message comes.   *)
THEOREM HiddenStaysQuiet == Spec => []HiddenIsQuiet
<1>1. Inv => HiddenIsQuiet
  BY DEF Inv
<1>2. QED
  BY <1>1, ConversationInv, PTL

(* Both sides always show the same newest message.                          *)
THEOREM SidesAlwaysAgree == Spec => []SidesAgree
<1>1. Inv => SidesAgree
  BY DEF Inv
<1>2. QED
  BY <1>1, ConversationInv, PTL

(* No step moves the read position of a surviving row down.                 *)
THEOREM ReadPositionGrows == Spec => ReadNeverBack
<1> DEFINE Grows == \A r \in exists \cap exists' : readSeq'[r] >= readSeq[r]
<1>1. Inv /\ [Next]_vars => [Grows]_vars
  <2> SUFFICES ASSUME Inv, Next, NEW r \in exists \cap exists' PROVE readSeq'[r] >= readSeq[r]
    BY DEF vars
  <2>1. r \in Rows /\ readSeq[r] \in Nat /\ maxSeq[r] \in Nat /\ readSeq[r] <= maxSeq[r]
    <3>1. r \in Rows /\ readSeq[r] \in Nat /\ maxSeq[r] \in Nat
      BY DEF Inv, TypeOK
    <3>2. PICK c \in Convs, s \in Sides : r = <<c, s>>
      BY <3>1 DEF Rows
    <3>3. QED
      BY <3>1, <3>2 DEF Inv, SidesAgree
  <2>2. CASE UNCHANGED readSeq
    BY <2>1, <2>2
  <2>3. ASSUME NEW x \in Rows, NEW q \in Seqs, MarkConversationRead(x, q)
        PROVE readSeq'[r] >= readSeq[r]
    BY <2>1, <2>3 DEF MarkConversationRead, Inv, TypeOK, Seqs
  <2>4. ASSUME NEW x \in Rows, DeleteConversation(x) PROVE readSeq'[r] >= readSeq[r]
    BY <2>1, <2>4 DEF DeleteConversation, Inv, TypeOK
  <2>5. ASSUME NEW c \in Convs, DeleteFriend(c) PROVE readSeq'[r] >= readSeq[r]
    <3>1. r[1] # c
      BY <2>5 DEF DeleteFriend
    <3>2. readSeq'[r] = readSeq[r]
      BY <3>1, <2>1, <2>5 DEF DeleteFriend, Emptied
    <3>3. QED
      BY <3>2, <2>1
  <2>6. ASSUME NEW x \in Rows, NEW p \in BOOLEAN, UpdateConversationSettings(x, p)
        PROVE readSeq'[r] >= readSeq[r]
    BY <2>2, <2>6 DEF UpdateConversationSettings
  <2>7. CASE MessageStep
    BY <2>2, <2>7 DEF MessageStep, SendMessages, Cancel, RecordConversationMessage, rowVars
  <2>8. ASSUME NEW c \in Convs, BecomeFriends(c) PROVE readSeq'[r] >= readSeq[r]
    BY <2>2, <2>8 DEF BecomeFriends, rowVars
  <2>9. CASE ListStep
    BY <2>2, <2>9, ListLeavesRows DEF rowVars
  <2>10. QED
    BY <2>3, <2>4, <2>5, <2>6, <2>7, <2>8, <2>9 DEF Next, OwnerStep, FriendStep
<1>2. QED
  BY <1>1, ConversationInv, PTL DEF Spec, ReadNeverBack

-----------------------------------------------------------------------------
(* The two SELECTs of SortedConversations.                                  *)

(* Rows of one account, as a SELECT returns them.                           *)
Result(rows) ==
    /\ rows = [r \in DOMAIN rows |-> rows[r]]
    /\ IsFiniteSet(DOMAIN rows)
    /\ \A r \in DOMAIN rows : r \in Convs \X {"me"} /\ rows[r].pinned \in BOOLEAN
                              /\ rows[r].time \in Nat

(* ORDER BY is a strict order, total because conversation ids differ.       *)
LEMMA StrictOrder ==
    ASSUME NEW rows, Result(rows), NEW p \in DOMAIN rows, NEW q \in DOMAIN rows,
           NEW r \in DOMAIN rows
    PROVE  /\ ~Ahead(rows, r, r)
           /\ Ahead(rows, p, q) /\ Ahead(rows, q, r) => Ahead(rows, p, r)
           /\ q # r => Ahead(rows, q, r) \/ Ahead(rows, r, q)
<1> DEFINE pin(x) == rows[x].pinned
           tm(x) == rows[x].time
<1>1. \A x \in {p, q, r} : pin(x) \in BOOLEAN /\ tm(x) \in Nat /\ x[1] \in Nat
  BY ConversationConstants DEF Result
<1>2. q[1] = r[1] => q = r
  BY DEF Result
<1>3. \A x, y \in {p, q, r} :
        Ahead(rows, x, y) <=>
            \/ pin(x) /\ ~pin(y)
            \/ (pin(x) <=> pin(y)) /\ (tm(x) > tm(y) \/ (tm(x) = tm(y) /\ x[1] > y[1]))
  BY <1>1, Zenon DEF Ahead
<1> HIDE DEF pin, tm
<1>4. ~Ahead(rows, r, r)
  BY <1>1, <1>3
<1>5. Ahead(rows, p, q) /\ Ahead(rows, q, r) => Ahead(rows, p, r)
  BY <1>1, <1>3
<1>6. q # r => Ahead(rows, q, r) \/ Ahead(rows, r, q)
  BY <1>1, <1>2, <1>3
<1>7. QED
  BY <1>4, <1>5, <1>6

(* The rows take the places 0 .. n - 1, each one once.                      *)
LEMMA Places ==
    ASSUME NEW rows, Result(rows)
    PROVE  [r \in DOMAIN rows |-> Place(rows, r)]
               \in Bijection(DOMAIN rows, 0..(Cardinality(DOMAIN rows) - 1))
<1> DEFINE D == DOMAIN rows
           N == Cardinality(D)
           A(r) == {q \in D : Ahead(rows, q, r)}
           place == [r \in D |-> Place(rows, r)]
<1>1. IsFiniteSet(D) /\ N \in Nat
  BY FS_CardinalityType DEF Result
<1>2. ASSUME NEW r \in D PROVE IsFiniteSet(A(r)) /\ Place(rows, r) \in 0..(N - 1)
  <2>1. A(r) \in SUBSET (D \ {r})
    BY StrictOrder
  <2>2. IsFiniteSet(D \ {r}) /\ Cardinality(D \ {r}) = N - 1
    BY <1>1, FS_RemoveElement
  <2>3. IsFiniteSet(A(r)) /\ Cardinality(A(r)) <= N - 1
    BY <2>1, <2>2, FS_Subset
  <2>4. Cardinality(A(r)) \in Nat
    BY <2>3, FS_CardinalityType
  <2>5. QED
    BY <2>3, <2>4, <1>1 DEF Place
<1>3. ASSUME NEW q \in D, NEW r \in D, Ahead(rows, q, r)
      PROVE  Place(rows, q) < Place(rows, r)
  <2>1. A(q) \in SUBSET A(r)
    BY <1>3, StrictOrder
  <2>2. q \in A(r) /\ q \notin A(q)
    BY <1>3, StrictOrder
  <2>3. Cardinality(A(q)) <= Cardinality(A(r)) /\ Cardinality(A(q)) # Cardinality(A(r))
    BY <1>2, <2>1, <2>2, FS_Subset
  <2>4. Cardinality(A(q)) \in Nat /\ Cardinality(A(r)) \in Nat
    BY <1>2, FS_CardinalityType
  <2>5. QED
    BY <2>3, <2>4 DEF Place
<1> HIDE DEF A
<1>4. place \in [D -> 0..(N - 1)]
  BY <1>2
<1>5. ASSUME NEW q \in D, NEW r \in D, q # r PROVE place[q] # place[r]
  <2>1. Ahead(rows, q, r) \/ Ahead(rows, r, q)
    BY <1>5, StrictOrder
  <2>2. Place(rows, q) \in Nat /\ Place(rows, r) \in Nat
    BY <1>2, <1>1
  <2>3. QED
    BY <2>1, <2>2, <1>3
<1>6. place \in Injection(D, 0..(N - 1))
  BY <1>4, <1>5 DEF Injection, IsInjective
<1>7. IsFiniteSet(0..(N - 1)) /\ Cardinality(0..(N - 1)) = N
  <2>1. 0 \in Int /\ N - 1 \in Int
    BY <1>1
  <2>2. /\ IsFiniteSet(0..(N - 1))
        /\ Cardinality(0..(N - 1)) = IF 0 > N - 1 THEN 0 ELSE (N - 1) - 0 + 1
    BY <2>1, FS_Interval
  <2>3. QED
    BY <2>2, <1>1
<1>8. place \in Surjection(D, 0..(N - 1))
  BY <1>6, <1>7, FS_Injection
<1>9. QED
  BY <1>6, <1>8 DEF Bijection

(* A page is as long as total, offset and size say.                         *)
LEMMA PageIsFull ==
    ASSUME NEW rows, Result(rows), NEW offset \in Nat, NEW size \in Nat \ {0}
    PROVE  Cardinality(DOMAIN Page(rows, offset, size)) =
               PageLength(Cardinality(DOMAIN rows), offset, size)
<1> DEFINE D == DOMAIN rows
           N == Cardinality(D)
           P == {q \in D : offset <= Place(rows, q) /\ Place(rows, q) < offset + size}
           place == [r \in D |-> Place(rows, r)]
           n == PageLength(N, offset, size)
           I == offset .. (offset + n - 1)
           f == [r \in P |-> Place(rows, r)]
<1>1. N \in Nat /\ IsFiniteSet(D) /\ IsFiniteSet(P)
  BY FS_CardinalityType, FS_Subset DEF Result
<1>2. n \in Nat /\ (\A i \in 0..(N - 1) : offset <= i /\ i < offset + size <=> i \in I)
      /\ I \subseteq 0..(N - 1)
  BY <1>1 DEF PageLength
<1>3. place \in Bijection(D, 0..(N - 1))
  BY Places
<1>4. \A r \in D : place[r] = Place(rows, r)
  OBVIOUS
<1> HIDE DEF place, n, I, N, D
<1>5. f \in Bijection(P, I)
  <2>1. \A r \in D : Place(rows, r) \in 0..(N - 1)
    BY <1>3, <1>4 DEF Bijection, Injection, IsInjective
  <2>2. \A q, r \in D : Place(rows, q) = Place(rows, r) => q = r
    BY <1>3, <1>4 DEF Bijection, Injection, IsInjective
  <2>3. \A i \in 0..(N - 1) : \E r \in D : Place(rows, r) = i
    BY <1>3, <1>4 DEF Bijection, Surjection
  <2>4. f \in [P -> I]
    BY <2>1, <1>2
  <2>5. f \in Injection(P, I)
    BY <2>2, <2>4 DEF Injection, IsInjective
  <2>6. \A i \in I : \E r \in P : f[r] = i
    BY <2>3, <1>2
  <2>7. QED
    BY <2>4, <2>5, <2>6 DEF Surjection, Bijection
<1>6. Cardinality(I) = Cardinality(P)
  BY <1>1, <1>5, FS_Bijection DEF ExistsBijection
<1>7. Cardinality(I) = n
  <2>1. offset \in Int /\ offset + n - 1 \in Int
    BY <1>2
  <2>2. Cardinality(I) = IF offset > offset + n - 1 THEN 0
                         ELSE (offset + n - 1) - offset + 1
    BY <2>1, FS_Interval DEF I
  <2>3. QED
    BY <2>2, <1>2
<1>8. DOMAIN Page(rows, offset, size) = P
  BY DEF Page, D
<1>9. QED
  BY <1>6, <1>7, <1>8 DEF n, N, D

(* A page of as many rows as there are is all of them.                      *)
LEMMA WholePage ==
    ASSUME NEW rows, Result(rows), NEW offset, NEW size,
           Cardinality(DOMAIN Page(rows, offset, size)) = Cardinality(DOMAIN rows)
    PROVE  Page(rows, offset, size) = rows
<1> DEFINE P == {q \in DOMAIN rows : offset <= Place(rows, q) /\ Place(rows, q) < offset + size}
<1>1. Page(rows, offset, size) = [r \in P |-> rows[r]] /\ DOMAIN Page(rows, offset, size) = P
  BY DEF Page
<1>2. P \in SUBSET DOMAIN rows
  OBVIOUS
<1> HIDE DEF P
<1>3. P = DOMAIN rows
  BY <1>1, <1>2, FS_Subset DEF Result
<1>4. QED
  BY <1>1, <1>3 DEF Result

(* The rows a SELECT returns.                                               *)
LEMMA SelectedResult ==
    ASSUME TypeOK, NEW convs PROVE Result(Selected(convs))
<1> DEFINE D == {v \in Visible : v[1] \in convs}
<1>1. DOMAIN Selected(convs) = D
  BY DEF Selected
<1>2. D \subseteq Convs \X {"me"}
  BY DEF Visible, TypeOK, Rows, Sides
<1>3. IsFiniteSet(D)
  <2> DEFINE f == [r \in D |-> r[1]]
  <2>1. f \in Injection(D, Convs)
    BY <1>2 DEF Injection, IsInjective
  <2>2. QED
    BY <2>1, FS_Injection, ConversationConstants
<1>4. ASSUME NEW r \in D
      PROVE  Selected(convs)[r].pinned \in BOOLEAN /\ Selected(convs)[r].time \in Nat
  <2>1. Selected(convs)[r] = [pinned |-> r \in pinned, time |-> SendTime[latest[r]],
                              unread |-> unreadCount[r]]
    BY DEF Selected
  <2>2. SendTime[latest[r]] \in Nat
    BY ConversationConstants DEF TypeOK, Visible
  <2>3. (r \in pinned) \in BOOLEAN
    OBVIOUS
  <2>4. QED
    BY <2>1, <2>2, <2>3
<1>5. Selected(convs) = [r \in D |-> Selected(convs)[r]]
  BY DEF Selected
<1>6. QED
  BY <1>1, <1>2, <1>3, <1>4, <1>5 DEF Result

(* The totals of the first SELECT are those of its snapshot; the answer is  *)
(* a page of it.                                                            *)
Counted(l) ==
    /\ Result(l.view) /\ l.offset \in Nat /\ l.size \in Nat \ {0}
    /\ l.total = Cardinality(DOMAIN l.view) /\ l.sum = UnreadSum(l.view)

Answered(l) ==
    LET n == Cardinality(DOMAIN l.elems) IN
    /\ n = PageLength(l.total, l.offset, l.size)
    /\ n = l.total => l.sum = UnreadSum(l.elems)

ListInv ==
    /\ list.step = "counted" => Counted(list)
    /\ list.step = "listed" => Answered(list)

LEMMA ListStepInv == TypeOK /\ ListInv /\ [Next]_vars => ListInv'
<1> SUFFICES ASSUME TypeOK, ListInv, [Next]_vars PROVE ListInv'
  OBVIOUS
<1>1. ASSUME NEW asked \in SUBSET Convs, NEW n \in 0..MaxPage, NEW k \in 0..MaxShown,
             ListCount(asked, n, k)
      PROVE ListInv'
  <2> DEFINE convs == IF asked = {} THEN Convs ELSE asked
             size == PageSize(k)
             offset == (PageNumber(n) - 1) * size
  <2>1. PageNumber(n) - 1 \in Nat /\ size \in Nat \ {0}
    BY ConversationConstants DEF PageNumber, PageSize
  <2>2. offset \in Nat
    BY <2>1
  <2>3. Result(Selected(convs))
    BY SelectedResult
  <2>4. list' = [step |-> "counted", convs |-> convs, view |-> Selected(convs),
                 total |-> Cardinality(DOMAIN Selected(convs)),
                 sum |-> UnreadSum(Selected(convs)), offset |-> offset, size |-> size]
    BY <1>1, Zenon DEF ListCount
  <2> HIDE DEF convs, size, offset
  <2>5. /\ list'.step = "counted" /\ list'.view = Selected(convs)
        /\ list'.total = Cardinality(DOMAIN Selected(convs))
        /\ list'.sum = UnreadSum(Selected(convs))
        /\ list'.offset = offset /\ list'.size = size
    BY <2>4
  <2>6. QED
    BY <2>1, <2>2, <2>3, <2>5 DEF ListInv, Counted
<1>2. CASE ListPage
  <2> DEFINE page == Page(list.view, list.offset, list.size)
  <2>1. list.step = "counted" /\ Counted(list)
    BY <1>2 DEF ListPage, ListInv
  <2>2. /\ list'.step = "listed" /\ list'.total = list.total /\ list'.sum = list.sum
        /\ list'.offset = list.offset /\ list'.size = list.size /\ list'.elems = page
    BY <1>2 DEF ListPage, Listed
  <2>3. Cardinality(DOMAIN page) = PageLength(list.total, list.offset, list.size)
    BY <2>1, PageIsFull DEF Counted
  <2>4. Cardinality(DOMAIN page) = list.total => page = list.view
    BY <2>1, WholePage DEF Counted
  <2> HIDE DEF page
  <2>5. Cardinality(DOMAIN page) = list.total => list.sum = UnreadSum(page)
    BY <2>1, <2>4 DEF Counted
  <2>6. QED
    BY <2>2, <2>3, <2>5 DEF ListInv, Answered
<1>3. CASE ListDone
  <2>1. list'.step = "idle"
    BY <1>3 DEF ListDone, Idle
  <2> QED BY <2>1 DEF ListInv
<1>4. CASE list' = list
  BY <1>4 DEF ListInv
<1>5. MessageStep \/ OwnerStep \/ FriendStep \/ UNCHANGED vars => list' = list
  BY DEF MessageStep, OwnerStep, FriendStep, SendMessages, Cancel, RecordConversationMessage,
     MarkConversationRead, DeleteConversation, UpdateConversationSettings, DeleteFriend,
     BecomeFriends, vars
<1>6. QED
  BY <1>1, <1>2, <1>3, <1>4, <1>5 DEF Next, ListStep

(* A list reply is a page of the conversations its totals count, for any    *)
(* number of them and any page asked for: the page is as full as total,     *)
(* page number and page size say, and one that holds them all adds up to    *)
(* the unread total, whatever is committed between the two SELECTs of       *)
(* SortedConversations.                                                     *)
THEOREM ListPagesMatchTotals == Spec => []ListConsistent
<1>1. Init => ListInv
  BY DEF Init, Idle, ListInv
<1>2. ListInv => ListConsistent
  BY DEF ListInv, Answered, ListConsistent
<1>3. QED
  BY <1>1, <1>2, ListStepInv, ConversationTypes, PTL DEF Spec
=============================================================================
