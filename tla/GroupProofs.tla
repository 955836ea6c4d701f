----------------------------- MODULE GroupProofs ----------------------------
(***************************************************************************)
(* Who may see which group message, and what acknowledgements cover, for    *)
(* any number of accounts, messages and memberships.  Then the ids and      *)
(* requests of groups: an id is above the one before it unless its caller   *)
(* slept and woke behind it; a group keeps its number and no number is      *)
(* given twice; and Create implements Once, for any number of calls,        *)
(* starting processes, request ids and older groups, whatever the clock     *)
(* does and also when an id is issued twice.                                *)
(***************************************************************************)
EXTENDS Group, GroupRequests, FiniteSetTheorems, TLAPS

-----------------------------------------------------------------------------
(* The positions of a membership lie between its start and last_seq.        *)
Positions ==
    \A a \in Accounts :
        /\ joinSeq[a] <= ackSeq[a] /\ ackSeq[a] <= lastSeq
        /\ joinSeq[a] <= readSeq[a] /\ readSeq[a] <= lastSeq

(* A member is in the audience of everything sent since it joined.          *)
Entitled ==
    \A a \in active : \A m \in messages :
        m.seq > joinSeq[a] => <<a, epoch[a]>> \in m.audience

(* What an account received, it received as a member; what it received      *)
(* under an earlier membership is not above the start of the present one.   *)
EarlierCopies ==
    \A c \in seen :
        /\ c.to \in members /\ c.epoch <= epoch[c.to] /\ c.seq <= lastSeq
        /\ c.to \in active /\ c.epoch < epoch[c.to] => c.seq <= joinSeq[c.to]

Inv ==
    /\ TypeOK /\ Positions /\ Entitled /\ EarlierCopies
    /\ SeenWhileMember /\ NothingSkipped /\ Contiguous
    /\ CountIsExact /\ OneApplication

-----------------------------------------------------------------------------
(* The largest of two and of three numbers.                                 *)
LEMMA MaxOfTwo ==
    ASSUME NEW x \in Nat, NEW y \in Nat
    PROVE  Max({x, y}) \in {x, y} /\ Max({x, y}) >= x /\ Max({x, y}) >= y
<1>1. \E z \in {x, y} : \A w \in {x, y} : z >= w
  OBVIOUS
<1>2. QED
  BY <1>1 DEF Max

(* The same for GREATEST of three positions.                                *)
LEMMA MaxOfThree ==
    ASSUME NEW x \in Nat, NEW y \in Nat, NEW z \in Nat
    PROVE  LET M == Max({x, y, z})
           IN M \in {x, y, z} /\ M >= x /\ M >= y /\ M >= z
<1>1. \E u \in {x, y, z} : \A w \in {x, y, z} : u >= w
  OBVIOUS
<1>2. QED
  BY <1>1 DEF Max

(* The number of members is a number.                                       *)
LEMMA ActiveFinite ==
    ASSUME NEW S \in SUBSET Accounts PROVE Cardinality(S) \in Nat
BY GroupConstants, FS_Subset, FS_CardinalityType

(* A new group satisfies the invariant.                                     *)
LEMMA InitInv == Init => Inv
<1> SUFFICES ASSUME Init PROVE Inv
  OBVIOUS
<1>1. TypeOK
  <2>1. apps \in Seq(Application)
    BY DEF Init
  <2>2. dismissed \in BOOLEAN
    BY DEF Init
  <2>3. QED
    BY <2>1, <2>2, GroupConstants DEF Init, TypeOK
<1>2. CountIsExact
  BY FS_Singleton DEF Init, CountIsExact
<1>3. Contiguous
  BY DEF Init, Contiguous
<1>4. Positions /\ Entitled /\ EarlierCopies /\ SeenWhileMember /\ NothingSkipped /\ OneApplication
  BY DEF Init, Positions, Entitled, EarlierCopies, SeenWhileMember, NothingSkipped, OneApplication
<1>5. QED
  BY <1>1, <1>2, <1>3, <1>4 DEF Inv

(* What the members, messages and copies satisfy stays true while they stay *)
(* the same.                                                                *)
LEMMA MessagesFrame ==
    ASSUME Inv, UNCHANGED <<lastSeq, memberVars, messages, seen>>
    PROVE  (Positions /\ Entitled /\ EarlierCopies /\ SeenWhileMember /\ NothingSkipped /\ Contiguous)'
<1> USE DEF memberVars
<1>1. Positions'
  BY DEF Inv, Positions
<1>2. Entitled'
  BY DEF Inv, Entitled
<1>3. EarlierCopies'
  BY DEF Inv, EarlierCopies
<1>4. SeenWhileMember'
  BY DEF Inv, SeenWhileMember
<1>5. NothingSkipped'
  BY DEF Inv, NothingSkipped
<1>6. Contiguous'
  BY DEF Inv, Contiguous
<1>7. QED
  BY <1>1, <1>2, <1>3, <1>4, <1>5, <1>6

(* An application is added only for an account outside without one.         *)
LEMMA ApplyInv == ASSUME Inv, NEW a \in Accounts, Apply(a) PROVE Inv'
<1> DEFINE new == [account |-> a, status |-> "pending"]
<1>1. /\ ~dismissed /\ a \notin active
      /\ \A i \in DOMAIN apps : apps[i] # new
      /\ apps' = Append(apps, new)
      /\ UNCHANGED <<groupVars, memberVars, messages, clientVars>>
  BY DEF Apply
<1>2. new \in Application
  BY DEF Application, Status
<1>3. apps \in Seq(Application)
  BY DEF Inv, TypeOK
<1>4. TypeOK'
  <2>1. apps' \in Seq(Application)
    BY <1>1, <1>2, <1>3
  <2>2. QED
    BY <1>1, <2>1 DEF Inv, TypeOK, groupVars, memberVars, clientVars
<1>5. CountIsExact'
  BY <1>1 DEF Inv, CountIsExact, groupVars, memberVars
<1>6. OneApplication'
  <2> HIDE DEF new
  <2>1. /\ DOMAIN apps' = DOMAIN apps \cup {Len(apps) + 1}
        /\ \A i \in DOMAIN apps : apps'[i] = apps[i] /\ i # Len(apps) + 1
        /\ apps'[Len(apps) + 1] = new
    BY <1>1, <1>2, <1>3
  <2>2. new.account = a
    BY DEF new
  <2> SUFFICES ASSUME NEW i \in DOMAIN apps', NEW j \in DOMAIN apps',
                      apps'[i].status = "pending"
               PROVE  /\ apps'[i].account \notin active
                      /\ ~dismissed
                      /\ apps'[j] = apps'[i] => i = j
    BY <1>1 DEF OneApplication, groupVars, memberVars
  <2>3. CASE i \in DOMAIN apps
    BY <2>1, <2>3, <1>1 DEF Inv, OneApplication
  <2>4. CASE i = Len(apps) + 1
    BY <2>1, <2>2, <2>4, <1>1 DEF Inv, OneApplication
  <2>5. QED
    BY <2>1, <2>3, <2>4
<1>7. QED
  BY <1>1, <1>4, <1>5, <1>6, MessagesFrame DEF Inv, groupVars, clientVars

(* A decision on application i.                                             *)
LEMMA ReviewedApps ==
    ASSUME Inv, NEW i \in DOMAIN apps, NEW st \in {"accepted", "rejected"},
           apps[i].status = "pending",
           apps' = [apps EXCEPT ![i].status = st]
    PROVE  /\ apps' \in Seq(Application)
           /\ DOMAIN apps' = DOMAIN apps
           /\ apps'[i].status # "pending"
           /\ \A j \in DOMAIN apps : j # i => apps'[j] = apps[j]
<1>1. apps \in Seq(Application)
  BY DEF Inv, TypeOK
<1>2. apps[i] \in Application
  BY <1>1
<1>3. [apps[i] EXCEPT !.status = st] \in Application
      /\ [apps[i] EXCEPT !.status = st].status # "pending"
  BY <1>2 DEF Application, Status
<1>4. apps' = [apps EXCEPT ![i] = [apps[i] EXCEPT !.status = st]]
  OBVIOUS
<1>5. apps' \in Seq(Application) /\ DOMAIN apps' = DOMAIN apps
  BY <1>1, <1>3, <1>4
<1>6. apps'[i] = [apps[i] EXCEPT !.status = st]
      /\ \A j \in DOMAIN apps : j # i => apps'[j] = apps[j]
  BY <1>1, <1>4
<1>7. QED
  BY <1>3, <1>5, <1>6

(* A rejection only closes the application.                                 *)
LEMMA RejectInv ==
    ASSUME Inv, NEW i \in DOMAIN apps, Review(i, FALSE) PROVE Inv'
<1>1. /\ apps[i].status = "pending"
      /\ apps' = [apps EXCEPT ![i].status = "rejected"]
      /\ UNCHANGED <<groupVars, memberVars, messages, clientVars>>
  BY DEF Review, groupVars
<1>2. /\ apps' \in Seq(Application)
      /\ DOMAIN apps' = DOMAIN apps
      /\ apps'[i].status # "pending"
      /\ \A j \in DOMAIN apps : j # i => apps'[j] = apps[j]
  BY <1>1, ReviewedApps
<1>3. TypeOK'
  BY <1>1, <1>2 DEF Inv, TypeOK, groupVars, memberVars, clientVars
<1>4. CountIsExact'
  BY <1>1 DEF Inv, CountIsExact, groupVars, memberVars
<1>5. OneApplication'
  BY <1>1, <1>2 DEF Inv, OneApplication, groupVars, memberVars
<1>6. QED
  BY <1>1, <1>3, <1>4, <1>5, MessagesFrame DEF Inv, groupVars, clientVars

(* An accepted applicant was outside: it starts after the last message.     *)
LEMMA AcceptInv ==
    ASSUME Inv, NEW i \in DOMAIN apps, Review(i, TRUE) PROVE Inv'
<1> DEFINE t == apps[i].account
<1>1. /\ apps[i].status = "pending"
      /\ apps' = [apps EXCEPT ![i].status = "accepted"]
      /\ Admit(t)
      /\ UNCHANGED <<name, dismissed, lastSeq, messages, clientVars>>
  BY DEF Review
<1>2. /\ apps' \in Seq(Application)
      /\ DOMAIN apps' = DOMAIN apps
      /\ apps'[i].status # "pending"
      /\ \A j \in DOMAIN apps : j # i => apps'[j] = apps[j]
  BY <1>1, ReviewedApps
<1>3. apps[i] \in Application /\ t \in Accounts
  <2>1. apps[i] \in Application
    BY DEF Inv, TypeOK
  <2>2. QED
    BY <2>1 DEF Application
<1>4. t \notin active
  BY <1>1 DEF Inv, OneApplication
<1> HIDE DEF t
<1>5. /\ members' = members \cup {t}
      /\ active' = active \cup {t}
      /\ epoch' = IF t \in members THEN [epoch EXCEPT ![t] = @ + 1] ELSE epoch
      /\ joinSeq' = [joinSeq EXCEPT ![t] = lastSeq]
      /\ ackSeq' = [ackSeq EXCEPT ![t] = lastSeq]
      /\ readSeq' = [readSeq EXCEPT ![t] = lastSeq]
      /\ memberCount' = Cardinality(active')
  BY <1>1, <1>4 DEF Admit
<1>6. TypeOK'
  <2>1. memberCount' \in Nat
    BY <1>3, <1>5, ActiveFinite DEF Inv, TypeOK
  <2>2. epoch' \in [Accounts -> Nat]
    BY <1>3, <1>5 DEF Inv, TypeOK
  <2>3. QED
    BY <1>1, <1>2, <1>3, <1>5, <2>1, <2>2 DEF Inv, TypeOK, clientVars
<1>7. \A a \in Accounts : a # t => /\ epoch'[a] = epoch[a] /\ joinSeq'[a] = joinSeq[a]
                                   /\ ackSeq'[a] = ackSeq[a] /\ readSeq'[a] = readSeq[a]
  BY <1>5 DEF Inv, TypeOK
<1>8. /\ joinSeq'[t] = lastSeq /\ ackSeq'[t] = lastSeq /\ readSeq'[t] = lastSeq
      /\ epoch'[t] = IF t \in members THEN epoch[t] + 1 ELSE epoch[t]
  BY <1>3, <1>5 DEF Inv, TypeOK
<1>9. /\ \A m \in messages : m.seq \in Nat /\ m.seq <= lastSeq
      /\ lastSeq \in Nat /\ active \subseteq Accounts /\ members \subseteq Accounts
  <2>1. \A m \in messages : m.seq \in 1..lastSeq
    BY DEF Inv, Contiguous
  <2>2. QED
    BY <2>1 DEF Inv, TypeOK
<1>10. Positions'
  BY <1>1, <1>3, <1>7, <1>8, <1>9 DEF Inv, Positions
<1>11. Entitled'
  BY <1>1, <1>5, <1>7, <1>8, <1>9 DEF Inv, Entitled
<1>12. NothingSkipped'
  BY <1>1, <1>5, <1>7, <1>8, <1>9 DEF Inv, NothingSkipped, clientVars
<1>13. EarlierCopies'
  <2> SUFFICES ASSUME NEW c \in seen
               PROVE  /\ c.to \in members' /\ c.epoch <= epoch'[c.to] /\ c.seq <= lastSeq
                      /\ c.to \in active' /\ c.epoch < epoch'[c.to] => c.seq <= joinSeq'[c.to]
    BY <1>1 DEF EarlierCopies, clientVars
  <2>1. /\ c.to \in members /\ c.epoch <= epoch[c.to] /\ c.seq <= lastSeq
        /\ c.to \in active /\ c.epoch < epoch[c.to] => c.seq <= joinSeq[c.to]
    BY DEF Inv, EarlierCopies
  <2>2. c.epoch \in Nat /\ c.seq \in Nat /\ c.to \in Accounts /\ epoch[c.to] \in Nat
    BY DEF Inv, TypeOK, Copy
  <2>3. CASE c.to = t
    BY <2>1, <2>2, <2>3, <1>5, <1>8
  <2>4. CASE c.to # t
    BY <2>1, <2>2, <2>4, <1>5, <1>7
  <2>5. QED
    BY <2>3, <2>4
<1>14. SeenWhileMember' /\ Contiguous'
  BY <1>1 DEF Inv, SeenWhileMember, Contiguous, clientVars
<1>15. CountIsExact'
  BY <1>5 DEF CountIsExact
<1>16. OneApplication'
  <2> SUFFICES ASSUME NEW k \in DOMAIN apps, NEW j \in DOMAIN apps,
                      apps'[k].status = "pending"
               PROVE  /\ apps'[k].account \notin active'
                      /\ ~dismissed
                      /\ apps'[j] = apps'[k] => k = j
    BY <1>1, <1>2 DEF OneApplication
  <2>1. k # i /\ apps'[k] = apps[k]
    BY <1>2
  <2>2. apps[k].status = "pending" /\ apps[k].account \notin active /\ ~dismissed
    BY <2>1 DEF Inv, OneApplication
  <2>3. apps[k].account # t
    <3>1. SUFFICES ASSUME apps[k].account = t PROVE FALSE
      OBVIOUS
    <3>2. apps[k] \in Application /\ apps[i] \in Application
      BY DEF Inv, TypeOK
    <3>3. apps[k] = apps[i]
      BY <3>1, <3>2, <2>2, <1>1 DEF Application, t
    <3>4. QED
      BY <3>3, <2>1, <2>2 DEF Inv, OneApplication
  <2>4. apps'[j] = apps'[k] => k = j
    <3>1. CASE j = i
      BY <3>1, <1>2, <2>1
    <3>2. CASE j # i
      BY <3>2, <1>2, <2>1, <2>2 DEF Inv, OneApplication
    <3>3. QED
      BY <3>1, <3>2
  <2>5. QED
    BY <2>1, <2>2, <2>3, <2>4, <1>5
<1>17. QED
  BY <1>6, <1>10, <1>11, <1>12, <1>13, <1>14, <1>15, <1>16 DEF Inv

(* Leave and Kick.                                                          *)
LEMMA RemoveInv == ASSUME Inv, NEW t \in Accounts, Remove(t) PROVE Inv'
<1>1. /\ t # Owner
      /\ active' = active \ {t}
      /\ memberCount' = Cardinality(active')
      /\ UNCHANGED <<name, dismissed, lastSeq, members, epoch, joinSeq, ackSeq, readSeq,
                     apps, messages, clientVars>>
  BY DEF Remove
<1>2. TypeOK'
  <2>1. memberCount' \in Nat
    BY <1>1, ActiveFinite DEF Inv, TypeOK
  <2>2. QED
    BY <1>1, <2>1 DEF Inv, TypeOK, clientVars
<1>3. Positions' /\ Contiguous' /\ SeenWhileMember'
  BY <1>1 DEF Inv, Positions, Contiguous, SeenWhileMember, clientVars
<1>4. Entitled' /\ EarlierCopies' /\ NothingSkipped'
  BY <1>1 DEF Inv, Entitled, EarlierCopies, NothingSkipped, clientVars
<1>5. CountIsExact'
  BY <1>1 DEF CountIsExact
<1>6. OneApplication'
  BY <1>1 DEF Inv, OneApplication
<1>7. QED
  BY <1>2, <1>3, <1>4, <1>5, <1>6 DEF Inv

(* Nobody waits for a group once it is dismissed.                           *)
LEMMA DismissInv == ASSUME Inv, Dismiss PROVE Inv'
<1>1. /\ dismissed' = TRUE
      /\ apps' = [i \in DOMAIN apps |->
                    IF apps[i].status = "pending" THEN [apps[i] EXCEPT !.status = "dismissed"]
                    ELSE apps[i]]
      /\ UNCHANGED <<name, lastSeq, memberCount, memberVars, messages, clientVars>>
  BY DEF Dismiss
<1>2. \A i \in DOMAIN apps : apps'[i] \in Application /\ apps'[i].status # "pending"
  <2> SUFFICES ASSUME NEW i \in DOMAIN apps
               PROVE  apps'[i] \in Application /\ apps'[i].status # "pending"
    OBVIOUS
  <2>1. apps[i] \in Application
    BY DEF Inv, TypeOK
  <2>2. [apps[i] EXCEPT !.status = "dismissed"] \in Application
        /\ [apps[i] EXCEPT !.status = "dismissed"].status = "dismissed"
    BY <2>1 DEF Application, Status
  <2>3. QED
    BY <1>1, <2>1, <2>2
<1>3. apps' \in Seq(Application) /\ DOMAIN apps' = DOMAIN apps
  <2>1. apps \in Seq(Application)
    BY DEF Inv, TypeOK
  <2>2. DOMAIN apps = 1..Len(apps) /\ Len(apps) \in Nat
    BY <2>1
  <2>3. apps' \in [1..Len(apps) -> Application]
    BY <1>1, <1>2, <2>2
  <2>4. QED
    BY <2>2, <2>3
<1>4. TypeOK'
  <2>1. dismissed' \in BOOLEAN
    BY <1>1
  <2>2. QED
    BY <1>1, <1>3, <2>1 DEF Inv, TypeOK, memberVars, clientVars
<1>5. CountIsExact'
  BY <1>1 DEF Inv, CountIsExact, memberVars
<1>6. OneApplication'
  BY <1>2, <1>3 DEF OneApplication
<1>7. QED
  BY <1>1, <1>4, <1>5, <1>6, MessagesFrame DEF Inv, clientVars

(* A new message goes to the memberships of its moment.                     *)
LEMMA SendInv ==
    ASSUME Inv, NEW a \in Accounts, NEW e, Send(a, e) PROVE Inv'
<1> DEFINE new == [seq |-> lastSeq + 1, sender |-> a,
                   audience |-> {<<m, epoch[m]>> : m \in active}]
           own == [to |-> a, epoch |-> epoch[a], seq |-> lastSeq + 1]
<1>1. /\ a \in active /\ lastSeq < MaxMsgs
      /\ lastSeq' = lastSeq + 1
      /\ messages' = messages \cup {new}
      /\ seen' = seen \cup {own} \/ seen' = seen
      /\ UNCHANGED <<name, dismissed, memberCount, memberVars, apps, hint>>
  BY DEF Send, Admitted, Joined
<1>2. /\ new.seq = lastSeq + 1 /\ new.sender = a /\ new \in Message
      /\ \A m \in active : <<m, epoch[m]>> \in new.audience
      /\ \E p \in new.audience : p[1] = new.sender
  <2>1. lastSeq + 1 \in 1..MaxMsgs
    BY <1>1, GroupConstants DEF Inv, TypeOK
  <2>2. {<<m, epoch[m]>> : m \in active} \in SUBSET (Accounts \X Nat)
    BY DEF Inv, TypeOK
  <2>3. <<a, epoch[a]>> \in new.audience /\ <<a, epoch[a]>>[1] = a
    BY <1>1
  <2>4. QED
    BY <2>1, <2>2, <2>3 DEF Message
<1>3. own \in Copy /\ own.to = a /\ own.epoch = epoch[a] /\ own.seq = lastSeq + 1
  <2>1. lastSeq + 1 \in 1..MaxMsgs
    BY <1>1, GroupConstants DEF Inv, TypeOK
  <2>2. QED
    BY <2>1 DEF Inv, TypeOK, Copy
<1> HIDE DEF new, own
<1>4. /\ lastSeq \in Nat /\ lastSeq + 1 \in 0..MaxMsgs
      /\ \A m \in messages : m.seq \in Nat /\ m.seq <= lastSeq
  <2>1. \A m \in messages : m.seq \in 1..lastSeq
    BY DEF Inv, Contiguous
  <2>2. QED
    BY <2>1, <1>1, GroupConstants DEF Inv, TypeOK
<1>5. TypeOK'
  BY <1>1, <1>2, <1>3, <1>4 DEF Inv, TypeOK, memberVars
<1>6. Positions'
  BY <1>1, <1>4 DEF Inv, Positions, TypeOK, memberVars
<1>7. Entitled'
  BY <1>1, <1>2 DEF Inv, Entitled, memberVars
<1>8. EarlierCopies'
  <2>1. \A c \in seen : c.seq \in Nat /\ c.epoch \in Nat
    BY DEF Inv, TypeOK, Copy
  <2>2. epoch[a] \in Nat /\ a \in members
    BY <1>1 DEF Inv, TypeOK
  <2>3. QED
    BY <1>1, <1>3, <1>4, <2>1, <2>2 DEF Inv, EarlierCopies, memberVars
<1>9. SeenWhileMember'
  BY <1>1, <1>2, <1>3 DEF Inv, SeenWhileMember, memberVars
<1>10. NothingSkipped'
  <2>1. \A x \in active : ackSeq[x] <= lastSeq /\ ackSeq[x] \in Nat
    BY DEF Inv, Positions, TypeOK
  <2>2. \A x \in active : ~(new.seq <= ackSeq[x])
    BY <2>1, <1>2, <1>4
  <2>3. QED
    BY <1>1, <2>2 DEF Inv, NothingSkipped, memberVars
<1>11. Contiguous'
  <2>1. {m.seq : m \in messages'} = 1..lastSeq'
    <3>1. {m.seq : m \in messages'} = {m.seq : m \in messages} \cup {new.seq}
      BY <1>1
    <3>2. {m.seq : m \in messages} = 1..lastSeq
      BY DEF Inv, Contiguous
    <3>3. 1..(lastSeq + 1) = (1..lastSeq) \cup {lastSeq + 1}
      BY <1>4
    <3>4. QED
      BY <3>1, <3>2, <3>3, <1>1, <1>2
  <2>2. \A m \in messages', n \in messages' : m.seq = n.seq => m = n
    BY <1>1, <1>2, <1>4 DEF Inv, Contiguous
  <2>3. \A m \in messages' : \E p \in m.audience : p[1] = m.sender
    BY <1>1, <1>2 DEF Inv, Contiguous
  <2>4. QED
    BY <2>1, <2>2, <2>3 DEF Contiguous
<1>12. CountIsExact' /\ OneApplication'
  BY <1>1 DEF Inv, CountIsExact, OneApplication, memberVars
<1>13. QED
  BY <1>5, <1>6, <1>7, <1>8, <1>9, <1>10, <1>11, <1>12 DEF Inv

(* Copies of messages sent since a member joined may be handed to it.       *)
LEMMA CopiesInv ==
    ASSUME Inv, NEW a \in active,
           NEW S \in SUBSET {m.seq : m \in {x \in messages : x.seq > joinSeq[a]}},
           seen' = seen \cup Copies(a, S),
           hint' \subseteq Accounts,
           UNCHANGED <<groupVars, memberVars, apps, messages>>
    PROVE  Inv'
<1>1. \A s \in S : \E m \in messages : m.seq = s /\ m.seq > joinSeq[a]
  OBVIOUS
<1>2. \A c \in Copies(a, S) : c.to = a /\ c.epoch = epoch[a] /\ c.seq \in S
  BY DEF Copies
<1>3. a \in Accounts /\ a \in members /\ epoch[a] \in Nat
  BY DEF Inv, TypeOK
<1>4. \A m \in messages : m.seq \in 1..MaxMsgs /\ m.seq <= lastSeq
  <2>1. \A m \in messages : m.seq \in 1..lastSeq
    BY DEF Inv, Contiguous
  <2>2. QED
    BY <2>1 DEF Inv, TypeOK, Message
<1>5. Copies(a, S) \subseteq Copy
  BY <1>1, <1>3, <1>4 DEF Copies, Copy
<1>6. TypeOK'
  BY <1>5 DEF Inv, TypeOK, groupVars, memberVars
<1>7. EarlierCopies'
  BY <1>1, <1>2, <1>3, <1>4 DEF Inv, EarlierCopies, groupVars, memberVars
<1>8. SeenWhileMember'
  <2>1. \A c \in Copies(a, S) : \E m \in messages : m.seq = c.seq /\ <<c.to, c.epoch>> \in m.audience
    BY <1>1, <1>2 DEF Inv, Entitled
  <2>2. QED
    BY <2>1 DEF Inv, SeenWhileMember
<1>9. Positions' /\ Entitled' /\ Contiguous'
  BY DEF Inv, Positions, Entitled, Contiguous, groupVars, memberVars
<1>10. NothingSkipped'
  BY DEF Inv, NothingSkipped, memberVars
<1>11. CountIsExact' /\ OneApplication'
  BY DEF Inv, CountIsExact, OneApplication, groupVars, memberVars
<1>12. QED
  BY <1>6, <1>7, <1>8, <1>9, <1>10, <1>11 DEF Inv

(* Only messages are handed out, from behind the given position.            *)
LEMMA LowestNumbered ==
    ASSUME NEW after, NEW upto, NEW n
    PROVE  Lowest(Numbered(after, upto), n) \subseteq
             {m.seq : m \in {x \in messages : x.seq > after /\ x.seq <= upto}}
BY DEF Lowest, Numbered

(* A page starts behind join_seq.                                           *)
LEMMA PullInv ==
    ASSUME Inv, NEW a \in Accounts, NEW e, NEW after \in Nat, NEW snapshot,
           Pull(a, e, after, snapshot)
    PROVE  Inv'
<1>1. /\ a \in active
      /\ seen' = seen \cup Copies(a, Page(a, after, snapshot))
      /\ hint' = hint
      /\ UNCHANGED <<groupVars, memberVars, apps, messages>>
  BY DEF Pull, Admitted, Joined
<1> DEFINE from == Max({after, joinSeq[a]})
<1>2. joinSeq[a] \in Nat /\ \A m \in messages : m.seq \in Nat
  BY DEF Inv, TypeOK, Message
<1>3. from >= joinSeq[a] /\ from \in Nat
  BY <1>2, MaxOfTwo
<1>4. Page(a, after, snapshot) \subseteq {m.seq : m \in {x \in messages : x.seq > from /\ x.seq <= snapshot}}
  BY LowestNumbered DEF Page
<1> HIDE DEF from
<1>5. Page(a, after, snapshot) \in SUBSET {m.seq : m \in {x \in messages : x.seq > joinSeq[a]}}
  BY <1>2, <1>3, <1>4
<1>6. hint' \subseteq Accounts
  BY <1>1 DEF Inv, TypeOK
<1>7. QED
  BY <1>1, <1>5, <1>6, CopiesInv

(* A notice starts behind ack_seq, which is not below join_seq.             *)
LEMMA DeliverInv ==
    ASSUME Inv, NEW a \in Accounts, NEW reached \in BOOLEAN, WithGroupDelivery(a, reached)
    PROVE  Inv'
<1>1. a \in active /\ UNCHANGED <<groupVars, memberVars, apps, messages>>
  BY DEF WithGroupDelivery, Joined
<1>2. CASE reached
  <2>1. seen' = seen \cup Copies(a, NoticeBodies(a)) /\ hint' \subseteq Accounts
    BY <1>2 DEF WithGroupDelivery, Inv, TypeOK
  <2>2. /\ joinSeq[a] \in Nat /\ ackSeq[a] \in Nat /\ joinSeq[a] <= ackSeq[a]
        /\ \A m \in messages : m.seq \in Nat
    BY DEF Inv, TypeOK, Message, Positions
  <2>3. NoticeBodies(a) \subseteq {m.seq : m \in {x \in messages : x.seq > ackSeq[a] /\ x.seq <= lastSeq}}
    BY LowestNumbered DEF NoticeBodies
  <2>4. NoticeBodies(a) \in SUBSET {m.seq : m \in {x \in messages : x.seq > joinSeq[a]}}
    BY <2>2, <2>3
  <2>5. QED
    BY <1>1, <2>1, <2>4, CopiesInv
<1>3. CASE ~reached
  <2>1. UNCHANGED vars
    BY <1>1, <1>3 DEF WithGroupDelivery, vars
  <2>2. TypeOK' /\ CountIsExact' /\ OneApplication'
    BY <2>1 DEF Inv, TypeOK, CountIsExact, OneApplication, vars, groupVars, memberVars, clientVars
  <2>3. QED
    BY <2>1, <2>2, MessagesFrame DEF Inv, vars, groupVars, clientVars
<1>4. QED
  BY <1>2, <1>3

(* An acknowledgement of this membership covers what its client has; one of *)
(* an earlier membership lies below the start of this one.                  *)
LEMMA AckInv ==
    ASSUME Inv, NEW a \in Accounts, NEW e \in Nat, NEW given, NEW n \in 1..MaxMsgs,
           Ack(a, e, given, n)
    PROVE  Inv'
<1> DEFINE new == Max({ackSeq[a], n, joinSeq[a]})
<1>1. /\ ClientHas(a, e, n) /\ a \in active /\ n <= lastSeq
      /\ ackSeq' = [ackSeq EXCEPT ![a] = new]
      /\ UNCHANGED <<groupVars, members, active, epoch, joinSeq, readSeq, apps, messages,
                     clientVars>>
  BY DEF Ack, Admitted, Joined
<1>2. /\ ackSeq[a] \in Nat /\ joinSeq[a] \in Nat /\ n \in Nat /\ epoch[a] \in Nat
      /\ joinSeq[a] <= ackSeq[a] /\ ackSeq[a] <= lastSeq /\ lastSeq \in 0..MaxMsgs
      /\ \A m \in messages : m.seq \in Nat
  BY DEF Inv, TypeOK, Positions, Message
<1>3. new \in {ackSeq[a], n, joinSeq[a]} /\ new >= ackSeq[a] /\ new >= n /\ new >= joinSeq[a]
  BY <1>2, MaxOfThree
<1> HIDE DEF new
<1>4. new \in 0..MaxMsgs /\ new <= lastSeq /\ ackSeq'[a] = new
      /\ \A x \in Accounts : x # a => ackSeq'[x] = ackSeq[x]
  BY <1>1, <1>2, <1>3, GroupConstants DEF Inv, TypeOK
<1>5. TypeOK'
  BY <1>1, <1>4 DEF Inv, TypeOK, groupVars, clientVars
<1>6. Positions'
  BY <1>1, <1>2, <1>3, <1>4 DEF Inv, Positions, groupVars
<1>7. Entitled' /\ Contiguous'
  BY <1>1 DEF Inv, Entitled, Contiguous, groupVars
<1>8. EarlierCopies' /\ SeenWhileMember'
  BY <1>1 DEF Inv, EarlierCopies, SeenWhileMember, groupVars, clientVars
<1>9. NothingSkipped'
  <2> SUFFICES ASSUME NEW x \in active, NEW m \in messages,
                      m.seq > joinSeq[x], m.seq <= ackSeq'[x]
               PROVE  [to |-> x, epoch |-> epoch[x], seq |-> m.seq] \in seen
    BY <1>1 DEF NothingSkipped, clientVars
  <2>1. CASE x # a \/ m.seq <= ackSeq[x]
    BY <2>1, <1>4 DEF Inv, NothingSkipped, TypeOK
  <2>2. CASE x = a /\ ~(m.seq <= ackSeq[x])
    <3>1. m.seq <= n /\ m.seq > joinSeq[a]
      BY <2>2, <1>2, <1>3, <1>4
    <3>2. [to |-> a, epoch |-> e, seq |-> n] \in seen
      BY <1>1 DEF ClientHas
    <3>3. e = epoch[a]
      <4> DEFINE c == [to |-> a, epoch |-> e, seq |-> n]
      <4>1. c.to = a /\ c.epoch = e /\ c.seq = n
        OBVIOUS
      <4>2. e <= epoch[a] /\ (e < epoch[a] => n <= joinSeq[a])
        BY <3>2, <4>1, <1>1 DEF Inv, EarlierCopies
      <4>3. QED
        BY <4>2, <3>1, <1>2
    <3>4. <<a, e>> \in m.audience
      BY <3>1, <3>3, <1>1 DEF Inv, Entitled
    <3>5. QED
      BY <3>1, <3>3, <3>4, <2>2, <1>1 DEF ClientHas
  <2>3. QED
    BY <2>1, <2>2
<1>10. CountIsExact' /\ OneApplication'
  BY <1>1 DEF Inv, CountIsExact, OneApplication, groupVars
<1>11. QED
  BY <1>5, <1>6, <1>7, <1>8, <1>9, <1>10 DEF Inv

(* Read only moves read_seq up.                                             *)
LEMMA ReadInv ==
    ASSUME Inv, NEW a \in Accounts, NEW e, NEW n \in 1..MaxMsgs, Read(a, e, n)
    PROVE  Inv' /\ readSeq'[a] >= readSeq[a] /\ \A x \in Accounts : x # a => readSeq'[x] = readSeq[x]
<1> DEFINE new == Max({readSeq[a], n, joinSeq[a]})
<1>1. /\ n <= lastSeq
      /\ readSeq' = [readSeq EXCEPT ![a] = new]
      /\ UNCHANGED <<groupVars, members, active, epoch, joinSeq, ackSeq, apps, messages,
                     clientVars>>
  BY DEF Read
<1>2. /\ readSeq[a] \in Nat /\ joinSeq[a] \in Nat /\ n \in Nat
      /\ joinSeq[a] <= readSeq[a] /\ readSeq[a] <= lastSeq /\ lastSeq \in 0..MaxMsgs
  BY DEF Inv, TypeOK, Positions
<1>3. new \in {readSeq[a], n, joinSeq[a]} /\ new >= readSeq[a] /\ new >= joinSeq[a]
  BY <1>2, MaxOfThree
<1> HIDE DEF new
<1>4. new \in 0..MaxMsgs /\ new <= lastSeq /\ readSeq'[a] = new
      /\ \A x \in Accounts : x # a => readSeq'[x] = readSeq[x]
  BY <1>1, <1>2, <1>3, GroupConstants DEF Inv, TypeOK
<1>5. TypeOK'
  BY <1>1, <1>4 DEF Inv, TypeOK, groupVars, clientVars
<1>6. Positions'
  BY <1>1, <1>2, <1>3, <1>4 DEF Inv, Positions, groupVars
<1>7. Entitled' /\ Contiguous' /\ EarlierCopies'
  BY <1>1 DEF Inv, Entitled, Contiguous, EarlierCopies, groupVars, clientVars
<1>8. NothingSkipped' /\ SeenWhileMember'
  BY <1>1 DEF Inv, NothingSkipped, SeenWhileMember, clientVars
<1>9. CountIsExact' /\ OneApplication'
  BY <1>1 DEF Inv, CountIsExact, OneApplication, groupVars
<1>10. QED
  BY <1>3, <1>4, <1>5, <1>6, <1>7, <1>8, <1>9 DEF Inv

(* Rename touches nothing the invariant speaks of.                          *)
LEMMA RenameInv == ASSUME Inv, NEW n \in Names, Rename(n) PROVE Inv'
<1>1. TypeOK' /\ CountIsExact' /\ OneApplication'
  BY DEF Rename, Inv, TypeOK, CountIsExact, OneApplication, memberVars, clientVars
<1>2. QED
  BY <1>1, MessagesFrame DEF Rename, Inv, clientVars

(* Stuttering keeps the invariant.                                          *)
LEMMA IdleInv == ASSUME Inv, UNCHANGED vars PROVE Inv'
<1>1. TypeOK' /\ CountIsExact' /\ OneApplication'
  BY DEF Inv, TypeOK, CountIsExact, OneApplication, vars, groupVars, memberVars, clientVars
<1>2. QED
  BY <1>1, MessagesFrame DEF Inv, vars, groupVars, clientVars

(* Every step keeps the invariant.                                          *)
LEMMA NextInv == Inv /\ [Next]_vars => Inv'
<1> SUFFICES ASSUME Inv, [Next]_vars PROVE Inv'
  OBVIOUS
<1>1. CASE OwnerStep
  <2>1. ASSUME NEW i \in DOMAIN apps, NEW accept \in BOOLEAN, Review(i, accept) PROVE Inv'
    <3>1. CASE accept = TRUE
      BY <2>1, <3>1, AcceptInv
    <3>2. CASE accept = FALSE
      BY <2>1, <3>2, RejectInv
    <3>3. QED
      BY <3>1, <3>2
  <2>2. QED
    BY <1>1, <2>1, RenameInv, RemoveInv, DismissInv DEF OwnerStep, Kick
<1>2. ASSUME NEW a \in Accounts, MemberStep(a) PROVE Inv'
  <2>1. ASSUME NEW e, Leave(a, e) PROVE Inv'
    BY <2>1, RemoveInv DEF Leave
  <2>2. ASSUME NEW e, NEW after \in 0..MaxMsgs, NEW snapshot \in 0..MaxMsgs,
               Pull(a, e, after, snapshot) PROVE Inv'
    <3>1. after \in Nat
      BY GroupConstants
    <3>2. QED
      BY <2>2, <3>1, PullInv
  <2>3. ASSUME NEW e \in Epochs, NEW n \in 1..MaxMsgs, NEW given, Ack(a, e, given, n) PROVE Inv'
    <3>1. e \in Nat
      BY GroupConstants DEF Epochs
    <3>2. QED
      BY <2>3, <3>1, AckInv
  <2>4. QED
    BY <1>2, <2>1, <2>2, <2>3, ApplyInv, SendInv, ReadInv DEF MemberStep
<1>3. ASSUME NEW a \in Accounts, NEW reached \in BOOLEAN, WithGroupDelivery(a, reached) PROVE Inv'
  BY <1>3, DeliverInv
<1>4. CASE UNCHANGED vars
  BY <1>4, IdleInv
<1>5. QED
  BY <1>1, <1>2, <1>3, <1>4 DEF Next, Deliver

(* The inductive invariant, for every set of accounts and every limit.      *)
THEOREM GroupInv == Spec => []Inv
<1>1. QED
  BY InitInv, NextInv, PTL DEF Spec

(* The rows keep their types and the owner stays a member.                  *)
THEOREM GroupTypes == Spec => []TypeOK
<1>1. Inv => TypeOK
  BY DEF Inv
<1>2. QED
  BY <1>1, GroupInv, PTL

(* Push, Pull and Send replies only ever carry messages of the receiving    *)
(* membership (perform, buildDelivery).                                     *)
THEOREM OnlyMembersSee == Spec => []SeenWhileMember
<1>1. Inv => SeenWhileMember
  BY DEF Inv
<1>2. QED
  BY <1>1, GroupInv, PTL

(* ack_seq never covers a message its membership has not received.          *)
THEOREM NoMessageSkipped == Spec => []NothingSkipped
<1>1. Inv => NothingSkipped
  BY DEF Inv
<1>2. QED
  BY <1>1, GroupInv, PTL

(* Message numbers are 1 to last_seq, each used once, by a member.          *)
THEOREM NumbersContiguous == Spec => []Contiguous
<1>1. Inv => Contiguous
  BY DEF Inv
<1>2. QED
  BY <1>1, GroupInv, PTL

(* member_count is the number of active rows, and an account has at most    *)
(* one pending application, none as a member or of a dismissed group.       *)
THEOREM MembershipConsistent == Spec => [](CountIsExact /\ OneApplication)
<1>1. Inv => CountIsExact /\ OneApplication
  BY DEF Inv
<1>2. QED
  BY <1>1, GroupInv, PTL

(* Epochs grow, and positions grow within an epoch.                         *)
THEOREM PositionsOnlyGrow == Spec => PositionsGrow
<1> DEFINE Grow == \A a \in Accounts :
                     /\ epoch'[a] >= epoch[a]
                     /\ epoch'[a] = epoch[a] => ackSeq'[a] >= ackSeq[a] /\ readSeq'[a] >= readSeq[a]
<1>1. Inv /\ [Next]_vars => [Grow]_vars
  <2> SUFFICES ASSUME Inv, Next PROVE Grow
    BY DEF vars
  <2>1. \A a \in Accounts : /\ epoch[a] \in Nat /\ ackSeq[a] \in Nat /\ readSeq[a] \in Nat
                            /\ ackSeq[a] <= lastSeq /\ readSeq[a] <= lastSeq /\ lastSeq \in Nat
    BY DEF Inv, TypeOK, Positions
  <2>2. ASSUME UNCHANGED <<epoch, ackSeq, readSeq>> PROVE Grow
    BY <2>1, <2>2
  <2>3. ASSUME NEW i \in DOMAIN apps, Review(i, TRUE) PROVE Grow
    <3> DEFINE t == apps[i].account
    <3>1. Admit(t) /\ t \in Accounts /\ t \notin active
      <4>1. apps[i] \in Application /\ apps[i].status = "pending"
        BY <2>3 DEF Inv, TypeOK, Review
      <4>2. t \in Accounts
        BY <4>1 DEF Application
      <4>3. QED
        BY <2>3, <4>1, <4>2 DEF Inv, OneApplication, Review
    <3> HIDE DEF t
    <3>2. /\ epoch' = IF t \in members THEN [epoch EXCEPT ![t] = @ + 1] ELSE epoch
          /\ ackSeq' = [ackSeq EXCEPT ![t] = lastSeq]
          /\ readSeq' = [readSeq EXCEPT ![t] = lastSeq]
      BY <3>1 DEF Admit
    <3>3. QED
      BY <3>1, <3>2, <2>1 DEF Inv, TypeOK
  <2>4. ASSUME NEW i \in DOMAIN apps, NEW accept \in BOOLEAN, Review(i, accept) PROVE Grow
    <3>1. CASE accept = TRUE
      BY <2>3, <2>4, <3>1
    <3>2. CASE accept = FALSE
      BY <2>2, <2>4, <3>2 DEF Review, memberVars
    <3>3. QED
      BY <3>1, <3>2
  <2>5. CASE OwnerStep
    BY <2>2, <2>4, <2>5 DEF OwnerStep, Rename, Kick, Remove, Dismiss, memberVars
  <2>6. ASSUME NEW a \in Accounts, MemberStep(a) PROVE Grow
    <3>1. ASSUME NEW e, NEW n \in 1..MaxMsgs, Read(a, e, n) PROVE Grow
      <4>1. UNCHANGED <<epoch, ackSeq>>
        BY <3>1 DEF Read
      <4>2. readSeq'[a] >= readSeq[a] /\ \A x \in Accounts : x # a => readSeq'[x] = readSeq[x]
        BY <3>1, ReadInv
      <4>3. \A x \in Accounts : readSeq'[x] >= readSeq[x]
        BY <4>2, <2>1
      <4>4. QED
        BY <4>1, <4>3, <2>1
    <3>2. ASSUME NEW e, NEW given, NEW n \in 1..MaxMsgs, Ack(a, e, given, n) PROVE Grow
      <4>1. /\ ackSeq' = [ackSeq EXCEPT ![a] = Max({ackSeq[a], n, joinSeq[a]})]
            /\ UNCHANGED <<epoch, readSeq>>
        BY <3>2 DEF Ack
      <4>2. n \in Nat /\ joinSeq[a] \in Nat /\ ackSeq[a] \in Nat
        BY DEF Inv, TypeOK
      <4>3. Max({ackSeq[a], n, joinSeq[a]}) >= ackSeq[a]
        BY <4>2, MaxOfThree
      <4>4. \A x \in Accounts : ackSeq'[x] >= ackSeq[x]
        BY <4>1, <4>3, <2>1 DEF Inv, TypeOK
      <4>5. QED
        BY <4>1, <4>4, <2>1
    <3>3. ASSUME NEW e, Leave(a, e) \/ Send(a, e) PROVE Grow
      BY <2>2, <3>3 DEF Leave, Remove, Send, memberVars
    <3>4. ASSUME NEW e, NEW after, NEW snapshot, Pull(a, e, after, snapshot) PROVE Grow
      BY <2>2, <3>4 DEF Pull, memberVars
    <3>5. CASE Apply(a)
      BY <2>2, <3>5 DEF Apply, memberVars
    <3>6. QED
      BY <2>6, <3>1, <3>2, <3>3, <3>4, <3>5 DEF MemberStep
  <2>7. ASSUME NEW a \in Accounts, NEW reached \in BOOLEAN, WithGroupDelivery(a, reached) PROVE Grow
    BY <2>2, <2>7 DEF WithGroupDelivery, memberVars
  <2>8. QED
    BY <2>5, <2>6, <2>7 DEF Next, Deliver
<1>2. QED
  BY <1>1, GroupInv, PTL DEF Spec, PositionsGrow


-----------------------------------------------------------------------------
(* Snowflake.                                                               *)

(* The last id is <<last, sequence>>; a caller that found the sequence used *)
(* up has reset it.                                                         *)
LastKnown ==
    ids # <<>> => /\ ids[Len(ids)][1] = last
                  /\ at # "spinning" => ids[Len(ids)][2] = sequence

SnowflakeInv == SnowflakeTypeOK /\ LastKnown

(* What a step may do to the ids: the body of FallsOnlyAfterSleep.          *)
Falls ==
    ids' # ids /\ ids # <<>> =>
        \/ Below(ids[Len(ids)], ids'[Len(ids')])
        \/ at = "asleep" /\ clock < last

(* Issue records the id it appends.                                         *)
LEMMA IssueStep ==
    ASSUME SnowflakeInv, NEW ms \in 0..MaxClock, NEW n \in 0..MaxSequence,
           Issue(ms, n), clock' = clock
    PROVE  /\ SnowflakeInv' /\ ids'[Len(ids')] = <<ms, n>>
           /\ ids # <<>> /\ (ms > last \/ (ms = last /\ n > sequence /\ at # "spinning"))
                => Below(ids[Len(ids)], ids'[Len(ids')])
<1> USE SnowflakeAssumption
<1>1. ids \in Seq((0..MaxClock) \X (0..MaxSequence)) BY DEF SnowflakeInv, SnowflakeTypeOK
<1>2. ids' = Append(ids, <<ms, n>>) /\ last' = ms /\ sequence' = n /\ at' = "none" /\ left' = 0
  BY DEF Issue
<1>3. ids' \in Seq((0..MaxClock) \X (0..MaxSequence)) /\ ids'[Len(ids')] = <<ms, n>>
  BY <1>1, <1>2
<1>4. SnowflakeTypeOK'
  BY <1>2, <1>3 DEF SnowflakeInv, SnowflakeTypeOK
<1>5. LastKnown'
  BY <1>2, <1>3 DEF LastKnown
<1>6. <<ms, n>>[1] = ms /\ <<ms, n>>[2] = n
  OBVIOUS
<1>7. ids # <<>> /\ (ms > last \/ (ms = last /\ n > sequence /\ at # "spinning"))
        => Below(ids[Len(ids)], <<ms, n>>)
  BY <1>6 DEF SnowflakeInv, LastKnown, Below
<1> QED BY <1>3, <1>4, <1>5, <1>7 DEF SnowflakeInv

(* Continue issues an id or finds the sequence used up.                     *)
LEMMA ContinueStep ==
    ASSUME SnowflakeInv, at # "spinning", Continue, clock' = clock
    PROVE  SnowflakeInv' /\ (ids' # ids /\ ids # <<>> /\ clock >= last =>
                                Below(ids[Len(ids)], ids'[Len(ids')]))
<1> USE SnowflakeAssumption
<1>0. clock \in 0..MaxClock /\ last \in Int /\ sequence \in 0..MaxSequence
  BY DEF SnowflakeInv, SnowflakeTypeOK
<1>1. CASE clock # last
  <2>1. Issue(clock, 0) BY <1>1 DEF Continue
  <2> QED BY <1>0, <1>1, <2>1, IssueStep
<1>2. CASE clock = last /\ sequence < MaxSequence
  <2>1. Issue(clock, sequence + 1) BY <1>2 DEF Continue
  <2>2. sequence + 1 \in 0..MaxSequence BY <1>0, <1>2
  <2> QED BY <1>0, <1>2, <2>1, <2>2, IssueStep
<1>3. CASE clock = last /\ ~(sequence < MaxSequence)
  <2>1. sequence' = 0 /\ at' = "spinning" /\ UNCHANGED <<last, left, ids>>
    BY <1>3 DEF Continue
  <2> QED BY <2>1 DEF SnowflakeInv, SnowflakeTypeOK, LastKnown
<1> QED BY <1>1, <1>2, <1>3

(* The steps of Snowflake keep the invariant.                               *)
LEMMA SnowflakeStep ==
    SnowflakeInv /\ [SnowflakeNext]_snowflakeVars => SnowflakeInv' /\ Falls
<1> USE SnowflakeAssumption
<1> SUFFICES ASSUME SnowflakeInv, [SnowflakeNext]_snowflakeVars PROVE SnowflakeInv' /\ Falls
  OBVIOUS
<1>0. /\ clock \in 0..MaxClock /\ last \in -1..MaxClock
      /\ sequence \in 0..MaxSequence /\ left \in 0..Tolerance
  BY DEF SnowflakeInv, SnowflakeTypeOK
<1>1. CASE NextId
  <2>1. CASE clock >= last
    BY <1>1, <2>1, ContinueStep DEF NextId, Falls
  <2>2. CASE ~(clock >= last)
    <3>1. /\ at' = "asleep" /\ left' = last - clock + 1 /\ last - clock < Tolerance
          /\ UNCHANGED <<last, sequence, ids, clock>> /\ at = "none"
      BY <1>1, <2>2 DEF NextId
    <3> QED BY <1>0, <2>2, <3>1 DEF SnowflakeInv, SnowflakeTypeOK, LastKnown, Falls
  <2> QED BY <2>1, <2>2
<1>2. CASE Wake
  BY <1>0, <1>2, ContinueStep DEF Wake, Falls
<1>3. CASE SpinEnds
  BY <1>0, <1>3, IssueStep DEF SpinEnds, Falls
<1>4. CASE Tick
  <2>1. clock' = clock + 1 /\ left' = (IF left > 0 THEN left - 1 ELSE 0)
        /\ clock < MaxClock /\ UNCHANGED <<last, sequence, at, ids>>
    BY <1>4 DEF Tick
  <2> QED BY <1>0, <2>1 DEF SnowflakeInv, SnowflakeTypeOK, LastKnown, Falls
<1>5. CASE StepBack
  <2>1. clock' \in 0..MaxClock /\ UNCHANGED <<last, sequence, at, left, ids>>
    BY <1>5 DEF StepBack
  <2> QED BY <2>1 DEF SnowflakeInv, SnowflakeTypeOK, LastKnown, Falls
<1>6. CASE UNCHANGED snowflakeVars
  BY <1>6 DEF snowflakeVars, SnowflakeInv, SnowflakeTypeOK, LastKnown, Falls
<1> QED BY <1>1, <1>2, <1>3, <1>4, <1>5, <1>6 DEF SnowflakeNext

(* An empty generator satisfies the invariant.                              *)
LEMMA SnowflakeInitInv == SnowflakeInit => SnowflakeInv
  BY SnowflakeAssumption DEF SnowflakeInit, SnowflakeInv, SnowflakeTypeOK, LastKnown

(* For any tolerance, sequence width and clock, set back at any time, an id *)
(* of nextId is above the one issued before it, unless its caller slept and *)
(* woke at a clock behind lastTimestamp_, which nextId does not test again. *)
THEOREM IdsFallOnlyAfterSleep == SnowflakeSpec => FallsOnlyAfterSleep
<1>1. SnowflakeInv /\ [SnowflakeNext]_snowflakeVars => [Falls]_snowflakeVars
  BY SnowflakeStep
<1>2. SnowflakeInv /\ [SnowflakeNext]_snowflakeVars => SnowflakeInv'
  BY SnowflakeStep
<1> QED BY <1>1, <1>2, SnowflakeInitInv, PTL DEF SnowflakeSpec, FallsOnlyAfterSleep, Falls

-----------------------------------------------------------------------------
(* Group numbers.                                                           *)

IdSet == (0..MaxClock) \X (0..MaxSequence)

RequestTypes ==
    /\ requests \in [Requests -> [name : Payloads, number : Numbers] \cup {None}]
    /\ cursor \in 1..(MaxNumber + 1)
    /\ reqLock \in [Requests -> Callers \cup {None}]
    /\ cursorLock \in Actors \cup {None}
    /\ pc \in [Actors -> {"idle", "request", "id", "wait", "number", "commit", "done",
                          "ensure", "up"}]
    /\ input \in [Callers -> [id : Requests, name : Payloads] \cup {None}]
    /\ answer \in [Callers -> [code : {"none", "ok", "conflict", "refused"},
                               result : Numbers \cup {None}]]
    /\ group \in [Callers -> IdSet \cup {None}]
    /\ missing \in [Starters -> SUBSET Legacy]

(* A call has an input once it began.                                       *)
CallsOK == \A c \in Callers : pc[c] = "idle" <=> input[c] = None

(* What the row locks protect: the request has not taken effect, and there  *)
(* is a number left.                                                        *)
LocksOK ==
    /\ \A c \in Callers :
        /\ pc[c] \in {"id", "wait", "number", "commit"} =>
            reqLock[Id(c)] = c /\ requests[Id(c)] = None
        /\ pc[c] = "commit" => cursorLock = c /\ cursor <= MaxNumber
    /\ \A p \in Starters : pc[p] = "number" => cursorLock = p

(* No group has the id that a call has inserted; the cursor's lock keeps    *)
(* other calls with the same id from committing first.                      *)
IdsOK == \A c \in Callers : pc[c] = "commit" => group[c] \notin DOMAIN groups

(* Groups that calls create have a number from the start; numbers are below *)
(* the cursor and differ.                                                   *)
GroupsOK ==
    /\ Legacy \subseteq DOMAIN groups
    /\ DOMAIN groups \ Legacy \subseteq DOMAIN numbers
    /\ DOMAIN numbers \subseteq DOMAIN groups
    /\ \A g \in DOMAIN groups : g \notin Legacy => groups[g] \in Payloads
NumbersOK ==
    /\ \A g \in DOMAIN numbers : numbers[g] \in Numbers /\ numbers[g] < cursor
    /\ \A g, h \in DOMAIN numbers : numbers[g] = numbers[h] => g = h

RequestsInv ==
    /\ SnowflakeInv /\ RequestTypes /\ CallsOK /\ LocksOK /\ IdsOK /\ GroupsOK /\ NumbersOK

-----------------------------------------------------------------------------
LEMMA GroupInitInv == GroupInit => RequestsInv
<1> SUFFICES ASSUME GroupInit PROVE RequestsInv
  OBVIOUS
<1> USE SnowflakeAssumption, GroupRequestsAssumption
<1>1. SnowflakeInv
  BY SnowflakeInitInv DEF GroupInit
<1>2. RequestTypes
  BY DEF GroupInit, RequestTypes, Numbers, Actors, Told
<1>3. CallsOK /\ LocksOK /\ IdsOK
  BY DEF GroupInit, CallsOK, LocksOK, IdsOK, Actors
<1>4. GroupsOK /\ NumbersOK
  BY DEF GroupInit, GroupsOK, NumbersOK
<1> QED BY <1>1, <1>2, <1>3, <1>4 DEF RequestsInv

(* The generator issues an id, or none.                                     *)
LEMMA NewId ==
    ASSUME SnowflakeInv, SnowflakeInv', NextId \/ Wake \/ SpinEnds, at' = "none"
    PROVE  ids'[Len(ids')] \in IdSet
<1>1. ids \in Seq(IdSet) /\ ids' \in Seq(IdSet)
  BY DEF SnowflakeInv, SnowflakeTypeOK, IdSet
<1>2. PICK ms, n : ids' = Append(ids, <<ms, n>>)
  BY DEF NextId, Wake, SpinEnds, Continue, Issue
<1> QED BY <1>1, <1>2

(* Whatever a step does to the tables, to the generator it is one of its    *)
(* steps.                                                                   *)
LEMMA GeneratorStep ==
    ASSUME SnowflakeInv, [GroupNext]_allVars
    PROVE  SnowflakeInv' /\ Falls
<1>1. [SnowflakeNext]_snowflakeVars
  BY DEF GroupNext, ExecuteGroupCommand, LockRequest, TakeId, LockCursor, Exhausted, Commit,
         Fails, GivesUp, FindMissing, LockForEnsure, EnsureNumber, EnsureFails, Started,
         MessageId, allVars, SnowflakeNext
<1> QED BY <1>1, SnowflakeStep

-----------------------------------------------------------------------------
CallerStep(c) ==
    \/ ExecuteGroupCommand(c) \/ LockRequest(c) \/ TakeId(c)
    \/ LockCursor(c) \/ Exhausted(c) \/ Commit(c) \/ Fails(c) \/ GivesUp(c)
StarterStep(p) ==
    FindMissing(p) \/ LockForEnsure(p) \/ EnsureNumber(p) \/ EnsureFails(p) \/ Started(p)

LEMMA GroupCases ==
    ASSUME [GroupNext]_allVars
    PROVE  \/ \E c \in Callers : CallerStep(c)
           \/ \E p \in Starters : StarterStep(p)
           \/ UNCHANGED requestVars
  BY DEF GroupNext, CallerStep, StarterStep, MessageId, allVars

LEMMA ReleaseKeeps ==
    ASSUME RequestTypes, NEW p \in Actors, Release(p)
    PROVE  /\ reqLock' \in [Requests -> Callers \cup {None}]
           /\ cursorLock' \in Actors \cup {None}
           /\ \A r \in Requests : reqLock[r] # p => reqLock'[r] = reqLock[r]
           /\ cursorLock # p => cursorLock' = cursorLock
  BY DEF RequestTypes, Release

(* A call under way knows its request.                                      *)
LEMMA HasInput ==
    ASSUME RequestTypes, CallsOK, NEW c \in Callers, pc[c] # "idle"
    PROVE  /\ input[c] \in [id : Requests, name : Payloads] /\ input[c] # None
           /\ Id(c) \in Requests /\ Name(c) \in Payloads
  BY DEF RequestTypes, CallsOK, Id, Name

LEMMA EndsTypes ==
    ASSUME RequestTypes, NEW c \in Callers,
           NEW told \in [code : {"none", "ok", "conflict", "refused"},
                         result : Numbers \cup {None}],
           Ends(c, told)
    PROVE  /\ pc' \in [Actors -> {"idle", "request", "id", "wait", "number", "commit", "done",
                                  "ensure", "up"}]
           /\ answer' \in [Callers -> [code : {"none", "ok", "conflict", "refused"},
                                       result : Numbers \cup {None}]]
           /\ group' \in [Callers -> IdSet \cup {None}]
  BY DEF RequestTypes, Ends, Actors

LEMMA CallerTypes ==
    ASSUME RequestsInv, SnowflakeInv', NEW c \in Callers, CallerStep(c)
    PROVE  RequestTypes'
<1> USE GroupRequestsAssumption
<1>0. RequestTypes /\ CallsOK /\ LocksOK /\ c \in Actors
  BY DEF RequestsInv, Actors
<1> DEFINE Answers == [code : {"none", "ok", "conflict", "refused"},
                       result : Numbers \cup {None}]
<1>a. Told("refused", None) \in Answers /\ Told("conflict", None) \in Answers
  BY DEF Told
<1>1. CASE ExecuteGroupCommand(c)
  BY <1>0, <1>1 DEF ExecuteGroupCommand, RequestTypes, groupTables, groupLocks
<1>2. CASE LockRequest(c)
  <2>1. Id(c) \in Requests /\ UNCHANGED <<groupTables, cursorLock, input, missing>>
    BY <1>0, <1>2, HasInput DEF LockRequest
  <2>2. CASE requests[Id(c)] = None
    <3>1. /\ reqLock' = [reqLock EXCEPT ![Id(c)] = c]
          /\ pc' = [pc EXCEPT ![c] = "id"] /\ UNCHANGED <<answer, group>>
      BY <1>2, <2>2 DEF LockRequest
    <3>2. /\ reqLock' \in [Requests -> Callers \cup {None}]
          /\ pc' \in [Actors -> {"idle", "request", "id", "wait", "number", "commit", "done",
                               "ensure", "up"}]
      BY <1>0, <2>1, <3>1 DEF RequestTypes
    <3> QED BY <1>0, <2>1, <3>1, <3>2 DEF RequestTypes, groupTables
  <2>3. CASE requests[Id(c)] # None
    <3>1. requests[Id(c)] \in [name : Payloads, number : Numbers]
      BY <1>0, <2>1, <2>3 DEF RequestTypes
    <3>2. Told("ok", requests[Id(c)].number) \in Answers
      BY <3>1 DEF Told
    <3>3. reqLock' = reqLock /\ \E told \in Answers : Ends(c, told)
      BY <1>2, <1>a, <2>3, <3>2 DEF LockRequest
    <3> QED BY <1>0, <2>1, <3>3, EndsTypes DEF RequestTypes, groupTables
  <2> QED BY <2>2, <2>3
<1>3. CASE TakeId(c)
  <2>1. /\ pc' \in [Actors -> {"idle", "request", "id", "wait", "number", "commit", "done",
                               "ensure", "up"}]
        /\ UNCHANGED <<groupTables, groupLocks, input, answer, missing>>
    BY <1>0, <1>3 DEF TakeId, RequestTypes
  <2>2. group' \in [Callers -> IdSet \cup {None}]
    BY <1>0, <1>3, NewId DEF TakeId, RequestTypes, RequestsInv
  <2> QED BY <1>0, <2>1, <2>2 DEF RequestTypes, groupTables, groupLocks
<1>4. CASE LockCursor(c)
  BY <1>0, <1>4 DEF LockCursor, RequestTypes, groupTables
<1>5. CASE Exhausted(c) \/ Fails(c)
  <2>1. Ends(c, Told("refused", None)) /\ Release(c) /\ UNCHANGED <<groupTables, input, missing>>
    BY <1>5 DEF Exhausted, Fails
  <2> QED BY <1>0, <1>a, <2>1, EndsTypes, ReleaseKeeps DEF RequestTypes, groupTables
<1>6. CASE Commit(c)
  <2>0. Id(c) \in Requests /\ Name(c) \in Payloads /\ cursor \in Numbers
    BY <1>0, <1>6, HasInput DEF Commit, LocksOK, RequestTypes, Numbers
  <2>1. requests' \in [Requests -> [name : Payloads, number : Numbers] \cup {None}]
    BY <1>0, <1>6, <2>0 DEF Commit, Row, RequestTypes
  <2>2. cursor' \in 1..(MaxNumber + 1)
    BY <2>0, <1>6 DEF Commit, Allocate, Numbers
  <2>3. Told("ok", cursor) \in Answers /\ Ends(c, Told("ok", cursor)) /\ Release(c)
        /\ UNCHANGED <<input, missing>>
    BY <1>6, <2>0 DEF Commit, Told
  <2> QED BY <1>0, <2>1, <2>2, <2>3, EndsTypes, ReleaseKeeps DEF RequestTypes
<1>7. CASE GivesUp(c)
  BY <1>0, <1>7, <1>a DEF GivesUp, RequestTypes, groupTables, groupLocks
<1> QED BY <1>1, <1>2, <1>3, <1>4, <1>5, <1>6, <1>7 DEF CallerStep

LEMMA StarterTypes ==
    ASSUME RequestsInv, NEW p \in Starters, StarterStep(p)
    PROVE  RequestTypes'
<1> USE GroupRequestsAssumption
<1>0. RequestTypes /\ GroupsOK /\ p \in Actors /\ cursor \in 1..(MaxNumber + 1)
  BY DEF RequestsInv, RequestTypes, Actors
<1>1. CASE FindMissing(p)
  <2>1. DOMAIN groups \ HasNumber \subseteq Legacy
    BY <1>0 DEF GroupsOK, HasNumber
  <2> QED BY <1>0, <1>1, <2>1 DEF FindMissing, RequestTypes, groupTables, groupLocks
<1>2. CASE LockForEnsure(p) \/ Started(p)
  BY <1>0, <1>2 DEF LockForEnsure, Started, RequestTypes, groupTables, groupLocks
<1>3. CASE EnsureNumber(p)
  <2>1. cursor' \in 1..(MaxNumber + 1)
    BY <1>0, <1>3 DEF EnsureNumber, Allocate
  <2>2. missing' \in [Starters -> SUBSET Legacy]
    BY <1>0, <1>3 DEF EnsureNumber, RequestTypes
  <2>3. Release(p) /\ pc' = [pc EXCEPT ![p] = "ensure"] /\ UNCHANGED <<requests, input, answer, group>>
    BY <1>3 DEF EnsureNumber
  <2> QED BY <1>0, <2>1, <2>2, <2>3, ReleaseKeeps DEF RequestTypes
<1>4. CASE EnsureFails(p)
  BY <1>0, <1>4, ReleaseKeeps DEF EnsureFails, RequestTypes, groupTables
<1> QED BY <1>1, <1>2, <1>3, <1>4 DEF StarterStep

-----------------------------------------------------------------------------
(* Calls and locks.                                                         *)

(* Callers and starting processes leave each other alone.                   *)
LEMMA CallerBystander ==
    ASSUME RequestTypes, NEW c \in Callers, CallerStep(c)
    PROVE  /\ \A q \in Actors : q # c => pc'[q] = pc[q]
           /\ \A d \in Callers : d # c => input'[d] = input[d] /\ group'[d] = group[d]
           /\ UNCHANGED missing
<1>1. CASE ExecuteGroupCommand(c)
  BY <1>1 DEF ExecuteGroupCommand, RequestTypes
<1>2. CASE LockRequest(c)
  BY <1>2 DEF LockRequest, Ends, RequestTypes
<1>3. CASE TakeId(c)
  BY <1>3 DEF TakeId, RequestTypes
<1>4. CASE LockCursor(c) \/ GivesUp(c)
  BY <1>4 DEF LockCursor, GivesUp, RequestTypes
<1>5. CASE Exhausted(c) \/ Fails(c) \/ Commit(c)
  BY <1>5 DEF Exhausted, Fails, Commit, Ends, RequestTypes
<1> QED BY <1>1, <1>2, <1>3, <1>4, <1>5 DEF CallerStep

LEMMA StarterBystander ==
    ASSUME RequestTypes, NEW p \in Starters, StarterStep(p)
    PROVE  /\ \A q \in Actors : q # p => pc'[q] = pc[q]
           /\ UNCHANGED <<input, answer, group, groups, requests>>
  BY DEF StarterStep, FindMissing, LockForEnsure, EnsureNumber, EnsureFails, Started,
         RequestTypes, groupTables

LEMMA CallsStep ==
    ASSUME RequestsInv, NEW c \in Callers, CallerStep(c)
    PROVE  CallsOK'
<1>0. RequestTypes /\ CallsOK /\ Callers \subseteq Actors
  BY DEF RequestsInv, Actors
<1>1. ASSUME NEW d \in Callers, d # c PROVE pc'[d] = "idle" <=> input'[d] = None
  BY <1>0, <1>1, CallerBystander DEF CallsOK
<1>2. pc'[c] = "idle" <=> input'[c] = None
  <2>1. CASE ExecuteGroupCommand(c)
    <3>1. PICK r \in Requests, x \in Payloads : input' = [input EXCEPT ![c] = [id |-> r, name |-> x]]
      BY <2>1 DEF ExecuteGroupCommand
    <3>2. input'[c] # None
      BY <1>0, <3>1, NoneIsNoRow DEF RequestTypes
    <3>3. pc'[c] # "idle"
      BY <1>0, <2>1 DEF ExecuteGroupCommand, RequestTypes
    <3> QED BY <3>2, <3>3
  <2>2. CASE ~ExecuteGroupCommand(c)
    <3>1. UNCHANGED input /\ pc[c] # "idle"
      BY <2>2 DEF CallerStep, LockRequest, TakeId, LockCursor, Exhausted, Fails, Commit, GivesUp
    <3>2. pc'[c] # "idle"
      BY <1>0, <2>2, <3>1 DEF CallerStep, LockRequest, TakeId, LockCursor, Exhausted, Fails,
                               Commit, GivesUp, Ends, RequestTypes
    <3> QED BY <1>0, <3>1, <3>2 DEF CallsOK
  <2> QED BY <2>1, <2>2
<1> QED BY <1>1, <1>2 DEF CallsOK

(* A caller frees or takes no lock that another one holds.                  *)
LEMMA CallerLocks ==
    ASSUME RequestsInv, NEW c \in Callers, CallerStep(c)
    PROVE  /\ \A r \in Requests : reqLock[r] \notin {None, c} => reqLock'[r] = reqLock[r]
           /\ cursorLock \notin {None, c} => cursorLock' = cursorLock
<1>0. RequestTypes /\ CallsOK /\ c \in Actors
  BY DEF RequestsInv, Actors
<1>1. CASE Release(c)
  BY <1>0, <1>1, ReleaseKeeps
<1>2. CASE LockRequest(c)
  BY <1>0, <1>2 DEF LockRequest, RequestTypes
<1>3. CASE LockCursor(c)
  BY <1>3 DEF LockCursor
<1>4. CASE UNCHANGED groupLocks
  BY <1>4 DEF groupLocks
<1> QED BY <1>1, <1>2, <1>3, <1>4
      DEF CallerStep, ExecuteGroupCommand, TakeId, Exhausted, Fails, Commit, GivesUp

(* Requests take effect, and the cursor moves, only at the COMMIT of the    *)
(* call that holds the row.                                                 *)
LEMMA CallerWrites ==
    ASSUME RequestsInv, NEW c \in Callers, CallerStep(c)
    PROVE  \/ /\ pc[c] = "commit" /\ Commit(c) /\ cursorLock = c /\ reqLock[Id(c)] = c
              /\ \A r \in Requests : r # Id(c) => requests'[r] = requests[r]
           \/ ~Commit(c) /\ UNCHANGED groupTables
<1>1. CASE Commit(c)
  BY <1>1 DEF Commit, RequestsInv, LocksOK, RequestTypes
<1>2. CASE ~Commit(c)
  BY <1>2 DEF CallerStep, ExecuteGroupCommand, LockRequest, TakeId, LockCursor, Exhausted,
              Fails, GivesUp
<1> QED BY <1>1, <1>2

LEMMA LocksStep ==
    ASSUME RequestsInv, NEW c \in Callers, CallerStep(c)
    PROVE  LocksOK'
<1> USE GroupRequestsAssumption
<1>0. RequestTypes /\ CallsOK /\ LocksOK /\ c \in Actors /\ Callers \subseteq Actors
      /\ Starters \subseteq Actors /\ None \notin Actors
  BY DEF RequestsInv, Actors
<1>1. ASSUME NEW d \in Callers, d # c
      PROVE  /\ pc'[d] \in {"id", "wait", "number", "commit"} =>
                  reqLock'[input'[d].id] = d /\ requests'[input'[d].id] = None
             /\ pc'[d] = "commit" => cursorLock' = d /\ cursor' <= MaxNumber
  <2>1. pc'[d] = pc[d] /\ input'[d] = input[d]
    BY <1>0, <1>1, CallerBystander
  <2>2. ASSUME pc[d] \in {"id", "wait", "number", "commit"}
        PROVE  reqLock'[Id(d)] = d /\ requests'[Id(d)] = None
    <3>1. reqLock[Id(d)] = d /\ requests[Id(d)] = None /\ Id(d) \in Requests
      BY <1>0, <2>2, HasInput DEF LocksOK
    <3>2. reqLock'[Id(d)] = d
      BY <1>0, <1>1, <3>1, CallerLocks
    <3>3. requests'[Id(d)] = None
      BY <1>0, <1>1, <3>1, CallerWrites DEF groupTables
    <3> QED BY <3>2, <3>3
  <2>3. ASSUME pc[d] = "commit" PROVE cursorLock' = d /\ cursor' <= MaxNumber
    <3>1. cursorLock = d /\ cursor <= MaxNumber
      BY <1>0, <2>3 DEF LocksOK
    <3>2. cursorLock' = d
      BY <1>0, <1>1, <3>1, CallerLocks
    <3>3. cursor' = cursor
      BY <1>1, <3>1, CallerWrites DEF groupTables
    <3> QED BY <3>1, <3>2, <3>3
  <2> QED BY <2>1, <2>2, <2>3 DEF Id
<1>2. ASSUME NEW p \in Starters PROVE pc'[p] = "number" => cursorLock' = p
  <2>1. p # c /\ pc'[p] = pc[p]
    BY <1>0, CallerBystander
  <2> QED BY <1>0, <2>1, CallerLocks DEF LocksOK
<1>3. /\ pc'[c] \in {"id", "wait", "number", "commit"} =>
            reqLock'[input'[c].id] = c /\ requests'[input'[c].id] = None
      /\ pc'[c] = "commit" => cursorLock' = c /\ cursor' <= MaxNumber
  <2>1. CASE LockRequest(c)
    <3>1. Id(c) \in Requests
      BY <1>0, <2>1, HasInput DEF LockRequest
    <3>2. CASE requests[Id(c)] = None
      BY <1>0, <2>1, <3>1, <3>2 DEF LockRequest, RequestTypes, groupTables, Id
    <3>3. CASE requests[Id(c)] # None
      BY <1>0, <2>1, <3>3 DEF LockRequest, Ends, RequestTypes
    <3> QED BY <3>2, <3>3
  <2>2. CASE TakeId(c)
    BY <1>0, <2>2 DEF TakeId, LocksOK, RequestTypes, groupTables, groupLocks, Id
  <2>3. CASE LockCursor(c)
    BY <1>0, <2>3 DEF LockCursor, LocksOK, RequestTypes, groupTables, Id
  <2>4. CASE GivesUp(c)
    BY <1>0, <2>4 DEF GivesUp, LocksOK, groupTables, groupLocks, Id
  <2>5. CASE ExecuteGroupCommand(c) \/ Exhausted(c) \/ Fails(c) \/ Commit(c)
    BY <1>0, <2>5 DEF ExecuteGroupCommand, Exhausted, Fails, Commit, Ends, RequestTypes
  <2> QED BY <2>1, <2>2, <2>3, <2>4, <2>5 DEF CallerStep
<1> QED BY <1>1, <1>2, <1>3 DEF LocksOK, Id

LEMMA StarterLocks ==
    ASSUME RequestsInv, NEW p \in Starters, StarterStep(p)
    PROVE  LocksOK'
<1> USE GroupRequestsAssumption
<1>0. RequestTypes /\ LocksOK /\ CallsOK /\ p \in Actors /\ Callers \subseteq Actors
      /\ Starters \subseteq Actors /\ None \notin Actors /\ p \notin Callers
  BY DEF RequestsInv, Actors
<1>1. /\ \A q \in Actors : q # p => pc'[q] = pc[q]
      /\ UNCHANGED <<input, requests>>
  BY <1>0, StarterBystander
<1>2. /\ \A r \in Requests : reqLock[r] # p => reqLock'[r] = reqLock[r]
      /\ cursorLock \notin {None, p} => cursorLock' = cursorLock
  BY <1>0, ReleaseKeeps DEF StarterStep, FindMissing, LockForEnsure, EnsureNumber, EnsureFails,
       Started, groupLocks
<1>3. cursorLock \notin {None, p} => cursor' = cursor
  BY <1>0 DEF StarterStep, FindMissing, LockForEnsure, EnsureNumber, EnsureFails, Started,
              groupTables, LocksOK
<1>4. ASSUME NEW d \in Callers
      PROVE  /\ pc'[d] \in {"id", "wait", "number", "commit"} =>
                  reqLock'[Id(d)] = d /\ requests'[Id(d)] = None
             /\ pc'[d] = "commit" => cursorLock' = d /\ cursor' <= MaxNumber
  <2>1. pc'[d] = pc[d] /\ d # p /\ d # None
    BY <1>0, <1>1
  <2>2. pc[d] # "idle" => Id(d) \in Requests
    BY <1>0, HasInput
  <2> QED BY <1>0, <1>1, <1>2, <1>3, <2>1, <2>2 DEF LocksOK
<1>5. ASSUME NEW q \in Starters PROVE pc'[q] = "number" => cursorLock' = q
  <2>1. CASE q # p
    BY <1>0, <1>1, <1>2, <2>1 DEF LocksOK
  <2>2. CASE q = p
    BY <1>0, <2>2 DEF StarterStep, FindMissing, LockForEnsure, EnsureNumber, EnsureFails, Started,
         RequestTypes
  <2> QED BY <2>1, <2>2
<1> QED BY <1>1, <1>4, <1>5 DEF LocksOK, Id

-----------------------------------------------------------------------------
(* Groups and numbers.                                                      *)

(* A new number is the cursor, which is above all others.                   *)
LEMMA AllocateKeeps ==
    ASSUME NumbersOK, cursor \in Numbers, NEW g, g \notin DOMAIN numbers, Allocate(g)
    PROVE  /\ NumbersOK' /\ DOMAIN numbers' = DOMAIN numbers \cup {g}
           /\ numbers'[g] = cursor /\ \A h \in DOMAIN numbers : numbers'[h] = numbers[h]
<1>1. /\ DOMAIN numbers' = DOMAIN numbers \cup {g} /\ numbers'[g] = cursor
      /\ \A h \in DOMAIN numbers : numbers'[h] = numbers[h]
      /\ cursor' = cursor + 1 /\ cursor \in Int
  BY GroupRequestsAssumption DEF Allocate, Numbers
<1>2. \A h \in DOMAIN numbers' : numbers'[h] \in Numbers /\ numbers'[h] < cursor'
  BY <1>1, GroupRequestsAssumption DEF NumbersOK, Numbers
<1>3. \A h \in DOMAIN numbers : numbers'[h] # cursor
  BY <1>1 DEF NumbersOK, Numbers
<1>4. ASSUME NEW h \in DOMAIN numbers', NEW k \in DOMAIN numbers', numbers'[h] = numbers'[k]
      PROVE  h = k
  BY <1>1, <1>3, <1>4 DEF NumbersOK
<1> QED BY <1>1, <1>2, <1>4 DEF NumbersOK

(* A COMMIT adds the group it holds the id of, with its number.             *)
LEMMA CommitGroup ==
    ASSUME RequestsInv, NEW c \in Callers, Commit(c)
    PROVE  /\ NumbersOK' /\ DOMAIN numbers' = DOMAIN numbers \cup {group[c]}
           /\ numbers'[group[c]] = cursor
           /\ \A h \in DOMAIN numbers : numbers'[h] = numbers[h]
           /\ group[c] \notin DOMAIN groups /\ group[c] \notin Legacy
           /\ DOMAIN groups' = DOMAIN groups \cup {group[c]} /\ groups'[group[c]] = Name(c)
           /\ \A h \in DOMAIN groups : groups'[h] = groups[h]
           /\ Name(c) \in Payloads /\ Id(c) \in Requests /\ cursor \in Numbers
<1>0. RequestTypes /\ CallsOK /\ LocksOK /\ IdsOK /\ GroupsOK /\ NumbersOK
  BY DEF RequestsInv
<1>1. cursor \in Numbers /\ Name(c) \in Payloads /\ Id(c) \in Requests
  BY <1>0, HasInput, GroupRequestsAssumption DEF Commit, LocksOK, RequestTypes, Numbers
<1>2. group[c] \notin DOMAIN groups
  BY <1>0 DEF Commit, IdsOK
<1>3. group[c] \notin DOMAIN numbers /\ group[c] \notin Legacy
  BY <1>0, <1>2 DEF GroupsOK
<1>4. Allocate(group[c])
  BY DEF Commit
<1>5. /\ DOMAIN groups' = DOMAIN groups \cup {group[c]} /\ groups'[group[c]] = Name(c)
      /\ \A h \in DOMAIN groups : groups'[h] = groups[h]
  BY <1>2 DEF Commit
<1> QED BY <1>0, <1>1, <1>2, <1>3, <1>4, <1>5, AllocateKeeps

(* A starting process adds at most the number of an older group.            *)
LEMMA EnsureGroup ==
    ASSUME RequestsInv, NEW p \in Starters, StarterStep(p)
    PROVE  /\ NumbersOK'
           /\ \/ numbers' = numbers
              \/ \E g \in Legacy : DOMAIN numbers' = DOMAIN numbers \cup {g}
           /\ \A h \in DOMAIN numbers : numbers'[h] = numbers[h]
<1>0. RequestTypes /\ NumbersOK
  BY DEF RequestsInv
<1>1. CASE EnsureNumber(p)
  <2>1. PICK g \in missing[p] : \/ g \in HasNumber /\ UNCHANGED <<numbers, cursor>>
                                \/ g \notin HasNumber /\ cursor <= MaxNumber /\ Allocate(g)
    BY <1>1 DEF EnsureNumber
  <2>2. g \in Legacy
    BY <1>0, <2>1 DEF RequestTypes
  <2>3. CASE UNCHANGED <<numbers, cursor>>
    BY <1>0, <2>3 DEF NumbersOK
  <2>4. CASE g \notin HasNumber /\ cursor <= MaxNumber /\ Allocate(g)
    <3>1. cursor \in Numbers /\ g \notin DOMAIN numbers
      BY <1>0, <2>4, GroupRequestsAssumption DEF RequestTypes, Numbers, HasNumber
    <3> QED BY <1>0, <2>2, <2>4, <3>1, AllocateKeeps
  <2> QED BY <2>1, <2>3, <2>4
<1>2. CASE ~EnsureNumber(p)
  <2>1. UNCHANGED <<numbers, cursor>>
    BY <1>2 DEF StarterStep, FindMissing, LockForEnsure, EnsureFails, Started, groupTables
  <2> QED BY <1>0, <2>1 DEF NumbersOK
<1> QED BY <1>1, <1>2

LEMMA GroupsStep ==
    ASSUME RequestsInv, NEW c \in Callers, CallerStep(c)
    PROVE  GroupsOK' /\ NumbersOK'
<1>0. GroupsOK /\ NumbersOK
  BY DEF RequestsInv
<1>1. CASE Commit(c)
  <2>1. /\ DOMAIN groups' = DOMAIN groups \cup {group[c]}
        /\ DOMAIN numbers' = DOMAIN numbers \cup {group[c]} /\ NumbersOK'
        /\ groups'[group[c]] = Name(c) /\ Name(c) \in Payloads
        /\ \A h \in DOMAIN groups : groups'[h] = groups[h]
    BY <1>1, CommitGroup
  <2>2. /\ Legacy \subseteq DOMAIN groups'
        /\ DOMAIN groups' \ Legacy \subseteq DOMAIN numbers'
        /\ DOMAIN numbers' \subseteq DOMAIN groups'
    BY <1>0, <2>1 DEF GroupsOK
  <2>3. \A g \in DOMAIN groups' : g \notin Legacy => groups'[g] \in Payloads
    BY <1>0, <2>1 DEF GroupsOK
  <2> QED BY <2>1, <2>2, <2>3 DEF GroupsOK
<1>2. CASE ~Commit(c)
  <2>1. UNCHANGED <<groups, numbers, cursor>>
    BY <1>2, CallerWrites DEF groupTables
  <2> QED BY <1>0, <2>1 DEF GroupsOK, NumbersOK
<1> QED BY <1>1, <1>2

LEMMA StarterGroups ==
    ASSUME RequestsInv, NEW p \in Starters, StarterStep(p)
    PROVE  GroupsOK' /\ NumbersOK' /\ IdsOK' /\ CallsOK'
<1>0. RequestTypes /\ GroupsOK /\ IdsOK /\ CallsOK
  BY DEF RequestsInv
<1>1. /\ UNCHANGED <<input, group, groups>>
      /\ \A c \in Callers : pc'[c] = pc[c]
  BY <1>0, StarterBystander, GroupRequestsAssumption DEF Actors
<1>2. GroupsOK'
  BY <1>0, <1>1, EnsureGroup DEF GroupsOK
<1>3. IdsOK'
  BY <1>0, <1>1 DEF IdsOK
<1>4. CallsOK'
  BY <1>0, <1>1 DEF CallsOK
<1> QED BY <1>2, <1>3, <1>4, EnsureGroup

(* LockCursor finds the id unused, and nobody else commits until its call   *)
(* has.                                                                     *)
LEMMA IdsStep ==
    ASSUME RequestsInv, NEW c \in Callers, CallerStep(c) PROVE IdsOK'
<1>0. RequestTypes /\ IdsOK /\ LocksOK /\ Callers \subseteq Actors
  BY DEF RequestsInv, Actors
<1>1. ASSUME NEW d \in Callers, d # c, pc'[d] = "commit" PROVE group'[d] \notin DOMAIN groups'
  <2>1. pc[d] = "commit" /\ group'[d] = group[d] /\ cursorLock = d
    BY <1>0, <1>1, CallerBystander DEF LocksOK
  <2>2. UNCHANGED groups
    BY <1>1, <2>1, CallerWrites DEF groupTables
  <2> QED BY <1>0, <2>1, <2>2 DEF IdsOK
<1>2. ASSUME pc'[c] = "commit" PROVE group'[c] \notin DOMAIN groups'
  <2>1. CASE LockCursor(c)
    BY <2>1 DEF LockCursor, groupTables
  <2>2. CASE GivesUp(c)
    BY <1>0, <1>2, <2>2 DEF GivesUp, groupTables, IdsOK
  <2>3. CASE ~(LockCursor(c) \/ GivesUp(c))
    <3>1. CASE ExecuteGroupCommand(c)
      BY <1>0, <1>2, <3>1 DEF ExecuteGroupCommand, RequestTypes
    <3>2. CASE LockRequest(c)
      BY <1>0, <1>2, <3>2 DEF LockRequest, Ends, RequestTypes
    <3>3. CASE TakeId(c)
      BY <1>0, <1>2, <3>3 DEF TakeId, RequestTypes
    <3>4. CASE Exhausted(c) \/ Commit(c) \/ Fails(c)
      BY <1>0, <1>2, <3>4 DEF Exhausted, Commit, Fails, Ends, RequestTypes
    <3> QED BY <2>3, <3>1, <3>2, <3>3, <3>4 DEF CallerStep
  <2> QED BY <2>1, <2>2, <2>3
<1> QED BY <1>1, <1>2 DEF IdsOK

LEMMA GroupStep == RequestsInv /\ [GroupNext]_allVars => RequestsInv'
<1> SUFFICES ASSUME RequestsInv, [GroupNext]_allVars PROVE RequestsInv'
  OBVIOUS
<1>0. SnowflakeInv'
  BY GeneratorStep DEF RequestsInv
<1>1. ASSUME NEW c \in Callers, CallerStep(c) PROVE RequestsInv'
  BY <1>0, <1>1, CallerTypes, CallsStep, LocksStep, IdsStep, GroupsStep DEF RequestsInv
<1>2. ASSUME NEW p \in Starters, StarterStep(p) PROVE RequestsInv'
  BY <1>0, <1>2, StarterTypes, StarterLocks, StarterGroups DEF RequestsInv
<1>3. CASE UNCHANGED requestVars
  <2>1. RequestTypes' /\ CallsOK'
    BY <1>3 DEF RequestsInv, RequestTypes, CallsOK, requestVars, groupTables, groupLocks
  <2>2. LocksOK'
    BY <1>3 DEF RequestsInv, LocksOK, Id, requestVars, groupTables, groupLocks
  <2>3. IdsOK'
    BY <1>3 DEF RequestsInv, IdsOK, requestVars, groupTables
  <2>4. GroupsOK' /\ NumbersOK'
    BY <1>3 DEF RequestsInv, GroupsOK, NumbersOK, requestVars, groupTables
  <2> QED BY <1>0, <2>1, <2>2, <2>3, <2>4 DEF RequestsInv
<1> QED BY <1>1, <1>2, <1>3, GroupCases

LEMMA GroupInvariance == GroupSpec => []RequestsInv
  BY GroupInitInv, GroupStep, PTL DEF GroupSpec

(* Message ids and group ids, taken from one generator by any number of     *)
(* calls, fall only after a sleep as well: Snowflake::nextId called by      *)
(* Create beside the sending of messages.                                   *)
THEOREM GroupIdsFallOnlyAfterSleep == GroupSpec => FallsOnlyAfterSleep
<1>1. RequestsInv /\ [GroupNext]_allVars => [Falls]_snowflakeVars
  BY GeneratorStep DEF RequestsInv
<1> QED BY <1>1, GroupInvariance, PTL DEF GroupSpec, FallsOnlyAfterSleep, Falls

(* A group keeps its number and no number is given twice, whatever calls    *)
(* create groups while processes that start number the older ones:          *)
(* allocateGroupNumber under the cursor's lock, and EnsureGroupNumbers.     *)
THEOREM NumbersGivenOnce == GroupSpec => NumbersOnce
<1>1. ASSUME RequestsInv, RequestsInv', [GroupNext]_allVars
      PROVE  /\ \A g \in HasNumber : numbers'[g] = numbers[g]
             /\ \A g, h \in DOMAIN numbers' : numbers'[g] = numbers'[h] => g = h
  <2>1. \A g, h \in DOMAIN numbers' : numbers'[g] = numbers'[h] => g = h
    BY <1>1 DEF RequestsInv, NumbersOK
  <2>2. ASSUME NEW c \in Callers, CallerStep(c)
        PROVE  \A g \in HasNumber : numbers'[g] = numbers[g]
    <3>1. CASE Commit(c)
      BY <1>1, <3>1, CommitGroup DEF HasNumber
    <3>2. CASE ~Commit(c)
      BY <1>1, <2>2, <3>2, CallerWrites DEF groupTables
    <3> QED BY <3>1, <3>2
  <2>3. ASSUME NEW p \in Starters, StarterStep(p)
        PROVE  \A g \in HasNumber : numbers'[g] = numbers[g]
    BY <1>1, <2>3, EnsureGroup DEF HasNumber
  <2>4. CASE UNCHANGED requestVars
    BY <2>1, <2>4 DEF requestVars, groupTables
  <2> QED BY <1>1, <2>1, <2>2, <2>3, <2>4, GroupCases
<1> QED BY <1>1, GroupInvariance, PTL DEF GroupSpec, NumbersOnce

-----------------------------------------------------------------------------
(* Create implements Once.                                                  *)

(* The variables of Once, read off the tables and the calls.                *)
AbsDone == [r \in Requests |->
    IF requests[r] = None THEN None
    ELSE [input |-> requests[r].name, result |-> requests[r].number]]
AbsEffects == {[input |-> groups[g], result |-> numbers[g]] :
                 g \in (DOMAIN groups \ Legacy) \cap HasNumber}
AbsAsked == [c \in Callers |->
    IF input[c] = None THEN None ELSE [id |-> Id(c), input |-> Name(c)]]

(* What a step of Once is in terms of them.                                 *)
AbsPerform(c) ==
    /\ AbsAsked[c] # None /\ AbsDone[AbsAsked[c].id] = None
    /\ \E r \in Numbers :
        /\ \A e \in AbsEffects : e.result # r
        /\ AbsDone' = [AbsDone EXCEPT ![AbsAsked[c].id] =
                            [input |-> AbsAsked[c].input, result |-> r]]
        /\ AbsEffects' = AbsEffects \cup {[input |-> AbsAsked[c].input, result |-> r]}
    /\ UNCHANGED AbsAsked

AbsTell(c) ==
    LET row == AbsDone'[AbsAsked[c].id] IN
    /\ AbsAsked[c] # None /\ answer[c].code = "none"
    /\ \/ /\ row # None /\ row.input = AbsAsked[c].input
          /\ answer' = [answer EXCEPT ![c] = [code |-> "ok", result |-> row.result]]
       \/ /\ row # None /\ row.input # AbsAsked[c].input
          /\ answer' = [answer EXCEPT ![c] = [code |-> "conflict", result |-> None]]
       \/ answer' = [answer EXCEPT ![c] = [code |-> "refused", result |-> None]]

LEMMA AskMaps ==
    ASSUME NEW c \in Callers, NEW r \in Requests, NEW x \in Payloads, AbsAsked[c] = None,
           AbsAsked' = [AbsAsked EXCEPT ![c] = [id |-> r, input |-> x]],
           UNCHANGED <<AbsDone, AbsEffects, answer>>
    PROVE  O!Next
<1>1. /\ AbsAsked[c] = None
      /\ \E j \in Requests, y \in Payloads :
            AbsAsked' = [AbsAsked EXCEPT ![c] = [id |-> j, input |-> y]]
  OBVIOUS
<1>2. O!Ask(c)
  BY <1>1 DEF O!Ask, AbsDone, AbsEffects, AbsAsked
<1> QED BY <1>2 DEF O!Next

LEMMA PerformMaps ==
    ASSUME NEW c \in Callers, AbsPerform(c), UNCHANGED answer \/ AbsTell(c)
    PROVE  O!Next
<1>1. O!Perform(c)
  BY DEF AbsPerform, O!Perform, O!Effect, AbsDone, AbsEffects, AbsAsked
<1>2. CASE UNCHANGED answer
  BY <1>1, <1>2 DEF O!Next
<1>3. CASE AbsTell(c)
  <2>1. O!Answer(c)
    BY <1>3 DEF AbsTell, O!Answer, O!Told, AbsDone, AbsAsked
  <2> QED BY <1>1, <2>1 DEF O!Next
<1> QED BY <1>2, <1>3

LEMMA TellMaps ==
    ASSUME NEW c \in Callers, AbsTell(c), UNCHANGED <<AbsDone, AbsEffects, AbsAsked>>
    PROVE  O!Next
<1>1. O!Answer(c)
  BY DEF AbsTell, O!Answer, O!Told, AbsDone, AbsAsked
<1>2. O!Answer(c) /\ UNCHANGED <<AbsDone, AbsEffects, AbsAsked>> => O!Next
  BY DEF O!Next, AbsDone, AbsEffects, AbsAsked
<1> QED BY <1>1, <1>2

(* What steps leave alone.                                                  *)
LEMMA TablesMap ==
    ASSUME UNCHANGED <<requests, groups, numbers>>
    PROVE  UNCHANGED <<AbsDone, AbsEffects>>
  BY DEF AbsDone, AbsEffects, HasNumber

LEMMA AskedMap ==
    ASSUME UNCHANGED input PROVE UNCHANGED AbsAsked
  BY DEF AbsAsked, Id, Name

(* A call that began has asked what it has as its input.                    *)
LEMMA HasAsked ==
    ASSUME RequestTypes, CallsOK, NEW c \in Callers, pc[c] # "idle"
    PROVE  /\ AbsAsked[c] # None /\ AbsAsked[c].id = Id(c) /\ AbsAsked[c].input = Name(c)
           /\ Id(c) \in Requests /\ Name(c) \in Payloads
<1>1. Id(c) \in Requests /\ Name(c) \in Payloads /\ input[c] # None
  BY HasInput
<1>2. [id |-> Id(c), input |-> Name(c)] \in [id : Requests, input : Payloads]
  BY <1>1
<1>3. AbsAsked[c] = [id |-> Id(c), input |-> Name(c)]
  BY <1>1 DEF AbsAsked
<1> QED BY <1>1, <1>2, <1>3, NoneIsNoRow

(* The end of a call is an answer of Once, given the row it looks at, or    *)
(* the client has had its answer.                                           *)
LEMMA EndIsTold ==
    ASSUME RequestTypes, CallsOK, NEW c \in Callers, pc[c] # "idle",
           NEW told, answer' = [answer EXCEPT ![c] = IF @.code = "none" THEN told ELSE @],
           \/ told = Told("refused", None)
           \/ /\ requests'[Id(c)] \in [name : Payloads, number : Numbers]
              /\ requests'[Id(c)].name = Name(c)
              /\ told = Told("ok", requests'[Id(c)].number)
           \/ /\ requests'[Id(c)] \in [name : Payloads, number : Numbers]
              /\ requests'[Id(c)].name # Name(c)
              /\ told = Told("conflict", None)
    PROVE  UNCHANGED answer \/ AbsTell(c)
<1>0. DOMAIN answer = Callers /\ answer = [d \in Callers |-> answer[d]]
  BY DEF RequestTypes
<1>1. CASE answer[c].code # "none"
  BY <1>0, <1>1
<1>2. CASE answer[c].code = "none"
  <2>1. answer' = [answer EXCEPT ![c] = told]
    BY <1>2
  <2>2. /\ AbsAsked[c] # None /\ AbsAsked[c].id = Id(c) /\ AbsAsked[c].input = Name(c)
        /\ Id(c) \in Requests
    BY HasAsked
  <2>3. ASSUME requests'[Id(c)] \in [name : Payloads, number : Numbers]
        PROVE  /\ AbsDone'[Id(c)] # None /\ AbsDone'[Id(c)].input = requests'[Id(c)].name
               /\ AbsDone'[Id(c)].result = requests'[Id(c)].number
    <3>1. requests'[Id(c)] # None
      BY <2>3, NoneIsNoRow DEF Numbers
    <3>2. AbsDone'[Id(c)] = [input |-> requests'[Id(c)].name, result |-> requests'[Id(c)].number]
      BY <2>2, <3>1 DEF AbsDone
    <3>3. AbsDone'[Id(c)] \in [input : Payloads, result : 1..MaxNumber]
      BY <2>3, <3>2 DEF Numbers
    <3> QED BY <3>2, <3>3, NoneIsNoRow
  <2>4. CASE told = Told("refused", None)
    BY <1>2, <2>1, <2>2, <2>4 DEF AbsTell, Told
  <2>5. CASE /\ requests'[Id(c)] \in [name : Payloads, number : Numbers]
             /\ requests'[Id(c)].name = Name(c)
             /\ told = Told("ok", requests'[Id(c)].number)
    BY <1>2, <2>1, <2>2, <2>3, <2>5 DEF AbsTell, Told
  <2>6. CASE /\ requests'[Id(c)] \in [name : Payloads, number : Numbers]
             /\ requests'[Id(c)].name # Name(c)
             /\ told = Told("conflict", None)
    BY <1>2, <2>1, <2>2, <2>3, <2>6 DEF AbsTell, Told
  <2> QED BY <2>4, <2>5, <2>6
<1> QED BY <1>1, <1>2

LEMMA CommitPerforms ==
    ASSUME RequestsInv, NEW c \in Callers, Commit(c)
    PROVE  AbsPerform(c)
<1>0. RequestTypes /\ CallsOK /\ LocksOK /\ GroupsOK /\ NumbersOK /\ pc[c] = "commit"
  BY DEF RequestsInv, Commit
<1>1. /\ AbsAsked[c] # None /\ AbsAsked[c].id = Id(c) /\ AbsAsked[c].input = Name(c)
      /\ Id(c) \in Requests /\ Name(c) \in Payloads /\ cursor \in Numbers
  BY <1>0, HasAsked, CommitGroup
<1>2. AbsDone[Id(c)] = None
  BY <1>0, <1>1 DEF LocksOK, AbsDone
<1>3. \A e \in AbsEffects : e.result # cursor
  <2>1. \A g \in DOMAIN numbers : numbers[g] # cursor
    BY <1>0, <1>1 DEF NumbersOK, Numbers
  <2> QED BY <2>1 DEF AbsEffects, HasNumber
<1>4. AbsDone' = [AbsDone EXCEPT ![Id(c)] = [input |-> Name(c), result |-> cursor]]
  <2>1. requests' = [requests EXCEPT ![Id(c)] = Row(Name(c), cursor)] /\ DOMAIN requests = Requests
    BY <1>0 DEF Commit, RequestTypes
  <2>2. Row(Name(c), cursor) # None
    BY <1>1, NoneIsNoRow DEF Row, Numbers
  <2> QED BY <1>1, <2>1, <2>2 DEF AbsDone, Row
<1>5. AbsEffects' = AbsEffects \cup {[input |-> Name(c), result |-> cursor]}
  <2> DEFINE new == group[c]
             S == (DOMAIN groups \ Legacy) \cap DOMAIN numbers
             T == (DOMAIN groups' \ Legacy) \cap DOMAIN numbers'
  <2>1. /\ T = S \cup {new} /\ groups'[new] = Name(c) /\ numbers'[new] = cursor
        /\ \A g \in S : groups'[g] = groups[g] /\ numbers'[g] = numbers[g]
    BY CommitGroup
  <2>2. \A e : e \in AbsEffects <=> \E g \in S : e = [input |-> groups[g], result |-> numbers[g]]
    BY DEF AbsEffects, HasNumber
  <2>3. \A e : e \in AbsEffects' <=> \E g \in T : e = [input |-> groups'[g], result |-> numbers'[g]]
    BY DEF AbsEffects, HasNumber
  <2> HIDE DEF new, S, T
  <2>4. \A e : e \in AbsEffects' <=>
            e \in AbsEffects \/ e = [input |-> Name(c), result |-> cursor]
    BY <2>1, <2>2, <2>3
  <2> QED BY <2>4
<1>6. UNCHANGED AbsAsked
  BY AskedMap DEF Commit
<1> QED BY <1>1, <1>2, <1>3, <1>4, <1>5, <1>6 DEF AbsPerform

(* A number for an older group is no effect of a request.                   *)
LEMMA EnsureKeeps ==
    ASSUME RequestsInv, NEW p \in Starters, StarterStep(p)
    PROVE  UNCHANGED <<AbsDone, AbsEffects, AbsAsked, answer>>
<1>1. UNCHANGED <<input, answer, groups, requests>>
  BY StarterBystander DEF RequestsInv
<1>2. AbsDone' = AbsDone /\ AbsAsked' = AbsAsked
  BY <1>1, AskedMap DEF AbsDone
<1> DEFINE S == (DOMAIN groups \ Legacy) \cap DOMAIN numbers
           T == (DOMAIN groups' \ Legacy) \cap DOMAIN numbers'
<1>3. T = S /\ \A g \in S : groups'[g] = groups[g] /\ numbers'[g] = numbers[g]
  BY <1>1, EnsureGroup
<1>4. \A e : e \in AbsEffects <=> \E g \in S : e = [input |-> groups[g], result |-> numbers[g]]
  BY DEF AbsEffects, HasNumber
<1>5. \A e : e \in AbsEffects' <=> \E g \in T : e = [input |-> groups'[g], result |-> numbers'[g]]
  BY DEF AbsEffects, HasNumber
<1> HIDE DEF S, T
<1>6. \A e : e \in AbsEffects' <=> e \in AbsEffects
  BY <1>3, <1>4, <1>5
<1>7. AbsEffects' = AbsEffects
  BY <1>6
<1> QED BY <1>1, <1>2, <1>7

LEMMA OnceStep == RequestsInv /\ [GroupNext]_allVars => [O!Next]_(O!vars)
<1> SUFFICES ASSUME RequestsInv, [GroupNext]_allVars
             PROVE  O!Next \/ UNCHANGED <<AbsDone, AbsEffects, AbsAsked, answer>>
  BY DEF O!vars, AbsDone, AbsEffects, AbsAsked
<1>0. RequestTypes /\ CallsOK /\ LocksOK
  BY DEF RequestsInv
<1>a. ASSUME NEW c \in Callers, UNCHANGED answer \/ AbsTell(c),
             UNCHANGED <<requests, groups, numbers>>, UNCHANGED input
      PROVE  O!Next \/ UNCHANGED <<AbsDone, AbsEffects, AbsAsked, answer>>
  BY <1>a, TellMaps, TablesMap, AskedMap
<1>1. ASSUME NEW c \in Callers, ExecuteGroupCommand(c) PROVE O!Next
  <2>1. PICK r \in Requests, x \in Payloads : input' = [input EXCEPT ![c] = [id |-> r, name |-> x]]
    BY <1>1 DEF ExecuteGroupCommand
  <2>2. UNCHANGED <<AbsDone, AbsEffects, answer>>
    BY <1>1, TablesMap DEF ExecuteGroupCommand, groupTables
  <2>3. input[c] = None /\ [id |-> r, name |-> x] # None /\ DOMAIN input = Callers
    BY <1>0, <1>1, NoneIsNoRow DEF ExecuteGroupCommand, CallsOK, RequestTypes
  <2>4. AbsAsked[c] = None /\ AbsAsked' = [AbsAsked EXCEPT ![c] = [id |-> r, input |-> x]]
    BY <2>1, <2>3 DEF AbsAsked, Id, Name
  <2> QED BY <2>2, <2>4, AskMaps
<1>2. ASSUME NEW c \in Callers, LockRequest(c)
      PROVE  O!Next \/ UNCHANGED <<AbsDone, AbsEffects, AbsAsked, answer>>
  <2>1. /\ pc[c] = "request" /\ UNCHANGED <<requests, groups, numbers>> /\ UNCHANGED input
        /\ Id(c) \in Requests
    BY <1>0, <1>2, HasInput DEF LockRequest, groupTables
  <2>2. CASE requests[Id(c)] = None
    BY <1>2, <1>a, <2>1, <2>2 DEF LockRequest
  <2>3. CASE requests[Id(c)] # None
    <3>1. requests'[Id(c)] \in [name : Payloads, number : Numbers]
      BY <1>0, <2>1, <2>3 DEF RequestTypes
    <3>2. Ends(c, IF requests'[Id(c)].name = Name(c) THEN Told("ok", requests'[Id(c)].number)
                  ELSE Told("conflict", None))
      BY <1>2, <2>1, <2>3 DEF LockRequest
    <3>3. UNCHANGED answer \/ AbsTell(c)
      <4>1. CASE requests'[Id(c)].name = Name(c)
        BY <1>0, <2>1, <3>1, <3>2, <4>1, EndIsTold DEF Ends
      <4>2. CASE requests'[Id(c)].name # Name(c)
        BY <1>0, <2>1, <3>1, <3>2, <4>2, EndIsTold DEF Ends
      <4> QED BY <4>1, <4>2
    <3> QED BY <1>a, <2>1, <3>3
  <2> QED BY <2>2, <2>3
<1>3. ASSUME NEW c \in Callers, TakeId(c) \/ LockCursor(c)
      PROVE  O!Next \/ UNCHANGED <<AbsDone, AbsEffects, AbsAsked, answer>>
  BY <1>3, <1>a DEF TakeId, LockCursor, groupTables
<1>4. ASSUME NEW c \in Callers, Exhausted(c) \/ Fails(c)
      PROVE  O!Next \/ UNCHANGED <<AbsDone, AbsEffects, AbsAsked, answer>>
  <2>1. /\ pc[c] # "idle" /\ Ends(c, Told("refused", None))
        /\ UNCHANGED <<requests, groups, numbers>> /\ UNCHANGED input
    BY <1>4 DEF Exhausted, Fails, groupTables
  <2>2. UNCHANGED answer \/ AbsTell(c)
    BY <1>0, <2>1, EndIsTold DEF Ends
  <2> QED BY <1>a, <2>1, <2>2
<1>5. ASSUME NEW c \in Callers, GivesUp(c)
      PROVE  O!Next \/ UNCHANGED <<AbsDone, AbsEffects, AbsAsked, answer>>
  <2>1. /\ pc[c] # "idle" /\ UNCHANGED <<requests, groups, numbers>> /\ UNCHANGED input
        /\ answer[c].code = "none"
        /\ answer' = [answer EXCEPT ![c] = Told("refused", None)]
    BY <1>5 DEF GivesUp, groupTables
  <2>2. AbsTell(c)
    BY <1>0, <2>1, HasAsked DEF AbsTell, Told
  <2> QED BY <1>a, <2>1, <2>2
<1>6. ASSUME NEW c \in Callers, Commit(c) PROVE O!Next
  <2>1. pc[c] # "idle" /\ Ends(c, Told("ok", cursor))
    BY <1>6 DEF Commit
  <2>2. Id(c) \in Requests /\ Name(c) \in Payloads /\ cursor \in Numbers
    BY <1>6, CommitGroup
  <2>3. requests'[Id(c)] = Row(Name(c), cursor)
    BY <1>0, <1>6, <2>2 DEF Commit, RequestTypes
  <2>4. /\ requests'[Id(c)] \in [name : Payloads, number : Numbers]
        /\ requests'[Id(c)].name = Name(c) /\ requests'[Id(c)].number = cursor
    BY <2>2, <2>3 DEF Row
  <2>5. UNCHANGED answer \/ AbsTell(c)
    BY <1>0, <2>1, <2>4, EndIsTold DEF Ends
  <2> QED BY <1>6, <2>5, CommitPerforms, PerformMaps
<1>7. ASSUME NEW p \in Starters, StarterStep(p)
      PROVE  UNCHANGED <<AbsDone, AbsEffects, AbsAsked, answer>>
  BY <1>7, EnsureKeeps
<1>8. CASE UNCHANGED requestVars
  BY <1>8, TablesMap, AskedMap DEF requestVars, groupTables
<1> QED BY <1>1, <1>2, <1>3, <1>4, <1>5, <1>6, <1>7, <1>8, GroupCases DEF CallerStep

(* Create takes effect at most once per request id, with one group and one  *)
(* number, and every call that hears of a number hears of that one,         *)
(* whatever calls, lost answers and starting processes run side by side:    *)
(* executeOnPool with im_group_requests.                                    *)
THEOREM CreateImplementsOnce == GroupSpec => ImplementsOnce
<1>1. GroupInit => O!Init
  <2> SUFFICES ASSUME GroupInit PROVE O!Init
    OBVIOUS
  <2>1. /\ AbsDone = [r \in Requests |-> None] /\ AbsAsked = [c \in Callers |-> None]
        /\ answer = [c \in Callers |-> [code |-> "none", result |-> None]]
    BY DEF GroupInit, AbsDone, AbsAsked, Told
  <2>2. AbsEffects = {}
    BY DEF GroupInit, AbsEffects, HasNumber
  <2> QED BY <2>1, <2>2 DEF O!Init, O!Told, AbsDone, AbsEffects, AbsAsked
<1> QED BY <1>1, GroupInvariance, OnceStep, PTL DEF GroupSpec, ImplementsOnce, O!Spec
=============================================================================
