# Verification of Ape-Server

TLA+ models of the message, conversation, friend, group, gateway and
registration paths of Ape-Server and of its service life cycle, model-checked with TLC and, where noted, proved with
TLAPS. Paths are relative to the repository root. `PROJECT.json` maps every
definition to the lines it translates and lists runs, mutants, hazards,
findings and theorems.

## 1. The system

Ape-Server is a C++20 instant-messaging server. `src/main.cpp` starts all
services in one process; they call each other through gRPC, keep their state
in MySQL, MongoDB and Redis, and hand messages to each other through Kafka.

    client --ws--> gateway --SendMessages--> msg_service --> MySQL im_outbox
                                                              |
            OutboxWorker: MongoDB, conversations, Redis, Kafka <
                                                              |
    client <--ws-- gateway <--PushToUser-- push_service <-- Kafka consumer
       |                ^                      |
       +--ACK--> gateway --AckMsg--> push_service --> im_message_receipts, im_outbox

| Component | State | Operations | Hard part |
|---|---|---|---|
| Outbox (`mysqlhandler.cpp` 1300-1739, `outbox_worker.cpp`, `msg_service/server.cpp`) | `im_outbox`, `im_message_receipts`, MongoDB bodies, Redis copies | queue, claim with a lease, persist, dispatch, clean up, acknowledge, retry | effects in three stores that no ROLLBACK takes back; leases that expire; lost COMMIT answers; friend deletion in between |
| Delivery (`push_msg_handler.cpp`, `push_service/server.cpp`, `WithFriendMessage`) | position in the topic, calls in progress, what the device has | fetch, PushMsg, confirm, offline offer, ACK | permission tested and message sent in one transaction; redelivery |
| Conversations (`mysqlhandler.cpp` 1000-1298) | `im_conversations`, `im_conversation_unread` | record, mark read, hide, settings, delete pair, list | messages recorded out of order; counters kept apart from the rows they count |
| Groups (`mysqlhandler.cpp` 1741-2115, `group_service/server.cpp`) | `im_groups`, members, applications, messages, stored replies, public numbers | create, apply, review, rename, leave, kick, dismiss, send, pull, ack, read, deliver, number old groups | rejoining members, epochs, batches, bodies or hints by group size; repeated requests; starting processes beside creations |
| Gateway (`ws_session.cpp`, `ws_session_manager.cpp`) | sessions, write queues, pending ACKs, the online flag in Redis | login, push, offline scan, heartbeat, ACK, disconnect | overlapping connections of one account; state used after a `co_await`; timers against ACKs |
| Registration (`mysqlhandler.cpp` 307-616, `account_pool.cpp`) | `registration_requests`, `users`, `account_pool`, cursor | register, look up, refill | retries of one request id side by side, lost COMMIT answers, several refills |
| Kafka consumer (`kafkaconsumer.cpp`) | lane, generation, pause | consume, pause and resume, handle, commit, rebalance, shutdown | consume thread and lane interleave; commits lost or late; a crash between handling and commit |
| Kafka producer (`kafkaproducer.cpp`) | requests awaiting a report | deliverConfirmed | late report against the wait of 12 s |
| Message ids (`snowflake.cpp`) | last millisecond, sequence | nextId | clock set back, sequence used up |
| Friends (`mysqlhandler.cpp` 661-936) | `friends`, `friend_applications`, `friend_chat_deletions` | apply, handle, delete, list in pages, tell both accounts | crossing applications; deletion against messages; notices lost with an answer |
| Backbon (`backbon_service`) | etcd keys, Redis online flags | register service, CheckUserOnline | flag read, then written |
| Auth (`auth_service`) | tokens in Redis | login, validate | - |
| Service life cycle (`base_service.h`, `main.cpp`) | state, threads, server and registration of each service | start, register, stop, destroy | stop against start; objects destroyed under calls; order of construction and destruction |
| ThreadPool, connectors | pools | - | - |
| Telemetry, generated protobuf code, web server | - | - | - |

What makes each part correct, in short:

* Outbox: a claimed row belongs to one worker until it commits; nothing is
  visible to a receiver before it is durable; a done message can still be
  delivered; a friend deletion reaches every store; what a sender was told
  stays true; no task is left behind.
* Delivery: a message is sent only while the friendship allows it, and ends on
  the device or is cancelled.
* Conversations: the badge equals the messages above the read position;
  both sides show the same newest message; read positions never go back.
* Groups: members see the messages of their own membership, all of them, in
  numbers without gaps; counts and applications are consistent.
* Gateway: an old session never disturbs its successor; a message falls
  neither between push and scan nor into a closed session; the client is told
  "complete" only when it is; logins end.
* Registration: one account per request, whatever is repeated or lost; no
  account twice; nobody waits for ever.
* Kafka consumer: no record is skipped or handled before an earlier one; the
  lane is bounded; every record is handled.
* Friends: a friendship rests on consent given since the last deletion; what a
  client was told about its decision holds; both sides learn of a change.
* Group requests: a request creates one group, a group has one number.
* Service life cycle: nothing of a destroyed service runs on, and shutting down
  ends.
* Ids: above the one before, except after a sleep that ends behind it (the
  header promises more, see section 3).

## 2. Modules

| Module | Models | Checked by | Proofs |
|---|---|---|---|
| `Outbox` | single-chat outbox | `MCOutbox` | `DeliveryProofs` |
| `Delivery` (extends `Outbox`) | consumer lane, PushMsg, login offer, device | `MCDeliveryLive` | `DeliveryProofs` |
| `Conversation` | conversation tables | `MCStorage` | `ConversationProofs` |
| `Friends` | friend commands, notices, listing | `MCFriends` | `FriendsProofs` |
| `Group` | one group | `MCGroup` | `GroupProofs` |
| `GroupRequests` (extends `Snowflake`) | group creation under request ids, group numbers | `MCStorage` | `GroupProofs` |
| `Gateway` | sessions of one account | `MCGateway` | `GatewayProofs` |
| `Registration` | registration and account pool | `MCRegistration` | `RegistrationProofs` |
| `Once` | abstract: a request is performed once | (refined by `Registration` and `GroupRequests`) | - |
| `KafkaConsumer` | one partition | `MCKafkaConsumer` | `KafkaConsumerProofs` |
| `Channel` | abstract: an at-least-once channel in order | (refined by `KafkaConsumer`) | - |
| `Services` | service life cycle, registration calls | `MCServices` | `ServicesProofs` |
| `Snowflake` | message ids | `MCStorage`, `MCSnowflake` | `GroupProofs` |

Three abstract specifications are refined. `Once` says what an idempotent
operation promises: per request id the effect happens at most once, with one
input; a call that succeeds is told the result of that effect, a conflict means
that the effect had another input. `Registration` (ids and phones to accounts)
and `GroupRequests` (ids and payloads to group numbers) implement it, under
`ImplementsOnce`, with the tables of the code mapped to the abstract `done` and
`effects`; both refinements are proved. `Channel` says what the rest of the system relies on in a Kafka
partition: a record is handled for the first time only after its predecessors,
the committed offset never passes one nobody has handled, and repetitions are
possible at any time; `KafkaConsumer` implements it (`ImplementsChannel`), and the
lane of `Delivery` assumes no more. This refinement is proved too.

`Outbox` is the abstract side of `Delivery`: it lets its environment announce,
confirm, acknowledge and take the pair lock at any time, and `Delivery` says
when the consumer, the push server and the receiver do. `ImplementsOutbox`
states the refinement (both share the outbox's variables, so the mapping is
the identity), and it is proved; everything shown of
`Outbox` therefore holds of the composition.

Definitions whose name says what the code gets wrong (for instance
`ClaimPendingOnly`) and whose comment begins with "Mutant of" are not part of
a specification. They are the plausible mistakes used to show that a property
can fail.

### Outbox

One pair of accounts. `state`, `lease`, `stage`, `dispatchDone`, `content` and
`seq` are columns of `im_outbox`; rows are named by their `dedupe_key`.
`pairLock` is the lock on the `friend_pairs` row that `lockPair` takes.
`ProcessOutboxTask` is a sequence of steps: `BeginPersist`, `SaveBody`,
`PublishMessage`, `CommitPersist`, `BeginDispatch`, `CacheBody`,
`DeliverConfirmed`, `CommitReschedule` for a message, `CleanCache`,
`CleanBody`, `CommitSettle` for a cleanup, `MarkDelivered`, `Uncache`,
`CommitSettle` for a receipt. Each may fail (`StepFails`), its COMMIT may be
answered or not (`Commit`), its connection may be lost while it goes on
(`LoseLock`), and the process may die (`Crash`). A lease may
expire at any time: `ClaimOutboxTask` takes a claimed row that is not locked,
since nothing the code waits for is compared with the 45 s of the lease
(`mysqlhandler.cpp:1519`).
A late report of `deliverConfirmed` is
`DeliverConfirmed` followed by `StepFails`.

Constants that switch hazards on: `ClockSteps` lets ids repeat or go back (two
processes, or a clock set back across a restart), `LockLoss` lets MySQL drop a
connection inside a transaction. With `LockLoss`, `CleanupComplete` and
`DeliveredWhileAllowed` do not hold; with `ClockSteps`, `WatermarkCancels`,
`CleanupComplete` and `AnsweredIsDurable` do not. Both are stated as
hypotheses of the theorems that need them, so that what survives is visible.

Two remarks from modelling. A friend deletion blanks the payload of the rows it
cancels, so a sender polling for its answer hears `DB_ERROR` rather than
`NOT_FRIEND`, and `notifySender` stays silent. The branch of
`ProcessOutboxTask` that cancels a message the friendship does not allow can
only be reached when ids go back.

Left out: an acknowledgement of a message that has no row in `im_outbox` any
more, or never had one (a body of an older version). `QueueMessageAck` then
takes the message from MongoDB (1556-1560) and goes on as for the others; every
message of the model has its row.

### Conversation

`exists`, `hidden`, `pinned`, `maxSeq`, `readSeq`, `unreadCount`, `latest` are
the columns; `unread` is `im_conversation_unread`; `inbox` is a history of what
was recorded. A message recorded late, below `readSeq`, is never counted and
does not show a hidden conversation again; the code does this on purpose, and
`UnreadExact` and `HiddenIsQuiet` are stated accordingly. `min_seq` is never
written and left out. The answer of UpdateConversationSettings is left out
(see hazards).

An account has several conversations, numbered in the order of their ids. A list
request names conversations (or none, for all), a page and a page size; the first
SELECT counts the rows the filter lets through and makes the snapshot
(`ListCount`), the second one reads the rows of that snapshot whose places in the
ORDER BY lie on the page (`ListPage`). Both arguments are clamped as in the code:
page 1 and size 1 by default, size at most `SizeLimit` (100). `SendTime` gives
the `sendTime` of a message; it is arbitrary, so that rows with equal times
are ordered by their ids. `ListConsistent` says of an answer what a client that
pages relies on: the page has the length that `conversationTotal` and the page
asked for give, and a page that holds all rows adds up to `unreadTotal`. Totals
cover all rows and a page usually does not, so nothing is said of the sum of a
partial page; and nothing of two requests, which have two snapshots.

### Friends

A mutation of `mutate` is `Begin` (with the reads before the lock),
`LockPair`, one of `WorkApply`, `WorkDelete`, `WorkHandle`, which decide what
to write, and `Commit`. `era`, `current` and `stale` are histories: the
deletions before an application, the calls that made the last change of their
pair, and the online accounts that have not been told of a change. An answer
can be lost after COMMIT (`GivesUp`); because `changedaccounts` is filled also
when a repeated command changes nothing, the repetition tells everybody, which
is what `OkMeansTold` needs. AUTO_INCREMENT ids are taken before COMMIT and not
given back: an application can appear in the table after a higher one, so a
listing may contain a row committed after it began, but `ListingComplete` holds.

### Group

Each command of `perform` holds the row lock of the group to COMMIT and is one
step; its arguments (epoch, positions, application) are arbitrary, since they
were chosen before the lock. `audience` and `seen` are histories. Acks and
pulls of earlier epochs are included. Read-only commands are left out. Replies
are received at once or lost. The lock order inside `buildDelivery` is not
modelled: a deadlock there is an error and the loop tries again.

### GroupRequests

`executeOnPool` for Create: the row of the request is locked, `nextId` is called
(the actions of `Snowflake`, with the waits under its mutex), the cursor locked,
and group, number and reply committed together. The other mutations go through
the same code; what they do is in `Group`. `Starters` are processes that run
`EnsureGroupNumbers`; they list the groups without a number before any lock and
look each one up again under the lock of the cursor, which `EnsureBlindly`
shows to be needed. `nextId` may repeat an id (see Snowflake): the key of
`im_groups` then refuses the group (`mysqlhandler.cpp:1864`) and the call fails,
so that one group per request and one number per group do not rest on the ids.

### Gateway

A step of a session is the code between two `co_await`s on its strand.
`writes` holds the `setex` calls in flight, which land in any order because
`RedisConnector` spreads them over four connections. `push` is a `PushMsg`
between its reading of the flag and its end. Each message has its own sender
and pair lock. The capacity of a queue counts the frame being written.
`deferred` marks messages whose push missed an open session because the flag
was wrong or the RPC failed; `NoneStranded` is about all others.

### Registration

`pc` follows `once` from the row of the request id to COMMIT, `refill` and the
look-up after a lost COMMIT. `doubt` holds transactions the server has yet to
end. `poolLock` stands for the lock on the first free row, which all ask for.
The input that a request id is compared with is reduced to its phone number.

`Init` is the database the schema makes (`docker/mysql/init.sql:22`, `:110`): a
user that no request registered and whose account is in no pool, an empty pool,
and the cursor behind that account. The properties except this user by name. A
database without any account would make every refill throw (MAX is NULL), which
`LockCursor` has as a case.

### KafkaConsumer

One partition: `position` and `stopped` belong to librdkafka, `jobs`, `paused`,
`pauseGen` to the lane, `thread` is the loop of `start`. Assumed of librdkafka:
`assign` restarts at the committed offset and not paused; the broker accepts
commits of any member. The generation test turns out not to be needed for "no
record skipped": it only limits how far a late commit moves the offset back.

`Shutdown` and the destructor, or `Crash`, end the process at any point; the
next one starts without a partition. `pause` and `resume` are taken to succeed.

### Services

`main` starts the services of `Order` one by one, BackbonService first, and
destroys them in reverse, whatever made it leave: `EndSleep` (BackbonService
not up in time), `Throw`, or `EndServing`. `thread` follows `RunServer` and
`RegisterToEtcd`, `monitor` the monitor thread, `step` the destructors with
`Stop` inside. `gone` are services whose own members are destroyed: C++ destroys
them before `~BaseServiceServer` runs, so that only services which call `Stop` in
their own destructor (`StopsFirst`) are whole while they are stopped. `hasty`
records the two cases the code does not cover, and the properties except
exactly these:

* `early`: `Stop` found a service still starting and returned. The destructor
  (its comment, `base_service.h:50`, says that it makes sure the service is
  stopped) then joins a thread nobody told to stop, and waits for ever if the
  server comes up.
* `unregistered`: main left, by an exception or after the 30 s of a
  registration, while `RunServer` may be using `backbon_client_`, which `Stop`
  resets without synchronisation.

The order in which main waits for the registrations differs from the order of
the starts; the model uses the latter, which no property depends on. Thread
creation is taken to succeed, handlers to end.

Remarks from modelling. After the third sleep main gives BackbonService up
without another look (`main.cpp:73`). `RegisterService` and `UnregisterService` have no
deadline. All registrations share one `keep_alive` (`backbon_service/server.cpp:186`),
so each replaces the renewal of the lease before it, and concurrent handlers
assign it unsynchronised. `UnregisterService` is sent without a service name, so
the entry stays until its lease ends. `etcd_registered_` is never reset.

### Snowflake

Calls follow one another under `mutex_`. An id is the pair of millisecond and
sequence, compared as the shifted integer compares. The clock is set back at any
time and to any value, also under a caller that sleeps off an earlier step.
That caller reads the clock again and does not compare it with the last id
(`snowflake.cpp:47`): ids then fall or repeat, although `snowflake.h:8` promises
unique, increasing ids. `Increasing` states the promise and is violated
(`ids_fall`); `FallsOnlyAfterSleep` states what the code does guarantee, that this
case is the only one.

## 3. Runs

Every run is `tlc -config <cfg> <module>`. "Bounds" says what the instance
contains and why it is enough for the question.

| Run | Question | Bounds |
|---|---|---|
| `outbox` (`MCOutbox`) | Are claims exclusive, settled rows settled, stores consistent and answers true under failures at every step? | one key under two contents, two workers, one other holder of the pair lock, two ids. Two workers are the least that compete for a lease; two contents show a repeated `clientMsgID` with another body; two ids are a message and a deletion above it, in either order. |
| `delivery_live` (`MCDeliveryLive`) | Is an accepted message delivered or cancelled, is all work finished, is a finished cleanup complete, is nothing sent without permission? | one accepted message, one deletion, at most one failure (`MaxFaults`) anywhere: the property must hold whenever failures stop, and one is enough to reach every recovery path |
| `storage` (`MCStorage`) | Are badges, positions, sides and lists consistent? One group per request and one number per group? When do ids fall? | five parts that share no state, see below |
| `friends` | Does friendship rest on fresh consent, do answers hold, are both sides told, is no application missed? | one account with two partners, which deletes friends (a deletion works both ways), two calls, two applications, pages of one row: crossing applications, a deletion between them, a repeated command, and ids committed in the wrong order |
| `group` | Do members see exactly the messages of their membership, and do all get there? | owner and one member, two applications (so that the member returns), two messages, batches and pages of one, size limit of one so that joining crosses it |
| `gateway` | Do overlapping sessions leave each other alone and does no message fall between push and scan? | two sessions, one message, queue of one frame, failing Redis calls, a flag that expires |
| `gateway_sync` | Does a scan complete only when all is acknowledged, and does every login end? | one session, two messages in batches of one, heartbeats and status queries |
| `registration` | One account per request, true answers, and no wait for ever? | two calls over two ids, two new phones and the seeded one, the tool, the seeded account and three more in batches of two, so that the last batch is cut and the range ends; one attempt per call |
| `kafka_consumer` | Is no record skipped, lost or handled early, with the lane bounded? | four records, three generations, one shutdown or crash, pause at two and resume at one |
| `services` | Does nothing outlive its object, does registration meet a whole BackbonService, does shutdown end? | BackbonService, one service that stops first and one that does not, one caller from outside: both kinds of destructor, before and after each other |
| `stale_offline` (violation) | Does a session that is no longer the active one leave the flag alone? | as `gateway` |
| `ids_fall` (violation, `MCSnowflake`) | Are ids unique and increasing? | four ids, two per millisecond, four readings of the clock, a tolerance of two: a step back that is slept off, and a second one |

The parts of `storage`; a behaviour belongs to one of them:

* `rows`: one conversation, four ids, three messages in flight: enough for two
  messages to be recorded in the wrong order around a read, a hide and a
  deletion.
* `lists`: two conversations, three messages of which two are sent in the same
  millisecond, pages of one and two rows (the size limit), pages one and two, all
  filters: full, last and empty pages while messages arrive, rows are read,
  pinned and hidden. The other side of each conversation only sends.
* `requests`: two calls over two request ids and two names, two starting
  processes, one old group, two numbers (so that they run out), two ids per
  millisecond, three ids over two milliseconds.
* `repeats`: the same without starting processes, on a clock that is set back, so
  that a group gets an id that was issued before.
* `ids`: the generator alone, four ids over four readings of the clock.

Request ids and names are interchangeable, so those of the first call are given;
calls and starting processes are symmetric.

Deadlock is checked in `outbox`. In the others
the bounds on ids, calls, sessions and records end every behaviour, so stopping
is not an error there; that nothing stops too early is what the liveness
properties say.

### What the violations show

`stale_offline`: `onDisconnect` tests whether it is still the active session and
then awaits the write of "0" (`ws_session.cpp:927`). A client that reconnects in
between writes "1" first and stays marked offline, with an open session, until
its next heartbeat; messages pushed meanwhile wait for the next login.
`CheckUserOnline` has the same effect.

`ids_fall`: a caller finds the clock behind and sleeps; the clock is set back once
more; the caller wakes, takes the reading for a new millisecond and issues an id
below the earlier ones. `lastTimestamp_` goes back with it, so later ids can repeat
earlier ones. Messages with such ids are taken for older than those before them
(`ClockSteps` in `Outbox`); a group with a repeated id is refused.

The delivery to a device is at least once: `ConfirmMessageDispatch` follows the
push, so a failure between the two repeats it.

## 4. Fairness

* Outbox and delivery (`WorkerFairness`, `LockHolderFairness`,
  `DeliveryFairness` in `Delivery`): the loops of the workers and of the lane
  run on (weak). Steps that wait for a row lock or for a worker's attention are
  strongly fair: InnoDB grants locks in order, and `ClaimOutboxTask` takes due
  pending rows, the longest due first, before expired leases
  (`mysqlhandler.cpp:1501-1512`). An expired lease is therefore reached when no
  pending row is due; the run has finitely many submissions, and under an endless
  stream of them the code gives no such promise. A push that holds the pair lock ends because its
  RPC has a deadline. The receiver logs in again and again. Nothing is owed by
  senders, friend commands, ACKs or failures.
* Group: the delivery loop serves a member that has something pending, and the
  client pulls after a hint and acknowledges what it has. Both are what the
  clients of this protocol do; the second is external.
* Gateway: coroutines go on, Redis calls return or fail, the 60 s timer fires.
  Nothing is assumed of the client.
* Registration: statements whose locks are free are executed, in the order of
  the lock queue (strong), and the server ends transactions of connections it
  has lost. No lock wait needs its timeout.
* Kafka consumer: both threads run, a handler that is called again and again
  returns in the end, `commitAsync` does not refuse for ever, another member that
  owns the partition works, and a process that is shut down is started again.
* Services: threads run, handlers end, `Server::Shutdown` returns when the calls
  have ended. Nothing is owed by signals or callers.

## 5. Proofs

Theorems hold for all values of the constants that satisfy the named
assumptions of the modules. The leaf proofs are SMT and Zenon, the temporal
steps LS4.

**DeliveryProofs, the outbox.** `Inv` is `TypeOK` with `WorkerOK` (a worker's step matches the
kind of its task), `LockOK` (only workers inside a transaction hold the lock),
`RowOK` and `ClaimedExists` (ids and tasks belong to existing rows) and
`LeaseHeldToCommit` itself, which is not inductive alone: that a lease survives
until COMMIT needs the lock, and that the lock means a transaction. On top of
it, each family adds what it needs: `LeakInv` (a worker past `CommitPersist` works
on stage 1), `ReceiptInv`, `DeletionInv` (cutoffs do not exceed the mark, cleanups
are never cancelled), `RecoverInv` (also of announced messages and of workers
about to announce), `AnswerInv` and `CleanInv`.

* Without hypotheses: `TypeCorrect`, `LeaseSafe`, `SettledStaysHolds`,
  `NothingLeaks`, `ReceiptsKept`.
* When ids grow (`ClockSteps = FALSE`): `DeletionSettles`, `NoMessageLost`,
  `AnswersAreDurable`.
* When moreover MySQL keeps open connections (`LockLoss = FALSE`):
  `CleanupIsComplete`. A worker that has lost its connection, and with it the
  pair lock, may write a body or a cached copy after a cleanup has finished.

**DeliveryProofs, the composition.** `LaneInv` (lane, calls and device hold announced messages)
with `Inv` gives `DeliveryImplementsOutbox`: every step of the composition is a
step of Outbox or a stutter. `OpenInv` adds that a call between its test and its
push holds the pair lock, which gives `DeliveredUnderFriendship` (with
`LockLoss = FALSE`).

**ConversationProofs.** The invariant relates `unread`, `unreadCount`, `inbox`
and `readSeq` row by row, and the rows of both sides; from it `UnreadIsExact`,
`HiddenStaysQuiet`, `SidesAlwaysAgree`, and the action property
`ReadPositionGrows`. `ListPagesMatchTotals` needs `ListInv`: between its two SELECTs
a list holds the totals of the snapshot that the second one reads. That a page has
the length the totals promise rests on the order: `StrictOrder` says that the
ORDER BY is a total strict order, because the conversation id breaks every tie,
and `Places` that each row therefore has a place of its own in `0..n-1`.

**GroupProofs.** `Positions` (`joinSeq <= ackSeq, readSeq <= lastSeq`), `Entitled`
(a member is in the audience of everything sent since it joined) and
`EarlierCopies` (copies of former memberships lie at or below the present join)
make `SeenWhileMember` and `NothingSkipped` inductive. They show why
acknowledgements of former epochs are harmless: a rejoin starts at or above
everything acked before. `NumbersContiguous`, `MembershipConsistent` and
`PositionsOnlyGrow` follow the same invariant.

**GroupProofs, ids and requests.** `IdsFallOnlyAfterSleep` (the generator alone) and
`GroupIdsFallOnlyAfterSleep` (in use), for every tolerance, sequence width and
movement of the clock: `lastTimestamp_` and `sequence_` are those of the last id
(`LastKnown`), so a caller that compares issues a later one. `RequestsInv` adds
where calls and starters hold which lock (`LocksOK`), that no group has the id a
call has inserted (`IdsOK`), that groups made by calls have a number from the start
(`GroupsOK`), and that numbers lie below the cursor and differ (`NumbersOK`). From it `NumbersGivenOnce`, and
`CreateImplementsOnce`: `Commit` is the abstract effect, and a call that finds the
row of its request is told of that effect. Neither assumes anything of the clock:
the key of `im_groups` refuses a repeated id, and the lock of the cursor, held from
there to COMMIT, keeps two calls with one id apart.

**RegistrationProofs.** `TablesAlwaysAgree` and `ExistsNeverForOwn` with `CallsOK`
(a call has no answer before its end, and a transaction in doubt belongs to one
that confirms or has ended) and `LocksOK`: who holds the row of a request, or the
first row of the pool, finds the request without effect and its account free, and
the phone of a call past its test has no user. Neither property is inductive
without the locks: that the pool row is still free at COMMIT is what its lock
says. The seeded user has an account below the cursor and in no pool, so no call
can take it. `RegistrationImplementsOnce` maps a COMMIT to the abstract effect, also
one whose answer is lost, and answers to abstract answers, for any number of
calls, ids, phones, accounts and attempts.

**FriendsProofs.** From the pair lock (`LocksOK`: a call between its first statement
and COMMIT holds it) follow `OnePending` (no second pending
application in one direction), `PlansOK` (what a call read under the lock still
holds when it commits) and with them `FriendsConsented`, `AnswersHold` and
`SuccessIsTold`. `ListingsComplete` needs `PagesOK`: what a lister still owes lies
beyond its cursor, in whatever order ids are committed.

**GatewayProofs.** For any number of sessions, messages, batch sizes and queue
capacities. `SessionsOK` says that only the latest session is registered and that
no scan, ACK or completion is left of a session that is not open. `CompletionIsTrue` is not
inductive, because it looks at the end of a scan only: `ScansOK` says of every
message published when the scan began that it is settled, awaits its ACK, is in
the batch or lies ahead of the cursor. `NothingStranded` needs the other half,
`PushesReach`: a message the scan does not cover and whose push is over is in the
hands of the registered session: posted to it, in its queue or at its client.
`NewestKeepsAccount` and the capacity of the queues (`GatewayTypes`) come with it.

**ServicesProofs.** For any number of distinct services in any order after
BackbonService, any `StopsFirst` and any callers. The position of main decides
which services can have a thread (`PlacesOK`), so that while main is at another
service BackbonService is up and unflagged (`BackbonOK`), and while it is at
BackbonService no other thread is left (`OthersQuiet`). `ThreadsOK` ties `state_`,
server and monitor to the server thread, `CallsOK` registration calls to their
callers, `StepOK` says what is left of a service at each step of its destructor,
`WaitedOK` that main has seen each registration or remembers that it has not.
`NothingOutlivesAny`, `CallsFindWholeObjects` and `ClientNeverInUse` follow.

**KafkaConsumerProofs.** `ConsumerImplementsChannel`, for any number of records,
rebalances, shutdowns and crashes, and `ConsumerTypes`. That offsets in the
broker, in requests on their way and in the lane's hands have only handled
records before them (`CommitsOK`, `LaneOK`) is not inductive: when the lane takes
a job, its predecessors must be handled. `QueueOK` says so of the whole queue:
while the process runs, each record before a queued job of the current
generation, and before the consumer's position, is handled, in the lane's hands
or queued ahead of it under the current generation. A rebalance keeps it because
no queued job belongs to a later generation (`JobsOK`), so all of them turn stale
at once, and the new position is a committed offset. `LaneStaysBounded` avoids an
induction over the queue: the jobs of the present generation are among its last
`High` entries (`CurrentLast`), which a push, a take and a rebalance keep.

Assumptions on the constants are those of the modules: sizes are positive,
`None` is no caller, row or input (`NoneIsNoRow`), and the services of `Order` are distinct. TLC evaluates all of them
in the runs. `ClockSteps` and `LockLoss` are hypotheses of the
theorems that need them and appear in their statements.

Every safety property of a passing run is stated by a theorem. Only
model-checked: all liveness (`DeliveredOrCancelled`, `EventuallySettled`,
`EventuallySeen`, `LoginSettles`, `AlwaysAnswered`, `EveryRecordHandled`,
`ShutdownEnds`), which is beyond the prover.
Only proved, for every size: the type invariants, `ImplementsOutbox`,
`ReceiptHasTask`, `CountIsExact`, `Contiguous`, `OneApplication` and
`ReadNeverBack`.

## 6. Not modelled

* Generated protobuf and gRPC code (`src/proto`): 211,000 of the repository's
  223,000 lines of C++. It has no behaviour of its own; the share of the lines
  that `map` covers is small for this reason.
* Login and tokens, user queries, history reads, stubs of the message service:
  single reads or writes without a protocol.
* Connectors, web server, TLS, telemetry, gRPC stubs: I/O and libraries. Their
  failures are steps of the modules that use them.
* `ThreadPool`: used nowhere in the program.
* The entries and leases in etcd and the method lists in Redis: they are read
  once, when the gateway starts (see the remarks on Services).
* Business frames of `doReadLoop`: forwarded to the services modelled here.
* Rebalance callbacks with an error other than assign and revoke, which
  librdkafka does not make. Such a callback would break `ImplementsChannel`.
* Message contents, formats and limits on their length.

## 7. Plan

All components with a protocol of their own are modelled and every safety
property of the runs is proved. What is left:

1. The step-by-step form of the promises that are now stated of states only, for
   instance that an account once used in `Registration` stays with its owner.
2. Safety halves of the liveness properties: that the states they start from
   have an enabled step of the process that owes the next one, as far as this
   can be said without ENABLED.
