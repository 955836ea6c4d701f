--------------------------- MODULE KafkaConsumer ----------------------------
(* KafkaConsumer on one partition: the consume thread with its rebalance    *)
(* callback and backpressure, the lane coroutine that handles the records   *)
(* of the partition one by one, and the commits it sends.  The process may  *)
(* be shut down in order, or crash, and starts anew; other members of the   *)
(* group own the partition in between.                                      *)
(*                                                                          *)
(* The lane runs on an io_context of its own: the consume thread may serve  *)
(* a rebalance between any two of its steps, between its test of the        *)
(* generation and its commit too.                                           *)
(*                                                                          *)
(* External, from how the code uses librdkafka: assign() restarts the       *)
(* partition at the committed offset and not paused, pause() stops consume  *)
(* from returning records, and the broker accepts a commit of any member.   *)
EXTENDS Integers, Sequences, FiniteSets

CONSTANTS
    MaxLog,     \* bound: records in the partition
    MaxGen,     \* bound: rebalances
    MaxStops,   \* bound: shutdowns and crashes
    High, Low   \* jobs at which the partition is paused and resumed

ASSUME KafkaAssumption ==
    /\ MaxLog \in Nat /\ MaxGen \in Nat /\ MaxStops \in Nat
    /\ Low \in Nat /\ High \in Nat /\ Low < High

VARIABLES
    log,        \* number of records in the partition, numbered from 0
    committed,  \* broker: committed offset of the group
    commits,    \* commit requests on their way
    assigned,   \* the partition is assigned to this consumer
    position,   \* librdkafka: next offset consume() returns
    stopped,    \* librdkafka: the partition is paused
    running,    \* running_
    thread,     \* consume loop: "pressure", "consume" or "exited"
    generation, \* generation_
    jobs,       \* PartitionLane::jobs
    paused,     \* PartitionLane::paused
    pauseGen,   \* PartitionLane::pauseGeneration
    job,        \* the lane's current job, if any
    lane,       \* "idle", "handle", "handled", "commit", "exited"
    stops,      \* history: shutdowns and crashes
    handled     \* history: records whose handler returned

broker == <<log, committed, commits>>
client == <<assigned, position, stopped, running, stops>>
pressure == <<paused, pauseGen>>
laneVars == <<jobs, job, lane>>
vars == <<broker, client, thread, generation, pressure, laneVars, handled>>

Offsets == 0..(MaxLog - 1)
Job(o, g) == [offset |-> o, generation |-> g]
Jobs == [offset : Offsets, generation : 0..MaxGen]
NoJob == [offset |-> -1, generation |-> -1]

TypeOK ==
    /\ log \in 0..MaxLog /\ committed \in 0..log
    /\ commits \in Seq(1..MaxLog)
    /\ assigned \in BOOLEAN /\ position \in 0..log /\ stopped \in BOOLEAN
    /\ running \in BOOLEAN /\ stops \in 0..MaxStops
    /\ thread \in {"pressure", "consume", "exited"} /\ generation \in 0..MaxGen
    /\ jobs \in Seq(Jobs) /\ job \in Jobs \cup {NoJob}
    /\ lane \in {"idle", "handle", "handled", "commit", "exited"}
    /\ (lane \in {"idle", "exited"}) = (job = NoJob)
    /\ paused \in BOOLEAN /\ pauseGen \in 0..MaxGen
    /\ handled \subseteq Offsets

Init ==
    /\ log = 0 /\ committed = 0 /\ commits = <<>>
    /\ assigned = FALSE /\ position = 0 /\ stopped = FALSE /\ running = TRUE
    /\ thread = "pressure" /\ generation = 0
    /\ jobs = <<>> /\ job = NoJob /\ lane = "idle"
    /\ paused = FALSE /\ pauseGen = 0
    /\ stops = 0 /\ handled = {}

-----------------------------------------------------------------------------
(* The broker and the other members.                                        *)

Produce ==
    /\ log < MaxLog /\ log' = log + 1
    /\ UNCHANGED <<committed, commits, client, thread, generation, pressure,
                   laneVars, handled>>

(* A commit arrives: the offset is stored as it is, higher or lower.        *)
CommitArrives ==
    /\ commits # <<>>
    /\ committed' = Head(commits) /\ commits' = Tail(commits)
    /\ UNCHANGED <<log, client, thread, generation, pressure, laneVars, handled>>

(* commitAsync: nobody learns that a commit was lost.                       *)
CommitIsLost ==
    /\ commits # <<>> /\ commits' = Tail(commits)
    /\ UNCHANGED <<log, committed, client, thread, generation, pressure,
                   laneVars, handled>>

(* Another member that owns the partition handles the next record.          *)
OtherMember ==
    /\ ~assigned /\ committed < log
    /\ handled' = handled \cup {committed}
    /\ committed' = committed + 1
    /\ UNCHANGED <<log, commits, client, thread, generation, pressure, laneVars>>

-----------------------------------------------------------------------------
(* The consume thread.                                                      *)

(* rebalance_cb, served inside consume(); each call starts a generation.    *)
Revoked ==
    /\ thread = "consume" /\ assigned /\ generation < MaxGen
    /\ generation' = generation + 1
    /\ assigned' = FALSE
    /\ UNCHANGED <<broker, position, stopped, running, stops, thread, pressure, laneVars, handled>>

(* rebalance_cb: assign() restarts at the committed offset.                 *)
Assigned ==
    /\ thread = "consume" /\ ~assigned /\ generation < MaxGen
    /\ generation' = generation + 1
    /\ assigned' = TRUE /\ position' = committed /\ stopped' = FALSE
    /\ UNCHANGED <<broker, running, stops, thread, pressure, laneVars, handled>>

(* Mutant of UpdateBackpressure: a partition is paused, never resumed.      *)
NeverResume ==
    /\ thread = "pressure" /\ running /\ thread' = "consume"
    /\ LET was == paused /\ pauseGen = generation IN
       /\ paused' = (was \/ Len(jobs) >= High)
       /\ stopped' = (stopped \/ (~was /\ paused'))
    /\ pauseGen' = generation
    /\ UNCHANGED <<broker, assigned, position, running, stops, generation, laneVars, handled>>

(* Mutant of UpdateBackpressure: off by one.                                *)
PauseLate ==
    /\ thread = "pressure" /\ running /\ thread' = "consume"
    /\ LET was == paused /\ pauseGen = generation IN
       /\ paused' = IF was THEN Len(jobs) > Low ELSE Len(jobs) > High
       /\ stopped' = IF paused' = was THEN stopped ELSE paused'
    /\ pauseGen' = generation
    /\ UNCHANGED <<broker, assigned, position, running, stops, generation, laneVars, handled>>

(* updateBackpressure: a new generation forgets the pause, which assign()   *)
(* has undone.                                                              *)
UpdateBackpressure ==
    /\ thread = "pressure" /\ running /\ thread' = "consume"
    /\ LET was == paused /\ pauseGen = generation IN
       /\ paused' = IF was THEN Len(jobs) > Low ELSE Len(jobs) >= High
       /\ stopped' = IF paused' = was THEN stopped ELSE paused'
    /\ pauseGen' = generation
    /\ UNCHANGED <<broker, assigned, position, running, stops, generation, laneVars, handled>>

(* consume() returns a record, consumeMsg queues it.                        *)
ConsumeMsg ==
    /\ thread = "consume" /\ thread' = "pressure"
    /\ assigned /\ ~stopped /\ position < log
    /\ jobs' = Append(jobs, Job(position, generation))
    /\ position' = position + 1
    /\ UNCHANGED <<broker, assigned, stopped, running, stops, generation, pressure, job, lane, handled>>

(* consume() returns after a second without a record.                       *)
ConsumeTimesOut ==
    /\ thread = "consume" /\ thread' = "pressure"
    /\ ~(assigned /\ ~stopped /\ position < log)
    /\ UNCHANGED <<broker, client, generation, pressure, laneVars, handled>>

-----------------------------------------------------------------------------
(* The lane, processPartition.                                              *)

Current(j) == j.generation = generation

(* The next job, dropped at once if it is of an earlier generation.         *)
TakeJob ==
    /\ lane = "idle" /\ running /\ jobs # <<>>
    /\ jobs' = Tail(jobs)
    /\ IF Current(Head(jobs)) THEN job' = Head(jobs) /\ lane' = "handle"
       ELSE UNCHANGED <<job, lane>>
    /\ UNCHANGED <<broker, client, thread, generation, pressure, handled>>

HandleReturns ==
    /\ lane = "handle" /\ lane' = "handled"
    /\ handled' = handled \cup {job.offset}
    /\ UNCHANGED <<broker, client, thread, generation, pressure, jobs, job>>

(* Mutant of HandleFails: a record whose handler throws is given up.        *)
GiveUp ==
    /\ lane = "handle" /\ lane' = "idle" /\ job' = NoJob
    /\ UNCHANGED <<broker, client, thread, generation, pressure, jobs, handled>>

(* The handler throws: after a second the same record is handled again, if  *)
(* its generation is still the current one and the process goes on.         *)
HandleFails ==
    /\ lane = "handle" /\ ~(running /\ Current(job))
    /\ lane' = "idle" /\ job' = NoJob
    /\ UNCHANGED <<broker, client, thread, generation, pressure, jobs, handled>>

(* The test after the handler.                                              *)
TestGeneration ==
    /\ lane = "handled"
    /\ IF running /\ Current(job) THEN lane' = "commit" /\ UNCHANGED job
       ELSE lane' = "idle" /\ job' = NoJob
    /\ UNCHANGED <<broker, client, thread, generation, pressure, jobs, handled>>

CommitAsync ==
    /\ lane = "commit"
    /\ commits' = Append(commits, job.offset + 1)
    /\ lane' = "idle" /\ job' = NoJob
    /\ UNCHANGED <<log, committed, client, thread, generation, pressure, jobs, handled>>

(* commitAsync refuses: the record is handled again, or dropped.            *)
CommitRefused ==
    /\ lane = "commit"
    /\ IF running /\ Current(job) THEN lane' = "handle" /\ UNCHANGED job
       ELSE lane' = "idle" /\ job' = NoJob
    /\ UNCHANGED <<broker, client, thread, generation, pressure, jobs, handled>>

-----------------------------------------------------------------------------
(* The end of the process, and the next one.                                *)

Shutdown ==
    /\ running /\ running' = FALSE
    /\ stops < MaxStops /\ stops' = stops + 1
    /\ UNCHANGED <<broker, assigned, position, stopped, thread, generation, pressure,
                   laneVars, handled>>

ThreadExits ==
    /\ thread = "pressure" /\ ~running /\ thread' = "exited"
    /\ UNCHANGED <<broker, client, generation, pressure, laneVars, handled>>

LaneExits ==
    /\ lane = "idle" /\ ~running /\ lane' = "exited"
    /\ UNCHANGED <<broker, client, thread, generation, pressure, jobs, job, handled>>

(* A new process, which has no partition and no jobs.  Its generation_      *)
(* begins at 0; with no job and no pause to compare it with, any number     *)
(* will do.                                                                 *)
NewProcess ==
    /\ assigned' = FALSE /\ stopped' = FALSE /\ running' = TRUE
    /\ thread' = "pressure" /\ paused' = FALSE /\ pauseGen' = generation
    /\ jobs' = <<>> /\ job' = NoJob /\ lane' = "idle"
    /\ UNCHANGED <<broker, position, generation, handled>>

(* ~KafkaConsumer: both are joined, close() leaves the group.               *)
Restart ==
    /\ thread = "exited" /\ lane = "exited"
    /\ NewProcess /\ UNCHANGED stops

Crash == stops < MaxStops /\ stops' = stops + 1 /\ NewProcess

-----------------------------------------------------------------------------
BrokerStep == Produce \/ CommitArrives \/ CommitIsLost \/ OtherMember
ThreadStep == UpdateBackpressure \/ ConsumeMsg \/ ConsumeTimesOut \/ ThreadExits
LaneStep == TakeJob \/ HandleReturns \/ TestGeneration \/ CommitAsync \/ LaneExits

Next ==
    \/ BrokerStep \/ Revoked \/ Assigned \/ ThreadStep
    \/ LaneStep \/ HandleFails \/ CommitRefused
    \/ Shutdown \/ Restart \/ Crash

Spec == Init /\ [][Next]_vars

(* Fairness: both threads run, a handler that is called again and again     *)
(* returns in the end, commitAsync does not refuse for ever, and another    *)
(* member that owns the partition works.  A process that is shut down is    *)
(* started again.                                                           *)
LiveSpec ==
    /\ Spec
    /\ WF_vars(ThreadStep) /\ WF_vars(LaneStep) /\ SF_vars(CommitAsync)
    /\ WF_vars(OtherMember) /\ WF_vars(Restart)

-----------------------------------------------------------------------------
Ch == INSTANCE Channel

(* The partition is an at-least-once channel: no record is skipped, whatever*)
(* rebalances, shutdowns and crashes fall between handling and commit, and  *)
(* whatever stale commits arrive late; none is handled before the ones      *)
(* ahead of it.                                                             *)
ImplementsChannel == Ch!Spec

(* The lane holds at most High jobs of the current generation, and at most  *)
(* one more of each generation before.                                      *)
LaneBounded ==
    /\ Cardinality({i \in DOMAIN jobs : Current(jobs[i])}) <= High
    /\ Len(jobs) <= High + generation

(* Every record is handled, also after the partition was paused.            *)
EveryRecordHandled == \A o \in Offsets : (o < log) ~> (o \in handled)
=============================================================================
