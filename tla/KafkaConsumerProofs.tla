------------------------ MODULE KafkaConsumerProofs -------------------------
(* Proof that a partition with its consumers is a Channel, for any number   *)
(* of records, rebalances, shutdowns and crashes.                           *)
EXTENDS KafkaConsumer, FiniteSetTheorems, TLAPS

(* Every record before n has been handled.                                  *)
Below(n) == 0..(n - 1) \subseteq handled

(* What is committed, or on its way to be, is handled.                      *)
CommitsOK ==
    /\ Below(committed)
    /\ \A i \in 1..Len(commits) : commits[i] <= log /\ Below(commits[i])

(* So is everything before the lane's current job.                          *)
LaneOK ==
    /\ job # NoJob => job.offset < log /\ Below(job.offset)
    /\ lane \in {"handled", "commit"} => job.offset \in handled

(* Queued jobs are records that exist, of no later generation.              *)
JobsOK == \A i \in 1..Len(jobs) : jobs[i].offset < log /\ jobs[i].generation <= generation

OffsetsOK == CommitsOK /\ LaneOK /\ JobsOK

(* Record x is handled, in the lane's hands, or queued before position k.   *)
Covered(x, k) ==
    \/ x \in handled
    \/ Current(job) /\ job.offset = x
    \/ \E i \in 1..Len(jobs) : i < k /\ Current(jobs[i]) /\ jobs[i].offset = x

(* Nothing is missing before a queued job of the current generation, nor    *)
(* before the position of the consumer.  A process that is shut down drops  *)
(* jobs, but takes none any more.                                           *)
QueueOK ==
    running =>
        /\ \A k \in 1..Len(jobs) : Current(jobs[k]) =>
            \A x \in 0..(jobs[k].offset - 1) : Covered(x, k)
        /\ assigned => \A x \in 0..(position - 1) : Covered(x, Len(jobs) + 1)

Inv == TypeOK /\ OffsetsOK /\ QueueOK

(* The two halves of the type invariant, for the two provers.               *)
Flags == assigned \in BOOLEAN /\ stopped \in BOOLEAN /\ running \in BOOLEAN /\ paused \in BOOLEAN

Data ==
    /\ log \in 0..MaxLog /\ committed \in 0..log
    /\ commits \in Seq(1..MaxLog) /\ position \in 0..log /\ stops \in 0..MaxStops
    /\ thread \in {"pressure", "consume", "exited"} /\ generation \in 0..MaxGen
    /\ jobs \in Seq(Jobs) /\ job \in Jobs \cup {NoJob}
    /\ lane \in {"idle", "handle", "handled", "commit", "exited"}
    /\ (lane \in {"idle", "exited"}) = (job = NoJob)
    /\ pauseGen \in 0..MaxGen /\ handled \subseteq Offsets

LEMMA TypeParts == TypeOK <=> Flags /\ Data
  BY Zenon DEF TypeOK, Flags, Data

LEMMA InitInv == Init => Inv
<1> SUFFICES ASSUME Init PROVE Inv
  OBVIOUS
<1>1. Flags
  BY Zenon DEF Init, Flags
<1>2. Data
  BY KafkaAssumption DEF Init, Data
<1>3. OffsetsOK
  BY DEF Init, OffsetsOK, CommitsOK, LaneOK, JobsOK, Below
<1>4. QueueOK
  BY DEF Init, QueueOK
<1> QED BY <1>1, <1>2, <1>3, <1>4, TypeParts DEF Inv

-----------------------------------------------------------------------------
(* Type correctness, step by step.                                          *)
LEMMA FlagsStep == Flags /\ [Next]_vars => Flags'
<1> SUFFICES ASSUME Flags, [Next]_vars PROVE Flags'
  OBVIOUS
<1>1. CASE UpdateBackpressure
  <2>a. (Len(jobs) > Low) \in BOOLEAN /\ (Len(jobs) >= High) \in BOOLEAN
    OBVIOUS
  <2>1. paused' \in BOOLEAN /\ UNCHANGED <<assigned, running>>
    BY <1>1, <2>a, Zenon DEF UpdateBackpressure
  <2>2. stopped' \in BOOLEAN
    BY <1>1, <2>1, Zenon DEF UpdateBackpressure, Flags
  <2> QED BY <2>1, <2>2, Zenon DEF Flags
<1>2. CASE Revoked \/ Assigned \/ Shutdown \/ Restart \/ Crash
  BY <1>2, Zenon DEF Revoked, Assigned, Shutdown, Restart, Crash, NewProcess, Flags,
      pressure
<1>3. CASE ~(UpdateBackpressure \/ Revoked \/ Assigned \/ Shutdown \/ Restart \/ Crash)
  <2>1. UNCHANGED <<assigned, stopped, running, paused>>
    BY <1>3 DEF Next, BrokerStep, ThreadStep, LaneStep, Produce, CommitArrives,
        CommitIsLost, OtherMember, ConsumeMsg, ConsumeTimesOut, ThreadExits, TakeJob,
        HandleReturns, TestGeneration, CommitAsync, LaneExits, HandleFails,
        CommitRefused, vars, client, pressure
  <2> QED BY <2>1, Zenon DEF Flags
<1> QED BY <1>1, <1>2, <1>3

LEMMA DataStep == Data /\ CommitsOK /\ [Next]_vars => Data'
<1> SUFFICES ASSUME Data, CommitsOK, [Next]_vars PROVE Data'
  OBVIOUS
<1> USE KafkaAssumption
<1>1. CASE Produce
  BY <1>1 DEF Produce, Data, client, pressure, laneVars
<1>2. CASE CommitArrives
  BY <1>2 DEF CommitArrives, Data, CommitsOK, client, pressure, laneVars
<1>3. CASE CommitIsLost
  BY <1>3 DEF CommitIsLost, Data, client, pressure, laneVars
<1>4. CASE OtherMember
  BY <1>4 DEF OtherMember, Data, Offsets, client, pressure, laneVars
<1>5. CASE Revoked
  BY <1>5 DEF Revoked, Data, broker, pressure, laneVars
<1>6. CASE Assigned
  BY <1>6 DEF Assigned, Data, broker, pressure, laneVars
<1>7. CASE UpdateBackpressure
  BY <1>7 DEF UpdateBackpressure, Data, broker, laneVars
<1>8. CASE ConsumeMsg
  <2>1. Job(position, generation) \in Jobs
    BY <1>8 DEF ConsumeMsg, Data, Job, Jobs, Offsets
  <2> QED BY <1>8, <2>1 DEF ConsumeMsg, Data, broker, pressure
<1>9. CASE ConsumeTimesOut
  BY <1>9 DEF ConsumeTimesOut, Data, broker, client, pressure, laneVars
<1>10. CASE TakeJob
  <2>1. Head(jobs) \in Jobs /\ Tail(jobs) \in Seq(Jobs)
    BY <1>10 DEF TakeJob, Data
  <2>2. \A j \in Jobs : j # NoJob
    BY DEF Jobs, NoJob, Offsets
  <2> QED BY <1>10, <2>1, <2>2 DEF TakeJob, Data, broker, client, pressure
<1>11. CASE HandleReturns
  BY <1>11 DEF HandleReturns, Data, Jobs, broker, client, pressure
<1>12. CASE HandleFails
  BY <1>12 DEF HandleFails, Data, broker, client, pressure
<1>13. CASE TestGeneration
  BY <1>13 DEF TestGeneration, Data, broker, client, pressure
<1>14. CASE CommitAsync
  <2>1. job.offset + 1 \in 1..MaxLog
    BY <1>14 DEF CommitAsync, Data, Jobs, Offsets
  <2> QED BY <1>14, <2>1 DEF CommitAsync, Data, client, pressure
<1>15. CASE CommitRefused
  BY <1>15 DEF CommitRefused, Data, broker, client, pressure
<1>16. CASE Shutdown
  BY <1>16 DEF Shutdown, Data, broker, pressure, laneVars
<1>17. CASE ThreadExits
  BY <1>17 DEF ThreadExits, Data, broker, client, pressure, laneVars
<1>18. CASE LaneExits
  BY <1>18 DEF LaneExits, Data, broker, client, pressure
<1>19. CASE Restart
  BY <1>19 DEF Restart, NewProcess, Data, broker
<1>20. CASE Crash
  BY <1>20 DEF Crash, NewProcess, Data, broker
<1>21. CASE UNCHANGED vars
  BY <1>21 DEF vars, Data, broker, client, pressure, laneVars
<1> QED
  BY <1>1, <1>2, <1>3, <1>4, <1>5, <1>6, <1>7, <1>8, <1>9, <1>10, <1>11, <1>12, <1>13,
     <1>14, <1>15, <1>16, <1>17, <1>18, <1>19, <1>20, <1>21
  DEF Next, BrokerStep, ThreadStep, LaneStep

LEMMA TypeStep == Inv /\ [Next]_vars => Data' /\ TypeOK'
<1> SUFFICES ASSUME Inv, [Next]_vars PROVE Data' /\ TypeOK'
  OBVIOUS
<1>1. Flags /\ Data /\ CommitsOK
  BY TypeParts DEF Inv, OffsetsOK
<1>2. Flags'
  BY <1>1, FlagsStep
<1>3. Data'
  BY <1>1, DataStep
<1> QED BY <1>2, <1>3, Zenon DEF TypeOK, Flags, Data

-----------------------------------------------------------------------------
(* handled only grows, and log does.                                        *)
LEMMA Grows == Data /\ [Next]_vars => handled \subseteq handled' /\ log <= log'
<1> SUFFICES ASSUME Data, [Next]_vars PROVE handled \subseteq handled' /\ log <= log'
  OBVIOUS
<1>1. UNCHANGED handled \/ \E x : handled' = handled \cup {x}
  BY DEF Next, BrokerStep, ThreadStep, LaneStep, Produce, CommitArrives, CommitIsLost,
      OtherMember, Revoked, Assigned, UpdateBackpressure, ConsumeMsg, ConsumeTimesOut,
      ThreadExits, TakeJob, HandleReturns, TestGeneration, CommitAsync, LaneExits,
      HandleFails, CommitRefused, Shutdown, Restart, Crash, NewProcess, vars
<1>2. log' \in {log, log + 1}
  BY DEF Next, BrokerStep, ThreadStep, LaneStep, Produce, CommitArrives, CommitIsLost,
      OtherMember, Revoked, Assigned, UpdateBackpressure, ConsumeMsg, ConsumeTimesOut,
      ThreadExits, TakeJob, HandleReturns, TestGeneration, CommitAsync, LaneExits,
      HandleFails, CommitRefused, Shutdown, Restart, Crash, NewProcess, vars, broker
<1> QED BY <1>1, <1>2 DEF Data

LEMMA CommitsStep == Data /\ Data' /\ CommitsOK /\ LaneOK /\ [Next]_vars => CommitsOK'
<1> SUFFICES ASSUME Data, Data', CommitsOK, LaneOK, [Next]_vars PROVE CommitsOK'
  OBVIOUS
<1>0. handled \subseteq handled' /\ log <= log'
  BY Grows
<1>1. CASE CommitArrives \/ CommitIsLost
  <2>1. UNCHANGED <<log, handled>> /\ commits' = Tail(commits) /\ commits # <<>>
    BY <1>1 DEF CommitArrives, CommitIsLost
  <2>2. 1 \in 1..Len(commits) /\ Head(commits) = commits[1]
    BY <2>1 DEF Data
  <2>3. committed' \in {committed, commits[1]}
    BY <1>1, <2>2 DEF CommitArrives, CommitIsLost
  <2>4. Below(committed')
    BY <2>2, <2>3 DEF CommitsOK
  <2>5. ASSUME NEW i \in 1..Len(commits') PROVE commits'[i] <= log /\ Below(commits'[i])
    <3>1. i + 1 \in 1..Len(commits) /\ commits'[i] = commits[i + 1]
      BY <2>1, <2>5 DEF Data
    <3> QED BY <3>1 DEF CommitsOK
  <2> QED BY <2>1, <2>4, <2>5 DEF CommitsOK, Below
<1>2. CASE OtherMember
  BY <1>2 DEF OtherMember, CommitsOK, Data, Below
<1>3. CASE CommitAsync
  <2>1. job.offset \in Nat /\ job.offset + 1 <= log /\ Below(job.offset + 1)
    <3>1. lane = "commit" /\ job \in Jobs /\ log \in Int
      BY <1>3, KafkaAssumption DEF CommitAsync, Data
    <3>2. job.offset \in Nat /\ job # NoJob
      BY <3>1, KafkaAssumption DEF Jobs, Offsets, NoJob
    <3>3. job.offset < log /\ Below(job.offset) /\ job.offset \in handled
      BY <3>1, <3>2 DEF LaneOK
    <3> QED BY <3>1, <3>2, <3>3 DEF Below
  <2>2. /\ commits' = Append(commits, job.offset + 1)
        /\ UNCHANGED <<log, committed, handled>>
    BY <1>3 DEF CommitAsync
  <2>3. commits \in Seq(1..MaxLog)
    BY DEF Data
  <2>4. ASSUME NEW i \in 1..Len(commits')
        PROVE  \/ i \in 1..Len(commits) /\ commits'[i] = commits[i]
               \/ commits'[i] = job.offset + 1
    BY <2>2, <2>3, <2>4
  <2>5. \A i \in 1..Len(commits') : commits'[i] <= log /\ Below(commits'[i])
    BY <2>1, <2>4 DEF CommitsOK
  <2> QED BY <2>2, <2>5 DEF CommitsOK, Below
<1>4. CASE ~(CommitArrives \/ CommitIsLost \/ OtherMember \/ CommitAsync)
  <2>1. UNCHANGED <<committed, commits>>
    BY <1>4 DEF Next, BrokerStep, ThreadStep, LaneStep, Produce, Revoked, Assigned,
        UpdateBackpressure, ConsumeMsg, ConsumeTimesOut, ThreadExits, TakeJob,
        HandleReturns, TestGeneration, LaneExits, HandleFails, CommitRefused, Shutdown,
        Restart, Crash, NewProcess, vars, broker
  <2>2. commits \in Seq(1..MaxLog) /\ log \in Nat /\ log' \in Nat
    BY KafkaAssumption DEF Data
  <2>3. \A i \in 1..Len(commits) : commits[i] \in Nat
    BY <2>2, KafkaAssumption
  <2>4. \A i \in 1..Len(commits) : commits[i] <= log'
    BY <1>0, <2>2, <2>3 DEF CommitsOK
  <2> QED BY <1>0, <2>1, <2>4 DEF CommitsOK, Below
<1> QED BY <1>1, <1>2, <1>3, <1>4

(* What the queue holds.                                                    *)
LEMMA QueuedJobs ==
    Data => /\ Len(jobs) \in Nat
            /\ \A i \in 1..Len(jobs) : /\ jobs[i] \in Jobs
                                      /\ jobs[i].offset \in Int /\ jobs[i].generation \in Int
<1> SUFFICES ASSUME Data PROVE
        /\ Len(jobs) \in Nat
        /\ \A i \in 1..Len(jobs) : /\ jobs[i] \in Jobs
                                  /\ jobs[i].offset \in Int /\ jobs[i].generation \in Int
  OBVIOUS
<1>1. jobs \in Seq(Jobs)
  BY DEF Data
<1>2. Len(jobs) \in Nat /\ \A i \in 1..Len(jobs) : jobs[i] \in Jobs
  BY <1>1
<1>3. \A j \in Jobs : j.offset \in Int /\ j.generation \in Int
  BY KafkaAssumption DEF Jobs, Offsets
<1> QED BY <1>2, <1>3

LEMMA JobsStep == Data /\ Data' /\ JobsOK /\ [Next]_vars => JobsOK'
<1> SUFFICES ASSUME Data, Data', JobsOK, [Next]_vars PROVE JobsOK'
  OBVIOUS
<1>0. log <= log' /\ generation <= generation'
  <2>1. generation' \in {generation, generation + 1}
    BY DEF Next, BrokerStep, ThreadStep, LaneStep, Produce, CommitArrives, CommitIsLost,
        OtherMember, Revoked, Assigned, UpdateBackpressure, ConsumeMsg, ConsumeTimesOut,
        ThreadExits, TakeJob, HandleReturns, TestGeneration, CommitAsync, LaneExits,
        HandleFails, CommitRefused, Shutdown, Restart, Crash, NewProcess, vars
  <2> QED BY <2>1, Grows, KafkaAssumption DEF Data
<1>1. CASE ConsumeMsg
  <2>1. /\ jobs' = Append(jobs, Job(position, generation)) /\ position < log
        /\ UNCHANGED <<log, generation>>
    BY <1>1 DEF ConsumeMsg, broker
  <2>2. /\ Len(jobs') = Len(jobs) + 1 /\ Len(jobs) \in Nat
        /\ \A i \in 1..Len(jobs) : jobs'[i] = jobs[i]
        /\ jobs'[Len(jobs) + 1] = Job(position, generation)
    BY <2>1 DEF Data, Job
  <2>3. generation <= generation
    BY KafkaAssumption DEF Data
  <2>4. ASSUME NEW i \in 1..Len(jobs')
        PROVE  jobs'[i].offset < log /\ jobs'[i].generation <= generation
    <3>1. CASE i \in 1..Len(jobs)
      BY <2>2, <3>1 DEF JobsOK
    <3>2. CASE i = Len(jobs) + 1
      BY <2>1, <2>2, <2>3, <3>2 DEF Job
    <3> QED BY <2>2, <3>1, <3>2
  <2> QED BY <2>1, <2>4 DEF JobsOK
<1>2. CASE TakeJob
  <2>1. jobs' = Tail(jobs) /\ jobs # <<>> /\ UNCHANGED <<log, generation>>
    BY <1>2 DEF TakeJob, broker
  <2>2. ASSUME NEW i \in 1..Len(jobs')
        PROVE  i + 1 \in 1..Len(jobs) /\ jobs'[i] = jobs[i + 1]
    <3>1. jobs \in Seq(Jobs)
      BY DEF Data
    <3> QED BY <2>1, <2>2, <3>1
  <2> QED BY <2>1, <2>2 DEF JobsOK
<1>3. CASE Restart \/ Crash
  BY <1>3 DEF Restart, Crash, NewProcess, JobsOK
<1>4. CASE ~(ConsumeMsg \/ TakeJob \/ Restart \/ Crash)
  <2>1. UNCHANGED jobs
    BY <1>4 DEF Next, BrokerStep, ThreadStep, LaneStep, Produce, CommitArrives,
        CommitIsLost, OtherMember, Revoked, Assigned, UpdateBackpressure,
        ConsumeTimesOut, ThreadExits, HandleReturns, TestGeneration, CommitAsync,
        LaneExits, HandleFails, CommitRefused, Shutdown, vars, laneVars
  <2>2. log \in Int /\ log' \in Int /\ generation \in Int /\ generation' \in Int
    BY KafkaAssumption DEF Data
  <2> QED BY <1>0, <2>1, <2>2, QueuedJobs DEF JobsOK
<1> QED BY <1>1, <1>2, <1>3, <1>4

(* A job is taken only when everything before it is handled.                *)
LEMMA LaneStepOK == Data /\ Data' /\ LaneOK /\ JobsOK /\ QueueOK /\ [Next]_vars => LaneOK'
<1> SUFFICES ASSUME Data, Data', LaneOK, JobsOK, QueueOK, [Next]_vars PROVE LaneOK'
  OBVIOUS
<1>0. handled \subseteq handled' /\ log <= log'
  BY Grows
<1>1. CASE TakeJob
  <2>1. lane' \notin {"handled", "commit"} /\ UNCHANGED <<log, handled>>
    BY <1>1 DEF TakeJob, broker
  <2>2. job' # NoJob => job'.offset < log /\ Below(job'.offset)
    <3> SUFFICES ASSUME job' # NoJob PROVE job'.offset < log /\ Below(job'.offset)
      OBVIOUS
    <3>1. job = NoJob /\ ~Current(job)
      <4>1. job = NoJob
        BY <1>1 DEF TakeJob, Data
      <4>2. generation # -1
        BY KafkaAssumption DEF Data
      <4> QED BY <4>1, <4>2 DEF Current, NoJob
    <3>2. job' = jobs[1] /\ Current(jobs[1]) /\ running /\ 1 \in 1..Len(jobs)
      BY <1>1, <3>1 DEF TakeJob, Data
    <3>3. \A x \in 0..(jobs[1].offset - 1) : Covered(x, 1)
      BY <3>2 DEF QueueOK
    <3>4. \A x \in 0..(jobs[1].offset - 1) : x \in handled
      BY <3>1, <3>3 DEF Covered
    <3> QED BY <3>2, <3>4 DEF JobsOK, Below
  <2> QED BY <2>1, <2>2 DEF LaneOK, Below
<1>2. CASE HandleReturns \/ TestGeneration \/ CommitRefused
  BY <1>2 DEF HandleReturns, TestGeneration, CommitRefused, LaneOK, Data, Below, broker
<1>3. CASE HandleFails \/ CommitAsync \/ LaneExits \/ Restart \/ Crash
  <2>1. job' = NoJob /\ lane' \in {"idle", "exited"}
    BY <1>3 DEF HandleFails, CommitAsync, LaneExits, Restart, Crash, NewProcess, Data
  <2> QED BY <2>1 DEF LaneOK
<1>4. CASE ~(TakeJob \/ HandleReturns \/ TestGeneration \/ CommitRefused \/ HandleFails
             \/ CommitAsync \/ LaneExits \/ Restart \/ Crash)
  <2>1. UNCHANGED <<job, lane>>
    BY <1>4 DEF Next, BrokerStep, ThreadStep, LaneStep, Produce, CommitArrives,
        CommitIsLost, OtherMember, Revoked, Assigned, UpdateBackpressure, ConsumeMsg,
        ConsumeTimesOut, ThreadExits, Shutdown, vars, laneVars
  <2>2. job # NoJob => job.offset \in Int
    BY KafkaAssumption DEF Data, Jobs, Offsets
  <2>3. log \in Int /\ log' \in Int
    BY KafkaAssumption DEF Data
  <2>4. job # NoJob => job.offset < log' /\ 0..(job.offset - 1) \subseteq handled'
    BY <1>0, <2>2, <2>3 DEF LaneOK, Below
  <2>5. lane \in {"handled", "commit"} => job.offset \in handled'
    BY <1>0 DEF LaneOK
  <2> QED BY <2>1, <2>4, <2>5 DEF LaneOK, Below
<1> QED BY <1>1, <1>2, <1>3, <1>4

-----------------------------------------------------------------------------
(* QueueOK survives a step that leaves queue, position and generation alone,*)
(* as long as a job that leaves the lane is handled or of no use.           *)
LEMMA QueueKept ==
    ASSUME QueueOK, UNCHANGED <<jobs, generation>>,
           running' => running, assigned' => assigned /\ position' = position,
           handled \subseteq handled',
           running' /\ Current(job) => job' = job \/ job.offset \in handled'
    PROVE  QueueOK'
<1> SUFFICES ASSUME running' PROVE QueueOK'
  BY DEF QueueOK
<1>1. ASSUME NEW x, NEW k, Covered(x, k) PROVE Covered(x, k)'
  BY <1>1 DEF Covered, Current
<1>2. ASSUME NEW j PROVE Current(j)' = Current(j)
  BY DEF Current
<1> QED BY <1>1, <1>2 DEF QueueOK, Current

LEMMA QueueStep == Data /\ OffsetsOK /\ QueueOK /\ [Next]_vars => QueueOK'
<1> SUFFICES ASSUME Data, CommitsOK, LaneOK, JobsOK, QueueOK, [Next]_vars PROVE QueueOK'
  BY DEF OffsetsOK
<1>0. handled \subseteq handled'
  BY Grows
<1>1. CASE Revoked \/ Assigned
  <2>1. generation' = generation + 1 /\ UNCHANGED <<jobs, handled, committed>>
    BY <1>1 DEF Revoked, Assigned, laneVars, broker
  <2>2. \A k \in 1..Len(jobs) : ~Current(jobs[k])'
    BY <2>1, QueuedJobs, KafkaAssumption DEF JobsOK, Current, Data
  <2>3. CASE Revoked
    BY <2>1, <2>2, <2>3 DEF Revoked, QueueOK
  <2>4. CASE Assigned
    BY <2>1, <2>2, <2>4 DEF Assigned, QueueOK, CommitsOK, Below, Covered
  <2> QED BY <1>1, <2>3, <2>4
<1>2. CASE ConsumeMsg
  <2>1. /\ jobs' = Append(jobs, Job(position, generation)) /\ position' = position + 1
        /\ assigned /\ UNCHANGED <<assigned, running, generation, job, handled>>
    BY <1>2 DEF ConsumeMsg
  <2>2. /\ Len(jobs') = Len(jobs) + 1 /\ Len(jobs) \in Nat
        /\ \A i \in 1..Len(jobs) : jobs'[i] = jobs[i]
        /\ jobs'[Len(jobs) + 1] = Job(position, generation)
    BY <2>1 DEF Data, Job
  <2>3. \A j : Current(j)' = Current(j)
    BY <2>1 DEF Current
  <2>4. PICK n \in Nat, p \in Nat : n = Len(jobs) /\ p = position
    BY <2>2, KafkaAssumption DEF Data
  <2>5. ASSUME NEW x, NEW k \in 1..(n + 1), Covered(x, k) PROVE Covered(x, k)'
    BY <2>1, <2>2, <2>4, <2>5 DEF Covered, Current
  <2>6. ASSUME running PROVE \A x \in 0..(p - 1) : Covered(x, n + 1)'
    <3>1. \A x \in 0..(p - 1) : Covered(x, n + 1)
      BY <2>1, <2>4, <2>6 DEF QueueOK
    <3> QED BY <2>4, <2>5, <3>1
  <2>7. \A x : Covered(x, n + 1)' => Covered(x, n + 2)'
    BY <2>2, <2>4 DEF Covered
  <2>8. Covered(p, n + 2)'
    BY <2>1, <2>2, <2>4 DEF Covered, Current, Job
  <2>9. ASSUME running', NEW k \in 1..Len(jobs'), Current(jobs[k])',
               NEW x \in 0..(jobs'[k].offset - 1)
        PROVE  Covered(x, k)'
    <3>1. CASE k \in 1..Len(jobs)
      <4>1. Covered(x, k)
        BY <2>1, <2>2, <2>9, <3>1 DEF QueueOK, Current
      <4> QED BY <2>4, <2>5, <3>1, <4>1
    <3>2. CASE k = n + 1
      BY <2>1, <2>2, <2>4, <2>6, <2>9, <3>2 DEF Job
    <3> QED BY <2>2, <2>4, <3>1, <3>2
  <2>10. ASSUME running', NEW x \in 0..(position' - 1) PROVE Covered(x, Len(jobs) + 1)'
    <3>1. x \in 0..(p - 1) \/ x = p
      BY <2>1, <2>4, <2>10
    <3>2. Covered(x, n + 2)'
      BY <2>1, <2>6, <2>7, <2>8, <2>10, <3>1
    <3>3. (Len(jobs) + 1)' = n + 2
      BY <2>2, <2>4
    <3> QED BY <3>2, <3>3 DEF Covered
  <2> QED BY <2>9, <2>10 DEF QueueOK
<1>3. CASE TakeJob
  <2>1. /\ jobs' = Tail(jobs) /\ jobs # <<>> /\ running /\ job = NoJob
        /\ job' = IF Current(jobs[1]) THEN jobs[1] ELSE job
        /\ UNCHANGED <<assigned, position, running, generation, handled>>
    BY <1>3 DEF TakeJob, client, Data
  <2>2. /\ Len(jobs) \in Nat /\ Len(jobs) >= 1 /\ Len(jobs') = Len(jobs) - 1
        /\ \A i \in 1..Len(jobs') : jobs'[i] = jobs[i + 1]
        /\ \A i \in 2..Len(jobs) : jobs[i] = jobs'[i - 1]
    BY <2>1 DEF Data
  <2>3. ~Current(job)
    BY <2>1 DEF Current, NoJob, Data
  <2>4. ASSUME NEW x, NEW k \in 1..Len(jobs), Covered(x, k + 1) PROVE Covered(x, k)'
    <3>1. CASE x \in handled
      BY <2>1, <3>1 DEF Covered
    <3>2. CASE x \notin handled
      <4>1. PICK i \in 1..Len(jobs) : i < k + 1 /\ Current(jobs[i]) /\ jobs[i].offset = x
        BY <2>3, <2>4, <3>2 DEF Covered
      <4>2. CASE i = 1
        BY <2>1, <4>1, <4>2 DEF Covered, Current
      <4>3. CASE i # 1
        <5>1. i - 1 \in 1..Len(jobs') /\ i - 1 < k /\ jobs'[i - 1] = jobs[i]
          BY <2>2, <4>1, <4>3
        <5> QED BY <2>1, <4>1, <5>1 DEF Covered, Current
      <4> QED BY <4>2, <4>3
    <3> QED BY <3>1, <3>2
  <2>5. ASSUME running', NEW k \in 1..Len(jobs'), Current(jobs[k])',
               NEW x \in 0..(jobs'[k].offset - 1)
        PROVE  Covered(x, k)'
    <3>1. k + 1 \in 1..Len(jobs) /\ k \in 1..Len(jobs) /\ jobs'[k] = jobs[k + 1]
      BY <2>2, <2>5
    <3>2. Covered(x, k + 1)
      BY <2>1, <2>5, <3>1 DEF QueueOK, Current
    <3> QED BY <2>4, <3>1, <3>2
  <2>6. ASSUME running', assigned', NEW x \in 0..(position' - 1)
        PROVE  Covered(x, Len(jobs) + 1)'
    <3>1. PICK n \in 1..Len(jobs) : n = Len(jobs)
      BY <2>2
    <3>2. Covered(x, n + 1)
      BY <2>1, <2>6, <3>1 DEF QueueOK
    <3>3. Covered(x, n)'
      BY <2>4, <3>1, <3>2
    <3>4. (Len(jobs) + 1)' = n
      BY <2>2, <3>1
    <3> QED BY <3>3, <3>4 DEF Covered
  <2> QED BY <2>5, <2>6 DEF QueueOK
<1>4. CASE Restart \/ Crash
  BY <1>4 DEF Restart, Crash, NewProcess, QueueOK
<1>5. CASE ~(Revoked \/ Assigned \/ ConsumeMsg \/ TakeJob \/ Restart \/ Crash)
  <2>1. UNCHANGED <<jobs, generation, assigned, position>> /\ (running' => running)
    BY <1>5 DEF Next, BrokerStep, ThreadStep, LaneStep, Produce, CommitArrives,
        CommitIsLost, OtherMember, UpdateBackpressure, ConsumeTimesOut, ThreadExits,
        HandleReturns, TestGeneration, CommitAsync, LaneExits, HandleFails,
        CommitRefused, Shutdown, vars, client, laneVars
  <2>2. running' /\ Current(job) => job' = job \/ job.offset \in handled'
    BY <1>0, <1>5 DEF Next, BrokerStep, ThreadStep, LaneStep, Produce, CommitArrives,
        CommitIsLost, OtherMember, UpdateBackpressure, ConsumeTimesOut, ThreadExits,
        HandleReturns, TestGeneration, CommitAsync, LaneExits, HandleFails,
        CommitRefused, Shutdown, vars, client, laneVars, LaneOK
  <2> QED BY <1>0, <2>1, <2>2, QueueKept
<1> QED BY <1>1, <1>2, <1>3, <1>4, <1>5

LEMMA InvStep == Inv /\ [Next]_vars => Inv'
<1> SUFFICES ASSUME Inv, [Next]_vars PROVE Inv'
  OBVIOUS
<1>1. Data /\ OffsetsOK /\ CommitsOK /\ LaneOK /\ JobsOK /\ QueueOK
  BY TypeParts DEF Inv, OffsetsOK
<1>2. Data' /\ TypeOK'
  BY TypeStep
<1>3. OffsetsOK'
  BY <1>1, <1>2, CommitsStep, LaneStepOK, JobsStep DEF OffsetsOK
<1>4. QueueOK'
  BY <1>1, QueueStep
<1> QED BY <1>2, <1>3, <1>4 DEF Inv

(* Type correctness of the consumer and its lane.                           *)
THEOREM ConsumerTypes == Spec => []TypeOK
<1>1. Spec => []Inv
  BY InitInv, InvStep, PTL DEF Spec
<1> QED BY <1>1, PTL DEF Inv

-----------------------------------------------------------------------------
(* Every step of the consumer is a step of the channel, or none.            *)
LEMMA ChannelStep == Inv /\ Inv' /\ [Next]_vars => [Ch!Next]_(Ch!vars)
<1> SUFFICES ASSUME Inv, Inv', [Next]_vars PROVE [Ch!Next]_(Ch!vars)
  OBVIOUS
<1>1. CASE Produce
  BY <1>1 DEF Produce, Ch!Next, Ch!Send
<1>2. CASE CommitArrives
  <2>1. /\ committed' \in 0..log' /\ 0..(committed' - 1) \subseteq handled'
        /\ UNCHANGED <<log, handled>>
    <3>1. committed' \in 0..log'
      BY Zenon DEF Inv, TypeOK
    <3> QED BY <1>2, <3>1 DEF CommitArrives, Inv, OffsetsOK, CommitsOK, Below
  <2> QED BY <2>1 DEF Ch!Next, Ch!Commit
<1>3. CASE OtherMember
  <2>1. committed \in 0..(log - 1) /\ 0..(committed - 1) \subseteq handled
    BY <1>3, TypeParts DEF OtherMember, Inv, OffsetsOK, CommitsOK, Below, Data
  <2>2. Ch!Handle
    BY <1>3, <2>1 DEF OtherMember, Ch!Handle
  <2>3. Ch!Commit
    BY <1>3, <2>1, TypeParts DEF OtherMember, Ch!Commit, Inv, Data
  <2> QED BY <2>2, <2>3 DEF Ch!Next
<1>4. CASE HandleReturns
  <2>1. job.offset \in 0..(log - 1) /\ 0..(job.offset - 1) \subseteq handled
    BY <1>4, TypeParts DEF HandleReturns, Inv, OffsetsOK, LaneOK, Below, Data, Jobs, Offsets
  <2> QED BY <1>4, <2>1 DEF HandleReturns, Ch!Next, Ch!Handle, broker
<1>5. CASE ~(Produce \/ CommitArrives \/ OtherMember \/ HandleReturns)
  BY <1>5 DEF Next, BrokerStep, ThreadStep, LaneStep, CommitIsLost, Revoked, Assigned,
      UpdateBackpressure, ConsumeMsg, ConsumeTimesOut, ThreadExits, TakeJob,
      TestGeneration, CommitAsync, LaneExits, HandleFails, CommitRefused, Shutdown,
      Restart, Crash, NewProcess, vars, broker, Ch!vars
<1> QED BY <1>1, <1>2, <1>3, <1>4, <1>5

(* The partition is an at-least-once channel: no record is skipped and none *)
(* is handled before the ones ahead of it, whatever rebalances, shutdowns   *)
(* and crashes fall between handling and commit.                            *)
THEOREM ConsumerImplementsChannel == Spec => ImplementsChannel
<1>1. Init => Ch!Init
  BY DEF Init, Ch!Init
<1>2. Spec => []Inv
  BY InitInv, InvStep, PTL DEF Spec
<1> QED BY <1>1, <1>2, ChannelStep, PTL DEF Spec, ImplementsChannel, Ch!Spec

-----------------------------------------------------------------------------
(* Backpressure.                                                            *)

(* The current jobs are among the last High of the queue: those that a      *)
(* rebalance left behind come first.                                        *)
CurrentLast == \A i \in 1..Len(jobs) : Current(jobs[i]) => Len(jobs) - High < i

(* While consume() runs, either no rebalance has fallen in this round, and  *)
(* a partition that is not paused has room; or one has, and then the queue  *)
(* has no job of the new generation.  The one job that consume() may still  *)
(* return after a rebalance is the "+ generation" of the bound.             *)
PressureOK ==
    /\ pauseGen <= generation
    /\ pauseGen = generation /\ paused => stopped
    /\ thread = "consume" /\ pauseGen = generation /\ ~stopped => Len(jobs) < High
    /\ thread = "consume" /\ pauseGen # generation =>
          /\ Len(jobs) < High + generation
          /\ \A i \in 1..Len(jobs) : ~Current(jobs[i])

PressureInv == CurrentLast /\ PressureOK /\ Len(jobs) <= High + generation

(* A rebalance: no queued job is of the new generation.                     *)
LEMMA RebalancePressure ==
    ASSUME Inv, PressureInv, thread = "consume", generation < MaxGen,
           generation' = generation + 1, UNCHANGED <<thread, pressure, jobs>>
    PROVE  PressureInv'
<1> USE KafkaAssumption
<1>1. /\ Len(jobs) \in Nat /\ generation \in Nat /\ pauseGen \in Nat
      /\ \A i \in 1..Len(jobs) : jobs[i].generation \in Nat /\ jobs[i].generation <= generation
  <2>1. jobs \in Seq(Jobs) /\ generation \in 0..MaxGen /\ pauseGen \in 0..MaxGen
    BY DEF Inv, TypeOK
  <2>2. \A i \in 1..Len(jobs) : jobs[i] \in Jobs
    BY <2>1
  <2>3. \A i \in 1..Len(jobs) : jobs[i].generation \in Nat
    BY <2>2 DEF Jobs
  <2> QED BY <2>1, <2>3 DEF Inv, OffsetsOK, JobsOK
<1>2. \A i \in 1..Len(jobs) : jobs[i].generation # generation'
  BY <1>1
<1>3. CurrentLast'
  BY <1>2 DEF CurrentLast, Current, pressure
<1>4. pauseGen' < generation' /\ Len(jobs') < High + generation'
  BY <1>1 DEF PressureInv, PressureOK, pressure
<1>5. PressureOK'
  BY <1>1, <1>2, <1>4 DEF PressureOK, Current, pressure
<1> QED BY <1>1, <1>3, <1>4, <1>5 DEF PressureInv

(* No step queues past the bound.                                           *)
LEMMA PressureStep ==
    ASSUME Inv, PressureInv, [Next]_vars PROVE PressureInv'
<1> USE KafkaAssumption
<1>1. jobs \in Seq(Jobs) /\ Len(jobs) \in Nat /\ generation \in Nat /\ pauseGen \in Nat
  BY DEF Inv, TypeOK
<1>2. ASSUME UNCHANGED <<stopped, generation, pressure, jobs>>,
             thread' = thread \/ thread' \in {"pressure", "exited"}
      PROVE  PressureInv'
  BY <1>2 DEF PressureInv, CurrentLast, PressureOK, Current, pressure
<1>3. CASE Revoked
  BY <1>3, RebalancePressure DEF Revoked, laneVars
<1>4. CASE Assigned
  BY <1>4, RebalancePressure DEF Assigned, laneVars
<1>5. CASE UpdateBackpressure
  <2>1. /\ UNCHANGED <<jobs, generation>> /\ pauseGen' = generation
        /\ thread' = "consume"
    BY <1>5 DEF UpdateBackpressure, laneVars
  <2>2. paused' => stopped'
    BY <1>5 DEF UpdateBackpressure, PressureInv, PressureOK, Inv, TypeOK
  <2>3. ~paused' => Len(jobs) < High
    <3>1. paused' = IF paused /\ pauseGen = generation THEN Len(jobs) > Low
                     ELSE Len(jobs) >= High
      BY <1>5 DEF UpdateBackpressure
    <3>2. ~paused' => ~(Len(jobs) > Low) \/ ~(Len(jobs) >= High)
      BY <3>1, Zenon
    <3> QED BY <1>1, <3>2
  <2>4. PressureOK'
    BY <1>1, <2>1, <2>2, <2>3 DEF PressureOK
  <2> QED BY <2>1, <2>4 DEF PressureInv, CurrentLast, Current
<1>6. CASE ConsumeMsg
  <2>1. /\ jobs' = Append(jobs, Job(position, generation)) /\ thread = "consume" /\ ~stopped
        /\ thread' = "pressure" /\ UNCHANGED <<stopped, generation, paused, pauseGen>>
    BY <1>6 DEF ConsumeMsg, pressure
  <2>2. /\ Len(jobs') = Len(jobs) + 1
        /\ \A i \in 1..Len(jobs) : jobs'[i] = jobs[i]
    BY <1>1, <2>1
  <2>3. CASE pauseGen = generation
    <3>1. Len(jobs') <= High
      BY <1>1, <2>1, <2>2, <2>3 DEF PressureInv, PressureOK
    <3>2. CurrentLast'
      BY <1>1, <2>2, <3>1 DEF CurrentLast
    <3> QED BY <1>1, <2>1, <3>1, <3>2 DEF PressureInv, PressureOK
  <2>4. CASE pauseGen # generation
    <3>1. Len(jobs) < High + generation /\ \A i \in 1..Len(jobs) : ~Current(jobs[i])
      BY <2>1, <2>4 DEF PressureInv, PressureOK
    <3>2. ASSUME NEW i \in 1..Len(jobs'), Current(jobs[i])' PROVE i = Len(jobs')
      <4>1. i \in 1..Len(jobs) => ~Current(jobs[i])'
        BY <2>1, <2>2, <3>1 DEF Current
      <4> QED BY <1>1, <2>2, <3>2, <4>1
    <3>3. CurrentLast'
      BY <1>1, <2>2, <3>2 DEF CurrentLast
    <3> QED BY <1>1, <2>1, <2>2, <2>4, <3>1, <3>3 DEF PressureInv, PressureOK
  <2> QED BY <2>3, <2>4
<1>7. CASE TakeJob
  <2>1. /\ jobs # <<>> /\ jobs' = Tail(jobs)
        /\ UNCHANGED <<stopped, thread, generation, paused, pauseGen>>
    BY <1>7 DEF TakeJob, client, pressure
  <2>2. /\ Len(jobs') = Len(jobs) - 1 /\ Len(jobs') \in Nat
        /\ \A i \in 1..Len(jobs') : i + 1 \in 1..Len(jobs) /\ jobs'[i] = jobs[i + 1]
    BY <1>1, <2>1
  <2>3. CurrentLast'
    <3> SUFFICES ASSUME NEW i \in 1..Len(jobs'), Current(jobs[i])' PROVE Len(jobs') - High < i
      BY DEF CurrentLast
    <3>1. Current(jobs[i + 1])
      BY <2>1, <2>2 DEF Current
    <3>2. Len(jobs) - High < i + 1
      BY <2>2, <3>1 DEF PressureInv, CurrentLast
    <3> QED BY <1>1, <2>2, <3>2
  <2>4. PressureOK'
    BY <1>1, <2>1, <2>2 DEF PressureInv, PressureOK, Current
  <2> QED BY <1>1, <2>1, <2>2, <2>3, <2>4 DEF PressureInv
<1>8. CASE Restart \/ Crash
  <2>1. /\ jobs' = <<>> /\ Len(jobs') = 0 /\ thread' = "pressure" /\ paused' = FALSE
        /\ pauseGen' = generation /\ generation' = generation
    BY <1>8 DEF Restart, Crash, NewProcess
  <2> QED BY <1>1, <2>1 DEF PressureInv, CurrentLast, PressureOK
<1>9. CASE BrokerStep \/ ConsumeTimesOut \/ ThreadExits
  BY <1>2, <1>9 DEF BrokerStep, Produce, CommitArrives, CommitIsLost, OtherMember,
     ConsumeTimesOut, ThreadExits, client, laneVars
<1>10. CASE HandleReturns \/ TestGeneration \/ CommitAsync \/ LaneExits \/ HandleFails \/ CommitRefused
  BY <1>2, <1>10 DEF HandleReturns, TestGeneration, CommitAsync, LaneExits, HandleFails,
     CommitRefused, client
<1>11. CASE Shutdown
  BY <1>2, <1>11 DEF Shutdown, laneVars
<1>12. CASE UNCHANGED vars
  BY <1>2, <1>12 DEF vars, client, laneVars
<1> QED BY <1>3, <1>4, <1>5, <1>6, <1>7, <1>8, <1>9, <1>10, <1>11, <1>12
        DEF Next, ThreadStep, LaneStep

(* The backpressure of updateBackpressure holds for any marks and any       *)
(* number of rebalances: the lane never has more than High jobs of the      *)
(* current generation, nor more than one stale job per rebalance beyond.    *)
THEOREM LaneStaysBounded == Spec => []LaneBounded
<1>1. Init => PressureInv
  BY KafkaAssumption DEF Init, PressureInv, CurrentLast, PressureOK
<1>2. Inv /\ PressureInv /\ [Next]_vars => PressureInv'
  BY PressureStep
<1>3. Inv /\ PressureInv => LaneBounded
  <2> SUFFICES ASSUME Inv, PressureInv PROVE LaneBounded
    OBVIOUS
  <2> DEFINE C == {i \in DOMAIN jobs : Current(jobs[i])}
             low == Len(jobs) - High + 1
  <2>1. Len(jobs) \in Nat /\ DOMAIN jobs = 1..Len(jobs)
    BY DEF Inv, TypeOK
  <2>2. C \subseteq low..Len(jobs)
    BY <2>1, KafkaAssumption DEF PressureInv, CurrentLast
  <2>3. IsFiniteSet(low..Len(jobs)) /\ Cardinality(low..Len(jobs)) <= High
    <3>1. low \in Int /\ Len(jobs) \in Int
      BY <2>1, KafkaAssumption
    <3>2. /\ IsFiniteSet(low..Len(jobs))
          /\ Cardinality(low..Len(jobs)) = IF low > Len(jobs) THEN 0 ELSE Len(jobs) - low + 1
      BY <3>1, FS_Interval
    <3>3. Cardinality(low..Len(jobs)) <= High
      BY <2>1, <3>2, KafkaAssumption
    <3> QED BY <3>2, <3>3
  <2>4. Cardinality(C) <= High
    <3>1. IsFiniteSet(C) /\ Cardinality(C) <= Cardinality(low..Len(jobs))
      BY <2>2, <2>3, FS_Subset
    <3>2. Cardinality(C) \in Nat /\ Cardinality(low..Len(jobs)) \in Nat
      BY <2>3, <3>1, FS_CardinalityType
    <3> QED BY <2>3, <3>1, <3>2, KafkaAssumption
  <2> QED BY <2>4 DEF PressureInv, LaneBounded
<1>4. Spec => []Inv
  BY InitInv, InvStep, PTL DEF Spec
<1> QED BY <1>1, <1>2, <1>3, <1>4, PTL DEF Spec
=============================================================================
