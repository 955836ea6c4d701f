----------------------------- MODULE Snowflake ------------------------------
(* Snowflake::nextId: ids made of a millisecond and a sequence number, by   *)
(* callers that follow one another under mutex_, on a system clock that may *)
(* be set back at any time.  The outbox and the conversations order         *)
(* messages by these ids.                                                   *)
(*                                                                          *)
(* The worker and datacenter bits are constants of the process; an id is    *)
(* the pair <<millisecond, sequence>>, compared as the shifts compare it.   *)
EXTENDS Integers, Sequences

CONSTANTS
    MaxClock,    \* bound: milliseconds
    MaxIds,      \* bound: ids issued
    MaxSequence, \* MAX_SEQUENCE
    Tolerance    \* milliseconds a caller waits for at most

ASSUME SnowflakeAssumption ==
    /\ MaxClock \in Nat /\ MaxIds \in Nat
    /\ MaxSequence \in Nat \ {0} /\ Tolerance \in Nat

VARIABLES
    clock,      \* the system clock
    last,       \* lastTimestamp_
    sequence,   \* sequence_
    at,         \* the caller that holds mutex_: "none", "asleep", "spinning"
    left,       \* milliseconds it has left to sleep
    ids         \* history: ids issued, in order

snowflakeVars == <<clock, last, sequence, at, left, ids>>

SnowflakeTypeOK ==
    /\ clock \in 0..MaxClock /\ last \in -1..MaxClock
    /\ sequence \in 0..MaxSequence
    /\ at \in {"none", "asleep", "spinning"}
    /\ left \in 0..Tolerance
    /\ ids \in Seq((0..MaxClock) \X (0..MaxSequence))

SnowflakeInit ==
    /\ clock = 0 /\ last = -1 /\ sequence = 0
    /\ at = "none" /\ left = 0 /\ ids = <<>>

-----------------------------------------------------------------------------
Issue(ms, n) ==
    /\ ids' = Append(ids, <<ms, n>>)
    /\ last' = ms /\ sequence' = n
    /\ at' = "none" /\ left' = 0

(* Mutant of Continue: the sequence wraps within the millisecond.           *)
ContinueWrapping ==
    IF clock = last THEN Issue(clock, (sequence + 1) % (MaxSequence + 1))
    ELSE Issue(clock, 0)

(* nextId after the test for a clock set back.                              *)
Continue ==
    IF clock # last THEN Issue(clock, 0)
    ELSE IF sequence < MaxSequence THEN Issue(clock, sequence + 1)
    ELSE /\ sequence' = 0 /\ at' = "spinning"
         /\ UNCHANGED <<last, left, ids>>

(* nextId.  A clock too far behind throws, which changes nothing.           *)
NextId ==
    /\ at = "none" /\ Len(ids) < MaxIds
    /\ IF clock >= last THEN Continue
       ELSE /\ last - clock < Tolerance
            /\ at' = "asleep" /\ left' = last - clock + 1
            /\ UNCHANGED <<last, sequence, ids>>
    /\ UNCHANGED clock

(* sleep_for has passed; the clock is read again and not compared again.    *)
Wake ==
    /\ at = "asleep" /\ left = 0
    /\ Continue
    /\ UNCHANGED clock

(* The sequence was used up: the loop ends at a later millisecond.          *)
SpinEnds ==
    /\ at = "spinning" /\ clock > last
    /\ Issue(clock, 0)
    /\ UNCHANGED clock

(* A millisecond passes, for the clock and for a sleeper.                   *)
Tick ==
    /\ clock < MaxClock /\ clock' = clock + 1
    /\ left' = IF left > 0 THEN left - 1 ELSE 0
    /\ UNCHANGED <<last, sequence, at, ids>>

(* The clock is set back, at any time: also under a caller that sleeps off   *)
(* an earlier step.                                                         *)
StepBack ==
    /\ \E t \in 0..MaxClock : t < clock /\ clock' = t
    /\ UNCHANGED <<last, sequence, at, left, ids>>

SnowflakeNext == NextId \/ Wake \/ SpinEnds \/ Tick \/ StepBack

SnowflakeSpec == SnowflakeInit /\ [][SnowflakeNext]_snowflakeVars

-----------------------------------------------------------------------------
Below(x, y) == x[1] < y[1] \/ (x[1] = y[1] /\ x[2] < y[2])

(* Ids are unique and increasing, as include/util/snowflake.h promises.     *)
Increasing == \A i, j \in DOMAIN ids : i < j => Below(ids[i], ids[j])

(* What nextId guarantees instead: across used-up milliseconds and steps of *)
(* the clock an id is above the one issued before it, unless its caller     *)
(* slept and woke at a clock that is behind lastTimestamp_ once more.       *)
FallsOnlyAfterSleep ==
    [][ids' # ids /\ ids # <<>> =>
          \/ Below(ids[Len(ids)], ids'[Len(ids')])
          \/ at = "asleep" /\ clock < last]_snowflakeVars
=============================================================================
