--------------------------- MODULE ServicesProofs ---------------------------
(***************************************************************************)
(* Nothing outlives a service, calls find whole objects and no client is    *)
(* taken away in use, for any number of services in any order after         *)
(* BackbonService, whichever of them stop in their own destructor, and any  *)
(* number of callers.                                                       *)
(***************************************************************************)
EXTENDS Services, TLAPS

(* Inside Stop, past its test of the state.                                 *)
InStop == {"unregister", "unregistering", "shutdown", "closing", "joining"}

(* state_ follows the server thread, except for kStopping, which Stop sets; *)
(* a thread leaves neither server nor monitor behind.                       *)
ThreadOK(s) ==
    /\ state[s] = "stopped" <=> thread[s] \in {"none", "ended"}
    /\ state[s] = "starting" <=> thread[s] \in {"build", "mark"}
    /\ state[s] = "stopping" => Dying /\ Current = s /\ step \in InStop
    /\ thread[s] \in {"none", "build"} => server[s] = "none" /\ monitor[s] = "none"
    /\ thread[s] = "ended" => server[s] \in {"none", "down"} /\ monitor[s] \in {"none", "ended"}
    /\ thread[s] \in {"connect", "call", "answer"} => s # Backbon
    /\ s \in registered => thread[s] \in {"wait", "ended"}

ThreadsOK == \A s \in Services : ThreadOK(s)

(* Where main is tells which services have a thread: those started so far   *)
(* and, on the way out, those not yet destroyed.                            *)
PlaceOK(i) ==
    /\ main.phase = "start" => (thread[Order[i]] = "none" <=> i >= main.at)
    /\ main.phase \in {"poll", "sleep"} => (thread[Order[i]] = "none" <=> i > 1)
    /\ main.phase \in {"wait", "serve"} => thread[Order[i]] # "none"
    /\ main.phase = "leave" =>
        IF i <= main.at THEN thread[Order[i]] # "none"
        ELSE thread[Order[i]] \in {"none", "ended"}
    /\ main.phase = "returned" => thread[Order[i]] \in {"none", "ended"}
    /\ Order[i] \in gone => main.phase \in {"leave", "returned"} /\ i >= main.at
    /\ Order[i] \in destroyed => thread[Order[i]] = "ended"

PlacesOK ==
    /\ \A i \in 1 .. Len(Order) : PlaceOK(i)
    /\ main.phase \in {"poll", "sleep", "returned"} => main.at = 1
    /\ main.phase = "wait" => main.at > 1
    /\ main.phase = "serve" => main.at = Len(Order)

(* BackbonService is up and stays up as long as main is at another service. *)
BackbonOK ==
    /\ main.at > 1 => thread[Backbon] = "wait"
    /\ (main.at > 1 \/ main.phase \notin {"leave", "returned"}) =>
        /\ Backbon \notin shouldStop
        /\ thread[Backbon] \in {"mark", "wait"} => server[Backbon] = "up"

(* A call needs a server, and a registration call its caller.               *)
CallsOK ==
    /\ Backbon \notin client
    /\ \A s \in Services :
        /\ server[s] \in {"none", "down"} => calls[s] = {}
        /\ Register(s) \in calls[Backbon] => thread[s] = "answer"
        /\ Unregister(s) \in calls[Backbon] =>
            Dying /\ Current = s /\ step = "unregistering" /\ s # Backbon

(* The destructors: what is left of the current service at each step.       *)
StepOK ==
    /\ step = "none" <=> ~Dying
    /\ Dying =>
        /\ step \in {"own", "members"} => Current \notin gone
        /\ step = "join" => Current \in gone
        /\ step \in {"stop"} \cup InStop /\ Current \notin gone => Current \in StopsFirst
        /\ step \in InStop => thread[Current] \notin {"none", "build", "mark"}
        /\ step = "members" /\ Current \in StopsFirst =>
            thread[Current] = "ended" \/ Current \in hasty.early
    /\ \A s \in StopsFirst \cap gone : thread[s] = "ended" \/ s \in hasty.early

(* What main has waited for is registered, or remembered as not.            *)
WaitedOK ==
    \A i \in 2 .. Len(Order) :
        \/ main.phase = "wait" /\ i < main.at
        \/ main.phase \in {"serve", "leave", "returned"}
        => Order[i] \in registered \cup hasty.unregistered \/ thread[Order[i]] = "none"

Inv == TypeOK /\ ThreadsOK /\ PlacesOK /\ BackbonOK /\ CallsOK /\ StepOK /\ WaitedOK

-----------------------------------------------------------------------------
LEMMA OrderFacts ==
    /\ Len(Order) \in Nat /\ Len(Order) >= 1
    /\ \A i \in 1 .. Len(Order) : Order[i] \in Services
    /\ \A s \in Services : \E i \in 1 .. Len(Order) : s = Order[i]
    /\ \A i, j \in 1 .. Len(Order) : Order[i] = Order[j] => i = j
    /\ Backbon \in Services
  BY OrderAssumption DEF Services, Backbon

(* While main is at BackbonService no other service has a thread.           *)
LEMMA OthersQuiet ==
    ASSUME TypeOK, PlacesOK, main.at = 1, NEW s \in Services, s # Backbon
    PROVE  thread[s] \in {"none", "ended"}
<1>1. PICK i \in 1 .. Len(Order) : s = Order[i] BY OrderFacts
<1>2. i > 1 BY <1>1, OrderFacts DEF Backbon
<1> QED BY <1>1, <1>2, OrderFacts DEF TypeOK, Phases, PlacesOK, PlaceOK

LEMMA CurrentFacts ==
    ASSUME TypeOK
    PROVE  Current \in Services /\ (Current = Backbon <=> main.at = 1)
  BY OrderFacts DEF TypeOK, Current, Backbon

(* A step of main.                                                          *)
LEMMA MainMoves ==
    ASSUME TypeOK, NEW p \in Phases, NEW a \in 1 .. Len(Order), NEW n \in 0 .. Polls,
           main' = [main EXCEPT !.phase = p, !.at = a, !.polls = n]
    PROVE  /\ main'.phase = p /\ main'.at = a
           /\ main' \in [phase : Phases, at : 1 .. Len(Order), polls : 0 .. Polls]
  BY DEF TypeOK

LEMMA InitInv == Init => Inv
<1> SUFFICES ASSUME Init PROVE Inv OBVIOUS
<1> USE OrderFacts DEF Init
<1>1. TypeOK BY DEF TypeOK, Polls, Phases, Call
<1>2. ThreadsOK BY DEF ThreadsOK, ThreadOK
<1>3. PlacesOK BY DEF PlacesOK, PlaceOK
<1>4. BackbonOK BY DEF BackbonOK
<1>5. CallsOK BY DEF CallsOK
<1>6. StepOK BY DEF StepOK, Dying
<1>7. WaitedOK BY DEF WaitedOK
<1> QED BY <1>1, <1>2, <1>3, <1>4, <1>5, <1>6, <1>7 DEF Inv

(* main, up to the gateway.                                                 *)
LEMMA StartupKeeps ==
    ASSUME Inv, Start \/ PollBackbon \/ EndSleep \/ WaitForEtcdRegistration \/ EndServing \/ Throw
    PROVE  Inv'
<1> USE OrderFacts DEF mainVars, threadVars, clientVars, objectVars, Dying, Current, InStop
<1>0. TypeOK /\ ThreadsOK /\ PlacesOK /\ BackbonOK /\ CallsOK /\ StepOK /\ WaitedOK
  BY DEF Inv
<1>c. Current \in Services /\ (Current = Backbon <=> main.at = 1) BY <1>0, CurrentFacts
<1>m. main.phase \in Phases /\ main.at \in 1 .. Len(Order) /\ main.polls \in 0 .. Polls
  BY <1>0 DEF TypeOK
<1>1. CASE Start
  <2>0. /\ main.phase = "start" /\ state[Current] = "stopped"
        /\ IF main.at = 1 THEN main'.phase = "poll" /\ main'.at = 1
           ELSE IF main.at < Len(Order) THEN main'.phase = "start" /\ main'.at = main.at + 1
           ELSE main'.phase = "wait" /\ main'.at = 2
        /\ state' = [state EXCEPT ![Current] = "starting"]
        /\ thread' = [thread EXCEPT ![Current] = "build"]
        /\ shouldStop' = shouldStop \ {Current}
        /\ UNCHANGED <<step, monitor, server, calls, clientVars, objectVars, hasty>>
        /\ main' \in [phase : Phases, at : 1 .. Len(Order), polls : 0 .. Polls]
    <3>1. CASE main.at = 1
      <4>1. "poll" \in Phases /\ main.at \in 1 .. Len(Order) /\ main.polls \in 0 .. Polls
        BY <1>0, <1>c, <1>m, <1>1, <3>1 DEF Phases, Polls, PlacesOK, Start
      <4>2. main' = [main EXCEPT !.phase = "poll", !.at = main.at, !.polls = main.polls]
        BY <1>0, <1>c, <1>1, <3>1 DEF Start, TypeOK
      <4>3. main'.phase = "poll" /\ main'.at = main.at
            /\ main' \in [phase : Phases, at : 1 .. Len(Order), polls : 0 .. Polls]
        BY <1>0, <4>1, <4>2, MainMoves
      <4> QED BY <1>0, <1>c, <1>1, <3>1, <4>3 DEF Start, PlacesOK
    <3>2. CASE main.at # 1 /\ main.at < Len(Order)
      <4>1. main.phase \in Phases /\ main.at + 1 \in 1 .. Len(Order) /\ main.polls \in 0 .. Polls
        BY <1>0, <1>c, <1>m, <1>1, <3>2 DEF Phases, Polls, PlacesOK, Start
      <4>2. main' = [main EXCEPT !.phase = main.phase, !.at = main.at + 1, !.polls = main.polls]
        BY <1>0, <1>c, <1>1, <3>2 DEF Start, TypeOK
      <4>3. main'.phase = main.phase /\ main'.at = main.at + 1
            /\ main' \in [phase : Phases, at : 1 .. Len(Order), polls : 0 .. Polls]
        BY <1>0, <4>1, <4>2, MainMoves
      <4> QED BY <1>0, <1>c, <1>1, <3>2, <4>3 DEF Start, PlacesOK
    <3>3. CASE main.at # 1 /\ ~(main.at < Len(Order))
      <4>1. "wait" \in Phases /\ 2 \in 1 .. Len(Order) /\ main.polls \in 0 .. Polls
        BY <1>0, <1>c, <1>m, <1>1, <3>3 DEF Phases, Polls, PlacesOK, Start
      <4>2. main' = [main EXCEPT !.phase = "wait", !.at = 2, !.polls = main.polls]
        BY <1>0, <1>c, <1>1, <3>3 DEF Start, TypeOK
      <4>3. main'.phase = "wait" /\ main'.at = 2
            /\ main' \in [phase : Phases, at : 1 .. Len(Order), polls : 0 .. Polls]
        BY <1>0, <4>1, <4>2, MainMoves
      <4> QED BY <1>0, <1>c, <1>1, <3>3, <4>3 DEF Start, PlacesOK
    <3> QED BY <1>m, <3>1, <3>2, <3>3
  <2>1. TypeOK'
    BY <1>0, <1>c, <2>0 DEF TypeOK
  <2>2. ThreadsOK'
    <3>1. thread[Current] = "none" /\ gone = {}
      BY <1>0, <1>c, <2>0 DEF TypeOK, PlacesOK, PlaceOK
    <3>2. ASSUME NEW t \in Services PROVE ThreadOK(t)'
      <4>1. CASE t = Current
        <5>1. /\ server[t] = "none" /\ monitor[t] = "none" /\ t \notin registered
          BY <1>0, <1>c, <3>1, <4>1 DEF ThreadsOK, ThreadOK
        <5>2. thread'[t] = "build" /\ state'[t] = "starting"
          BY <1>0, <2>0, <4>1 DEF TypeOK
        <5> QED BY <2>0, <5>1, <5>2 DEF ThreadOK
      <4>2. CASE t # Current
        BY <1>0, <1>c, <2>0, <4>2 DEF TypeOK, ThreadsOK, ThreadOK
      <4> QED BY <4>1, <4>2
    <3> QED BY <3>2 DEF ThreadsOK
  <2>3. PlacesOK'
    BY <1>0, <1>c, <2>0 DEF TypeOK, PlacesOK, PlaceOK, ThreadsOK, ThreadOK
  <2>4. BackbonOK'
    BY <1>0, <1>c, <2>0 DEF TypeOK, BackbonOK, ThreadsOK, ThreadOK
  <2>5. CallsOK'
    BY <1>0, <1>c, <2>0 DEF TypeOK, CallsOK, BackbonOK, ThreadsOK, ThreadOK
  <2>6. StepOK'
    <3>1. gone = {}
      BY <1>0, <2>0 DEF TypeOK, PlacesOK, PlaceOK
    <3> QED BY <1>0, <1>c, <2>0, <3>1 DEF TypeOK, StepOK
  <2>7. WaitedOK'
    BY <1>0, <1>c, <2>0 DEF TypeOK, WaitedOK, PlacesOK, PlaceOK
  <2> QED BY <2>1, <2>2, <2>3, <2>4, <2>5, <2>6, <2>7 DEF Inv
<1>2. CASE PollBackbon
  <2>0. /\ main.phase = "poll"
        /\ IF state[Backbon] # "running" THEN main'.phase = "sleep" /\ main'.at = main.at
           ELSE IF Len(Order) > 1 THEN main'.phase = "start" /\ main'.at = 2
           ELSE main'.phase = "serve" /\ main'.at = main.at
        /\ UNCHANGED <<step, state, shouldStop, threadVars, server, calls, clientVars,
                       objectVars, hasty>>
        /\ main' \in [phase : Phases, at : 1 .. Len(Order), polls : 0 .. Polls]
    <3>1. CASE state[Backbon] # "running"
      <4>1. "sleep" \in Phases /\ main.at \in 1 .. Len(Order) /\ main.polls \in 0 .. Polls
        BY <1>0, <1>c, <1>m, <1>2, <3>1 DEF Phases, Polls, PlacesOK, PollBackbon
      <4>2. main' = [main EXCEPT !.phase = "sleep", !.at = main.at, !.polls = main.polls]
        BY <1>0, <1>c, <1>2, <3>1 DEF PollBackbon, TypeOK
      <4>3. main'.phase = "sleep" /\ main'.at = main.at
            /\ main' \in [phase : Phases, at : 1 .. Len(Order), polls : 0 .. Polls]
        BY <1>0, <4>1, <4>2, MainMoves
      <4> QED BY <1>0, <1>c, <1>2, <3>1, <4>3 DEF PollBackbon, PlacesOK
    <3>2. CASE state[Backbon] = "running" /\ Len(Order) > 1
      <4>1. "start" \in Phases /\ 2 \in 1 .. Len(Order) /\ main.polls \in 0 .. Polls
        BY <1>0, <1>c, <1>m, <1>2, <3>2 DEF Phases, Polls, PlacesOK, PollBackbon
      <4>2. main' = [main EXCEPT !.phase = "start", !.at = 2, !.polls = main.polls]
        BY <1>0, <1>c, <1>2, <3>2 DEF PollBackbon, TypeOK
      <4>3. main'.phase = "start" /\ main'.at = 2
            /\ main' \in [phase : Phases, at : 1 .. Len(Order), polls : 0 .. Polls]
        BY <1>0, <4>1, <4>2, MainMoves
      <4> QED BY <1>0, <1>c, <1>2, <3>2, <4>3 DEF PollBackbon, PlacesOK
    <3>3. CASE state[Backbon] = "running" /\ ~(Len(Order) > 1)
      <4>1. "serve" \in Phases /\ main.at \in 1 .. Len(Order) /\ main.polls \in 0 .. Polls
        BY <1>0, <1>c, <1>m, <1>2, <3>3 DEF Phases, Polls, PlacesOK, PollBackbon
      <4>2. main' = [main EXCEPT !.phase = "serve", !.at = main.at, !.polls = main.polls]
        BY <1>0, <1>c, <1>2, <3>3 DEF PollBackbon, TypeOK
      <4>3. main'.phase = "serve" /\ main'.at = main.at
            /\ main' \in [phase : Phases, at : 1 .. Len(Order), polls : 0 .. Polls]
        BY <1>0, <4>1, <4>2, MainMoves
      <4> QED BY <1>0, <1>c, <1>2, <3>3, <4>3 DEF PollBackbon, PlacesOK
    <3> QED BY <1>m, <3>1, <3>2, <3>3
  <2>1. TypeOK'
    BY <1>0, <1>c, <2>0 DEF TypeOK
  <2>2. ThreadsOK'
    BY <1>0, <1>c, <2>0 DEF TypeOK, ThreadsOK, ThreadOK
  <2>3. PlacesOK'
    BY <1>0, <1>c, <2>0 DEF TypeOK, PlacesOK, PlaceOK, ThreadsOK, ThreadOK
  <2>4. BackbonOK'
    BY <1>0, <1>c, <2>0 DEF TypeOK, BackbonOK, ThreadsOK, ThreadOK
  <2>5. CallsOK'
    BY <1>0, <1>c, <2>0 DEF TypeOK, CallsOK, BackbonOK, ThreadsOK, ThreadOK
  <2>6. StepOK'
    BY <1>0, <1>c, <2>0 DEF TypeOK, StepOK
  <2>7. WaitedOK'
    BY <1>0, <1>c, <2>0 DEF TypeOK, WaitedOK, PlacesOK, PlaceOK
  <2> QED BY <2>1, <2>2, <2>3, <2>4, <2>5, <2>6, <2>7 DEF Inv
<1>3. CASE EndSleep
  <2>0. /\ main.phase = "sleep" /\ main.at = 1 /\ main'.at = 1
        /\ \/ main'.phase = "poll" /\ UNCHANGED step
           \/ main'.phase = "leave" /\ step' = "own"
        /\ UNCHANGED <<state, shouldStop, threadVars, server, calls, clientVars,
                       objectVars, hasty>>
        /\ main' \in [phase : Phases, at : 1 .. Len(Order), polls : 0 .. Polls]
    <3>1. CASE main.polls + 1 < Polls
      <4>1. "poll" \in Phases /\ main.at \in 1 .. Len(Order) /\ main.polls + 1 \in 0 .. Polls
        BY <1>0, <1>c, <1>m, <1>3, <3>1 DEF Phases, Polls, PlacesOK, EndSleep, Leave
      <4>2. main' = [main EXCEPT !.phase = "poll", !.at = main.at, !.polls = main.polls + 1]
        <5>1. main' = [main EXCEPT !.phase = "poll", !.polls = main.polls + 1]
          BY <1>0, <1>3, <3>1 DEF EndSleep, TypeOK
        <5> QED BY <1>0, <5>1 DEF TypeOK
      <4>3. main'.phase = "poll" /\ main'.at = main.at
            /\ main' \in [phase : Phases, at : 1 .. Len(Order), polls : 0 .. Polls]
        BY <1>0, <4>1, <4>2, MainMoves
      <4> QED BY <1>0, <1>c, <1>3, <3>1, <4>3 DEF EndSleep, Leave, PlacesOK
    <3>2. CASE ~(main.polls + 1 < Polls)
      <4>1. "leave" \in Phases /\ 1 \in 1 .. Len(Order) /\ main.polls \in 0 .. Polls
        BY <1>0, <1>c, <1>m, <1>3, <3>2 DEF Phases, Polls, PlacesOK, EndSleep, Leave
      <4>2. main' = [main EXCEPT !.phase = "leave", !.at = 1, !.polls = main.polls]
        <5>1. main' = [main EXCEPT !.phase = "leave", !.at = 1]
          BY <1>3, <3>2 DEF EndSleep, Leave
        <5> QED BY <1>0, <5>1 DEF TypeOK
      <4>3. main'.phase = "leave" /\ main'.at = 1
            /\ main' \in [phase : Phases, at : 1 .. Len(Order), polls : 0 .. Polls]
        BY <1>0, <4>1, <4>2, MainMoves
      <4> QED BY <1>0, <1>c, <1>3, <3>2, <4>3 DEF EndSleep, Leave, PlacesOK
    <3> QED BY <1>m, <3>1, <3>2
  <2>1. TypeOK'
    BY <1>0, <1>c, <2>0 DEF TypeOK
  <2>2. ThreadsOK'
    BY <1>0, <1>c, <2>0 DEF TypeOK, ThreadsOK, ThreadOK
  <2>3. PlacesOK'
    BY <1>0, <1>c, <2>0 DEF TypeOK, PlacesOK, PlaceOK, ThreadsOK, ThreadOK
  <2>4. BackbonOK'
    BY <1>0, <1>c, <2>0 DEF TypeOK, BackbonOK, ThreadsOK, ThreadOK
  <2>5. CallsOK'
    BY <1>0, <1>c, <2>0 DEF TypeOK, CallsOK, BackbonOK, ThreadsOK, ThreadOK
  <2>6. StepOK'
    <3>1. Current' \notin gone
      BY <1>0, <2>0 DEF TypeOK, PlacesOK, PlaceOK
    <3> QED BY <1>0, <2>0, <3>1 DEF TypeOK, StepOK
  <2>7. WaitedOK'
    BY <1>0, <1>c, <2>0 DEF TypeOK, WaitedOK, PlacesOK, PlaceOK
  <2> QED BY <2>1, <2>2, <2>3, <2>4, <2>5, <2>6, <2>7 DEF Inv
<1>4. CASE WaitForEtcdRegistration
  <2>0. /\ main.phase = "wait"
        /\ IF main.at < Len(Order) THEN main'.phase = "wait" /\ main'.at = main.at + 1
           ELSE main'.phase = "serve" /\ main'.at = main.at
        /\ \/ hasty' = hasty /\ Current \in registered
           \/ hasty' = [hasty EXCEPT !.unregistered = @ \cup {Current}]
        /\ UNCHANGED <<step, state, shouldStop, threadVars, server, calls, clientVars,
                       objectVars>>
        /\ main' \in [phase : Phases, at : 1 .. Len(Order), polls : 0 .. Polls]
    <3>1. CASE main.at < Len(Order)
      <4>1. main.phase \in Phases /\ main.at + 1 \in 1 .. Len(Order) /\ main.polls \in 0 .. Polls
        BY <1>0, <1>c, <1>m, <1>4, <3>1 DEF Phases, Polls, PlacesOK,
           WaitForEtcdRegistration, WaitNext
      <4>2. main' = [main EXCEPT !.phase = main.phase, !.at = main.at + 1, !.polls = main.polls]
        BY <1>0, <1>c, <1>4, <3>1 DEF WaitForEtcdRegistration, WaitNext, TypeOK
      <4>3. main'.phase = main.phase /\ main'.at = main.at + 1
            /\ main' \in [phase : Phases, at : 1 .. Len(Order), polls : 0 .. Polls]
        BY <1>0, <4>1, <4>2, MainMoves
      <4> QED
        BY <1>0, <1>c, <1>4, <3>1, <4>3 DEF WaitForEtcdRegistration, WaitNext, PlacesOK
    <3>2. CASE ~(main.at < Len(Order))
      <4>1. "serve" \in Phases /\ main.at \in 1 .. Len(Order) /\ main.polls \in 0 .. Polls
        BY <1>0, <1>c, <1>m, <1>4, <3>2 DEF Phases, Polls, PlacesOK,
           WaitForEtcdRegistration, WaitNext
      <4>2. main' = [main EXCEPT !.phase = "serve", !.at = main.at, !.polls = main.polls]
        BY <1>0, <1>c, <1>4, <3>2 DEF WaitForEtcdRegistration, WaitNext, TypeOK
      <4>3. main'.phase = "serve" /\ main'.at = main.at
            /\ main' \in [phase : Phases, at : 1 .. Len(Order), polls : 0 .. Polls]
        BY <1>0, <4>1, <4>2, MainMoves
      <4> QED
        BY <1>0, <1>c, <1>4, <3>2, <4>3 DEF WaitForEtcdRegistration, WaitNext, PlacesOK
    <3> QED BY <1>m, <3>1, <3>2
  <2>1. TypeOK'
    <3>1. hasty' \in [early : SUBSET Services, unregistered : SUBSET Services]
      <4>1. hasty \in [early : SUBSET Services, unregistered : SUBSET Services]
        BY <1>0 DEF TypeOK
      <4>2. CASE hasty' = [hasty EXCEPT !.unregistered = @ \cup {Current}]
        <5>1. hasty.unregistered \cup {Current} \in SUBSET Services BY <1>c, <4>1
        <5>2. hasty' = [hasty EXCEPT !.unregistered = hasty.unregistered \cup {Current}]
          BY <4>1, <4>2
        <5> QED BY <4>1, <5>1, <5>2
      <4> QED BY <2>0, <4>1, <4>2
    <3> QED BY <1>0, <2>0, <3>1 DEF TypeOK
  <2>2. ThreadsOK'
    BY <1>0, <1>c, <2>0 DEF TypeOK, ThreadsOK, ThreadOK
  <2>3. PlacesOK'
    BY <1>0, <1>c, <2>0 DEF TypeOK, PlacesOK, PlaceOK, ThreadsOK, ThreadOK
  <2>4. BackbonOK'
    BY <1>0, <2>0 DEF PlacesOK, BackbonOK
  <2>5. CallsOK'
    BY <1>0, <1>c, <2>0 DEF TypeOK, CallsOK, BackbonOK, ThreadsOK, ThreadOK
  <2>6. StepOK'
    BY <1>0, <1>c, <2>0 DEF TypeOK, StepOK
  <2>7. WaitedOK'
    BY <1>0, <1>c, <2>0 DEF TypeOK, WaitedOK, PlacesOK, PlaceOK
  <2> QED BY <2>1, <2>2, <2>3, <2>4, <2>5, <2>6, <2>7 DEF Inv
<1>5. CASE EndServing
  <2>0. /\ main.phase = "serve" /\ main.at = Len(Order) /\ main'.at = Len(Order)
        /\ main'.phase = "leave" /\ step' = "own"
        /\ UNCHANGED <<state, shouldStop, threadVars, server, calls, clientVars,
                       objectVars, hasty>>
        /\ main' \in [phase : Phases, at : 1 .. Len(Order), polls : 0 .. Polls]
    <3>1. "leave" \in Phases /\ Len(Order) \in 1 .. Len(Order) /\ main.polls \in 0 .. Polls
      BY <1>0, <1>c, <1>m, <1>5 DEF Phases, PlacesOK, EndServing, Leave
    <3>2. main' = [main EXCEPT !.phase = "leave", !.at = Len(Order), !.polls = main.polls]
      BY <1>0, <1>5 DEF EndServing, Leave, TypeOK
    <3>3. main'.phase = "leave" /\ main'.at = Len(Order)
          /\ main' \in [phase : Phases, at : 1 .. Len(Order), polls : 0 .. Polls]
      BY <1>0, <3>1, <3>2, MainMoves
    <3> QED BY <1>0, <1>c, <1>5, <3>3 DEF EndServing, Leave, PlacesOK
  <2>1. TypeOK'
    BY <1>0, <1>c, <2>0 DEF TypeOK
  <2>2. ThreadsOK'
    BY <1>0, <1>c, <2>0 DEF TypeOK, ThreadsOK, ThreadOK
  <2>3. PlacesOK'
    BY <1>0, <1>c, <2>0 DEF TypeOK, PlacesOK, PlaceOK, ThreadsOK, ThreadOK
  <2>4. BackbonOK'
    BY <1>0, <1>c, <2>0 DEF TypeOK, BackbonOK, ThreadsOK, ThreadOK
  <2>5. CallsOK'
    BY <1>0, <1>c, <2>0 DEF TypeOK, CallsOK, BackbonOK, ThreadsOK, ThreadOK
  <2>6. StepOK'
    <3>1. Current' \notin gone
      BY <1>0, <2>0 DEF TypeOK, PlacesOK, PlaceOK
    <3> QED BY <1>0, <2>0, <3>1 DEF TypeOK, StepOK
  <2>7. WaitedOK'
    BY <1>0, <1>c, <2>0 DEF TypeOK, WaitedOK, PlacesOK, PlaceOK
  <2> QED BY <2>1, <2>2, <2>3, <2>4, <2>5, <2>6, <2>7 DEF Inv
<1>6. CASE Throw
  <2>0. /\ main.phase = "start" /\ main.at > 1 /\ main'.at = main.at - 1
        /\ main'.phase = "leave" /\ step' = "own"
        /\ hasty' = [hasty EXCEPT !.unregistered = Services]
        /\ UNCHANGED <<state, shouldStop, threadVars, server, calls, clientVars,
                       objectVars>>
        /\ main' \in [phase : Phases, at : 1 .. Len(Order), polls : 0 .. Polls]
    <3>1. "leave" \in Phases /\ main.at - 1 \in 1 .. Len(Order) /\ main.polls \in 0 .. Polls
      BY <1>0, <1>c, <1>m, <1>6 DEF Phases, PlacesOK, Throw, Leave
    <3>2. main' = [main EXCEPT !.phase = "leave", !.at = main.at - 1, !.polls = main.polls]
      BY <1>0, <1>6 DEF Throw, Leave, TypeOK
    <3>3. main'.phase = "leave" /\ main'.at = main.at - 1
          /\ main' \in [phase : Phases, at : 1 .. Len(Order), polls : 0 .. Polls]
      BY <1>0, <3>1, <3>2, MainMoves
    <3> QED BY <1>0, <1>c, <1>6, <3>3 DEF Throw, Leave, PlacesOK
  <2>1. TypeOK'
    BY <1>0, <1>c, <2>0 DEF TypeOK
  <2>2. ThreadsOK'
    BY <1>0, <1>c, <2>0 DEF TypeOK, ThreadsOK, ThreadOK
  <2>3. PlacesOK'
    BY <1>0, <1>c, <2>0 DEF TypeOK, PlacesOK, PlaceOK, ThreadsOK, ThreadOK
  <2>4. BackbonOK'
    BY <1>0, <1>c, <2>0 DEF TypeOK, BackbonOK, ThreadsOK, ThreadOK
  <2>5. CallsOK'
    BY <1>0, <1>c, <2>0 DEF TypeOK, CallsOK, BackbonOK, ThreadsOK, ThreadOK
  <2>6. StepOK'
    <3>1. Current' \notin gone
      BY <1>0, <2>0 DEF TypeOK, PlacesOK, PlaceOK
    <3> QED BY <1>0, <2>0, <3>1 DEF TypeOK, StepOK
  <2>7. WaitedOK'
    BY <1>0, <1>c, <2>0 DEF TypeOK, WaitedOK, PlacesOK, PlaceOK
  <2> QED BY <2>1, <2>2, <2>3, <2>4, <2>5, <2>6, <2>7 DEF Inv
<1> QED BY <1>1, <1>2, <1>3, <1>4, <1>5, <1>6

(* RunServer and its monitor.                                               *)
LEMMA RunServerKeeps ==
    ASSUME Inv, NEW s \in Services, RunServer(s)
    PROVE  Inv'
<1> USE OrderFacts DEF mainVars, threadVars, clientVars, objectVars, Dying, Current
<1>0. TypeOK /\ ThreadsOK /\ PlacesOK /\ BackbonOK /\ CallsOK /\ StepOK /\ WaitedOK
  BY DEF Inv
<1>c. Current \in Services /\ (Current = Backbon <=> main.at = 1) BY <1>0, CurrentFacts
<1>m. main.phase \in Phases /\ main.at \in 1 .. Len(Order) /\ main.polls \in 0 .. Polls
  BY <1>0 DEF TypeOK
<1>1. CASE Build(s)
  <2>1. TypeOK'
    BY <1>0, <1>c, <1>1 DEF TypeOK, Build
  <2>2. ThreadsOK'
    BY <1>0, <1>c, <1>1 DEF TypeOK, ThreadsOK, ThreadOK, Build
  <2>3. PlacesOK'
    BY <1>0, <1>c, <1>1 DEF TypeOK, PlacesOK, PlaceOK, ThreadsOK, ThreadOK, Build
  <2>4. BackbonOK'
    BY <1>0, <1>c, <1>1 DEF TypeOK, BackbonOK, ThreadsOK, ThreadOK, Build
  <2>5. CallsOK'
    BY <1>0, <1>c, <1>1 DEF TypeOK, CallsOK, BackbonOK, ThreadsOK, ThreadOK, Build
  <2>6. StepOK'
    BY <1>0, <1>c, <1>1 DEF TypeOK, StepOK, Build
  <2>7. WaitedOK'
    BY <1>0, <1>c, <1>1 DEF TypeOK, WaitedOK, PlacesOK, PlaceOK, Build
  <2> QED BY <2>1, <2>2, <2>3, <2>4, <2>5, <2>6, <2>7 DEF Inv
<1>2. CASE BuildFails(s)
  <2>1. TypeOK'
    BY <1>0, <1>c, <1>2 DEF TypeOK, BuildFails
  <2>2. ThreadsOK'
    BY <1>0, <1>c, <1>2 DEF TypeOK, ThreadsOK, ThreadOK, BuildFails
  <2>3. PlacesOK'
    BY <1>0, <1>c, <1>2 DEF TypeOK, PlacesOK, PlaceOK, ThreadsOK, ThreadOK, BuildFails
  <2>4. BackbonOK'
    BY <1>0, <1>c, <1>2 DEF TypeOK, BackbonOK, ThreadsOK, ThreadOK, BuildFails
  <2>5. CallsOK'
    BY <1>0, <1>c, <1>2 DEF TypeOK, CallsOK, BackbonOK, ThreadsOK, ThreadOK, BuildFails
  <2>6. StepOK'
    BY <1>0, <1>c, <1>2 DEF TypeOK, StepOK, BuildFails
  <2>7. WaitedOK'
    BY <1>0, <1>c, <1>2 DEF TypeOK, WaitedOK, PlacesOK, PlaceOK, BuildFails
  <2> QED BY <2>1, <2>2, <2>3, <2>4, <2>5, <2>6, <2>7 DEF Inv
<1>3. CASE MarkRunning(s)
  <2>1. TypeOK'
    BY <1>0, <1>c, <1>3 DEF TypeOK, MarkRunning
  <2>2. ThreadsOK'
    BY <1>0, <1>c, <1>3 DEF TypeOK, ThreadsOK, ThreadOK, MarkRunning
  <2>3. PlacesOK'
    BY <1>0, <1>c, <1>3 DEF TypeOK, PlacesOK, PlaceOK, ThreadsOK, ThreadOK, MarkRunning
  <2>4. BackbonOK'
    BY <1>0, <1>c, <1>3 DEF TypeOK, BackbonOK, ThreadsOK, ThreadOK, MarkRunning
  <2>5. CallsOK'
    BY <1>0, <1>c, <1>3 DEF TypeOK, CallsOK, BackbonOK, ThreadsOK, ThreadOK, MarkRunning
  <2>6. StepOK'
    BY <1>0, <1>c, <1>3 DEF TypeOK, StepOK, MarkRunning
  <2>7. WaitedOK'
    BY <1>0, <1>c, <1>3 DEF TypeOK, WaitedOK, PlacesOK, PlaceOK, MarkRunning
  <2> QED BY <2>1, <2>2, <2>3, <2>4, <2>5, <2>6, <2>7 DEF Inv
<1>4. CASE MakeClient(s)
  <2>1. TypeOK'
    BY <1>0, <1>c, <1>4 DEF TypeOK, MakeClient
  <2>2. ThreadsOK'
    BY <1>0, <1>c, <1>4 DEF TypeOK, ThreadsOK, ThreadOK, MakeClient
  <2>3. PlacesOK'
    BY <1>0, <1>c, <1>4 DEF TypeOK, PlacesOK, PlaceOK, ThreadsOK, ThreadOK, MakeClient
  <2>4. BackbonOK'
    BY <1>0, <1>c, <1>4 DEF TypeOK, BackbonOK, ThreadsOK, ThreadOK, MakeClient
  <2>5. CallsOK'
    BY <1>0, <1>c, <1>4 DEF TypeOK, CallsOK, BackbonOK, ThreadsOK, ThreadOK, MakeClient
  <2>6. StepOK'
    BY <1>0, <1>c, <1>4 DEF TypeOK, StepOK, MakeClient
  <2>7. WaitedOK'
    BY <1>0, <1>c, <1>4 DEF TypeOK, WaitedOK, PlacesOK, PlaceOK, MakeClient
  <2> QED BY <2>1, <2>2, <2>3, <2>4, <2>5, <2>6, <2>7 DEF Inv
<1>5. CASE CallRegister(s)
  <2>1. TypeOK'
    <3>1. calls' \in [Services -> SUBSET Call]
      <4>1. Register(s) \in Call BY DEF Call
      <4> QED BY <1>0, <4>1, <1>5 DEF TypeOK, CallRegister
    <3>2. thread' \in [Services -> {"none", "build", "mark", "connect", "call", "answer",
                                    "wait", "ended"}]
      BY <1>0, <1>5 DEF TypeOK, CallRegister
    <3> QED BY <1>0, <1>5, <3>1, <3>2 DEF TypeOK, CallRegister
  <2>2. ThreadsOK'
    BY <1>0, <1>c, <1>5 DEF TypeOK, ThreadsOK, ThreadOK, CallRegister
  <2>3. PlacesOK'
    BY <1>0, <1>c, <1>5 DEF TypeOK, PlacesOK, PlaceOK, ThreadsOK, ThreadOK, CallRegister
  <2>4. BackbonOK'
    BY <1>0, <1>c, <1>5 DEF TypeOK, BackbonOK, ThreadsOK, ThreadOK, CallRegister
  <2>5. CallsOK'
    <3>1. s # Backbon /\ server[Backbon] = "up"
      BY <1>0, <1>5, OthersQuiet DEF TypeOK, ThreadsOK, ThreadOK, BackbonOK, CallRegister
    <3>2. ASSUME NEW t \in Services
          PROVE  /\ server'[t] \in {"none", "down"} => calls'[t] = {}
                 /\ Unregister(t) \in calls'[Backbon] <=> Unregister(t) \in calls[Backbon]
                 /\ Register(t) \in calls'[Backbon] => thread'[t] = "answer"
      <4>1. Register(s) # Unregister(t) /\ (Register(t) = Register(s) => t = s)
        BY DEF Register, Unregister
      <4> QED BY <1>0, <1>5, <3>1, <4>1 DEF TypeOK, CallsOK, CallRegister
    <3> QED BY <1>0, <1>5, <3>2 DEF CallsOK, CallRegister
  <2>6. StepOK'
    BY <1>0, <1>c, <1>5 DEF TypeOK, StepOK, CallRegister
  <2>7. WaitedOK'
    BY <1>0, <1>c, <1>5 DEF TypeOK, WaitedOK, PlacesOK, PlaceOK, CallRegister
  <2> QED BY <2>1, <2>2, <2>3, <2>4, <2>5, <2>6, <2>7 DEF Inv
<1>6. CASE Answered(s)
  <2>1. TypeOK'
    BY <1>0, <1>c, <1>6 DEF TypeOK, Answered
  <2>2. ThreadsOK'
    BY <1>0, <1>c, <1>6 DEF TypeOK, ThreadsOK, ThreadOK, Answered
  <2>3. PlacesOK'
    BY <1>0, <1>c, <1>6 DEF TypeOK, PlacesOK, PlaceOK, ThreadsOK, ThreadOK, Answered
  <2>4. BackbonOK'
    BY <1>0, <1>c, <1>6 DEF TypeOK, BackbonOK, ThreadsOK, ThreadOK, Answered
  <2>5. CallsOK'
    BY <1>0, <1>c, <1>6 DEF TypeOK, CallsOK, BackbonOK, ThreadsOK, ThreadOK, Answered
  <2>6. StepOK'
    BY <1>0, <1>c, <1>6 DEF TypeOK, StepOK, Answered
  <2>7. WaitedOK'
    BY <1>0, <1>c, <1>6 DEF TypeOK, WaitedOK, PlacesOK, PlaceOK, Answered
  <2> QED BY <2>1, <2>2, <2>3, <2>4, <2>5, <2>6, <2>7 DEF Inv
<1>7. CASE MonitorShutdown(s)
  <2>1. TypeOK'
    <3>1. /\ server' \in [Services -> {"none", "up", "closing", "down"}]
          /\ monitor' \in [Services -> {"none", "watch", "shutting", "ended"}]
      <4>1. CASE server[s] = "up"
        <5>1. /\ server' = [server EXCEPT ![s] = "closing"]
              /\ monitor' = [monitor EXCEPT ![s] = "shutting"]
          BY <1>7, <4>1 DEF MonitorShutdown
        <5> QED BY <1>0, <5>1 DEF TypeOK
      <4>2. CASE server[s] # "up"
        <5>1. server' = server /\ monitor' = [monitor EXCEPT ![s] = "ended"]
          BY <1>7, <4>2 DEF MonitorShutdown
        <5> QED BY <1>0, <5>1 DEF TypeOK
      <4> QED BY <4>1, <4>2
    <3> QED BY <1>0, <1>7, <3>1 DEF TypeOK, MonitorShutdown
  <2>2. ThreadsOK'
    BY <1>0, <1>c, <1>7 DEF TypeOK, ThreadsOK, ThreadOK, MonitorShutdown
  <2>3. PlacesOK'
    BY <1>0, <1>c, <1>7 DEF TypeOK, PlacesOK, PlaceOK, ThreadsOK, ThreadOK,
       MonitorShutdown
  <2>4. BackbonOK'
    BY <1>0, <1>c, <1>7 DEF TypeOK, BackbonOK, ThreadsOK, ThreadOK, MonitorShutdown
  <2>5. CallsOK'
    <3>1. \A t \in Services : server'[t] \in {"none", "down"} => server[t] \in {"none", "down"}
      BY <1>0, <1>7 DEF TypeOK, MonitorShutdown
    <3>2. UNCHANGED <<main, step, thread, calls, client>>
      BY <1>7 DEF MonitorShutdown
    <3> QED BY <1>0, <3>1, <3>2 DEF CallsOK
  <2>6. StepOK'
    BY <1>0, <1>c, <1>7 DEF TypeOK, StepOK, MonitorShutdown
  <2>7. WaitedOK'
    BY <1>0, <1>c, <1>7 DEF TypeOK, WaitedOK, PlacesOK, PlaceOK, MonitorShutdown
  <2> QED BY <2>1, <2>2, <2>3, <2>4, <2>5, <2>6, <2>7 DEF Inv
<1>8. CASE MonitorEnds(s)
  <2>1. TypeOK'
    BY <1>0, <1>c, <1>8 DEF TypeOK, MonitorEnds
  <2>2. ThreadsOK'
    BY <1>0, <1>c, <1>8 DEF TypeOK, ThreadsOK, ThreadOK, MonitorEnds
  <2>3. PlacesOK'
    BY <1>0, <1>c, <1>8 DEF TypeOK, PlacesOK, PlaceOK, ThreadsOK, ThreadOK, MonitorEnds
  <2>4. BackbonOK'
    BY <1>0, <1>c, <1>8 DEF TypeOK, BackbonOK, ThreadsOK, ThreadOK, MonitorEnds
  <2>5. CallsOK'
    BY <1>0, <1>c, <1>8 DEF TypeOK, CallsOK, BackbonOK, ThreadsOK, ThreadOK, MonitorEnds
  <2>6. StepOK'
    BY <1>0, <1>c, <1>8 DEF TypeOK, StepOK, MonitorEnds
  <2>7. WaitedOK'
    BY <1>0, <1>c, <1>8 DEF TypeOK, WaitedOK, PlacesOK, PlaceOK, MonitorEnds
  <2> QED BY <2>1, <2>2, <2>3, <2>4, <2>5, <2>6, <2>7 DEF Inv
<1>9. CASE EndServer(s)
  <2>1. TypeOK'
    BY <1>0, <1>c, <1>9 DEF TypeOK, EndServer
  <2>2. ThreadsOK'
    BY <1>0, <1>c, <1>9 DEF TypeOK, ThreadsOK, ThreadOK, EndServer
  <2>3. PlacesOK'
    BY <1>0, <1>c, <1>9 DEF TypeOK, PlacesOK, PlaceOK, ThreadsOK, ThreadOK, EndServer
  <2>4. BackbonOK'
    BY <1>0, <1>c, <1>9 DEF TypeOK, BackbonOK, ThreadsOK, ThreadOK, EndServer
  <2>5. CallsOK'
    BY <1>0, <1>c, <1>9 DEF TypeOK, CallsOK, BackbonOK, ThreadsOK, ThreadOK, EndServer
  <2>6. StepOK'
    BY <1>0, <1>c, <1>9 DEF TypeOK, StepOK, EndServer
  <2>7. WaitedOK'
    BY <1>0, <1>c, <1>9 DEF TypeOK, WaitedOK, PlacesOK, PlaceOK, EndServer
  <2> QED BY <2>1, <2>2, <2>3, <2>4, <2>5, <2>6, <2>7 DEF Inv
<1> QED BY <1>1, <1>2, <1>3, <1>4, <1>5, <1>6, <1>7, <1>8, <1>9 DEF RunServer

(* gRPC.                                                                    *)
LEMMA ShutdownKeeps ==
    ASSUME Inv, NEW s \in Services, ShutdownDone(s)
    PROVE  Inv'
<1> USE OrderFacts DEF mainVars, threadVars, clientVars, objectVars, Dying, Current
<1>0. TypeOK /\ ThreadsOK /\ PlacesOK /\ BackbonOK /\ CallsOK /\ StepOK /\ WaitedOK
  BY DEF Inv
<1>1. TypeOK' BY <1>0 DEF TypeOK, ShutdownDone
<1>2. ThreadsOK' BY <1>0 DEF TypeOK, ThreadsOK, ThreadOK, ShutdownDone
<1>3. PlacesOK' BY <1>0 DEF TypeOK, PlacesOK, PlaceOK, ThreadsOK, ThreadOK, ShutdownDone
<1>4. BackbonOK' BY <1>0 DEF TypeOK, BackbonOK, ThreadsOK, ThreadOK, ShutdownDone
<1>5. CallsOK' BY <1>0 DEF TypeOK, CallsOK, BackbonOK, ThreadsOK, ThreadOK, ShutdownDone
<1>6. StepOK' BY <1>0 DEF TypeOK, StepOK, ShutdownDone
<1>7. WaitedOK' BY <1>0 DEF TypeOK, WaitedOK, PlacesOK, PlaceOK, ShutdownDone
<1> QED BY <1>1, <1>2, <1>3, <1>4, <1>5, <1>6, <1>7 DEF Inv

LEMMA FinishCallKeeps ==
    ASSUME Inv, NEW s \in Services, NEW x \in calls[s], FinishCall(s, x)
    PROVE  Inv'
<1> USE OrderFacts DEF mainVars, threadVars, clientVars, objectVars, Dying, Current
<1>0. TypeOK /\ ThreadsOK /\ PlacesOK /\ BackbonOK /\ CallsOK /\ StepOK /\ WaitedOK
  BY DEF Inv
<1>1. TypeOK' BY <1>0 DEF TypeOK, FinishCall
<1>2. ThreadsOK' BY <1>0 DEF TypeOK, ThreadsOK, ThreadOK, FinishCall
<1>3. PlacesOK' BY <1>0 DEF TypeOK, PlacesOK, PlaceOK, ThreadsOK, ThreadOK, FinishCall
<1>4. BackbonOK' BY <1>0 DEF TypeOK, BackbonOK, ThreadsOK, ThreadOK, FinishCall
<1>5. CallsOK' BY <1>0 DEF TypeOK, CallsOK, BackbonOK, ThreadsOK, ThreadOK, FinishCall
<1>6. StepOK' BY <1>0 DEF TypeOK, StepOK, FinishCall
<1>7. WaitedOK' BY <1>0 DEF TypeOK, WaitedOK, PlacesOK, PlaceOK, FinishCall
<1> QED BY <1>1, <1>2, <1>3, <1>4, <1>5, <1>6, <1>7 DEF Inv

LEMMA TakeCallKeeps ==
    ASSUME Inv, NEW s \in Services, NEW c \in Outside, TakeCall(s, c)
    PROVE  Inv'
<1> USE OrderFacts DEF mainVars, threadVars, clientVars, objectVars, Dying, Current
<1>0. TypeOK /\ ThreadsOK /\ PlacesOK /\ BackbonOK /\ CallsOK /\ StepOK /\ WaitedOK
  BY DEF Inv
<1>1. TypeOK' BY <1>0 DEF TypeOK, TakeCall, Call, From, Register, Unregister
<1>2. ThreadsOK'
  BY <1>0 DEF TypeOK, ThreadsOK, ThreadOK, TakeCall, Call, From, Register, Unregister
<1>3. PlacesOK'
  BY <1>0 DEF TypeOK, PlacesOK, PlaceOK, ThreadsOK, ThreadOK, TakeCall, Call, From,
     Register, Unregister
<1>4. BackbonOK'
  BY <1>0 DEF TypeOK, BackbonOK, ThreadsOK, ThreadOK, TakeCall, Call, From, Register,
     Unregister
<1>5. CallsOK'
  BY <1>0 DEF TypeOK, CallsOK, BackbonOK, ThreadsOK, ThreadOK, TakeCall, Call, From,
     Register, Unregister
<1>6. StepOK' BY <1>0 DEF TypeOK, StepOK, TakeCall, Call, From, Register, Unregister
<1>7. WaitedOK'
  BY <1>0 DEF TypeOK, WaitedOK, PlacesOK, PlaceOK, TakeCall, Call, From, Register,
     Unregister
<1> QED BY <1>1, <1>2, <1>3, <1>4, <1>5, <1>6, <1>7 DEF Inv

(* The destructors.                                                         *)
LEMMA DestructorKeeps ==
    ASSUME Inv, Destructor
    PROVE  Inv'
<1> USE OrderFacts DEF mainVars, threadVars, clientVars, objectVars, Dying, Current, InStop
<1>0. TypeOK /\ ThreadsOK /\ PlacesOK /\ BackbonOK /\ CallsOK /\ StepOK /\ WaitedOK
  BY DEF Inv
<1>c. Current \in Services /\ (Current = Backbon <=> main.at = 1) BY <1>0, CurrentFacts
<1>m. main.phase \in Phases /\ main.at \in 1 .. Len(Order) /\ main.polls \in 0 .. Polls
  BY <1>0 DEF TypeOK
<1>1. CASE OwnDestructor
  <2>1. TypeOK'
    BY <1>0, <1>c, <1>1 DEF TypeOK, OwnDestructor
  <2>2. ThreadsOK'
    BY <1>0, <1>c, <1>1 DEF TypeOK, ThreadsOK, ThreadOK, OwnDestructor
  <2>3. PlacesOK'
    BY <1>0, <1>c, <1>1 DEF TypeOK, PlacesOK, PlaceOK, ThreadsOK, ThreadOK, OwnDestructor
  <2>4. BackbonOK'
    BY <1>0, <1>c, <1>1 DEF TypeOK, BackbonOK, ThreadsOK, ThreadOK, OwnDestructor
  <2>5. CallsOK'
    BY <1>0, <1>c, <1>1 DEF TypeOK, CallsOK, BackbonOK, ThreadsOK, ThreadOK, OwnDestructor
  <2>6. StepOK'
    BY <1>0, <1>c, <1>1 DEF TypeOK, StepOK, OwnDestructor
  <2>7. WaitedOK'
    BY <1>0, <1>c, <1>1 DEF TypeOK, WaitedOK, PlacesOK, PlaceOK, OwnDestructor
  <2> QED BY <2>1, <2>2, <2>3, <2>4, <2>5, <2>6, <2>7 DEF Inv
<1>2. CASE DestroyMembers
  <2>1. TypeOK'
    BY <1>0, <1>c, <1>2 DEF TypeOK, DestroyMembers
  <2>2. ThreadsOK'
    BY <1>0, <1>c, <1>2 DEF TypeOK, ThreadsOK, ThreadOK, DestroyMembers
  <2>3. PlacesOK'
    BY <1>0, <1>c, <1>2 DEF TypeOK, PlacesOK, PlaceOK, ThreadsOK, ThreadOK, DestroyMembers
  <2>4. BackbonOK'
    BY <1>0, <1>c, <1>2 DEF TypeOK, BackbonOK, ThreadsOK, ThreadOK, DestroyMembers
  <2>5. CallsOK'
    BY <1>0, <1>c, <1>2 DEF TypeOK, CallsOK, BackbonOK, ThreadsOK, ThreadOK,
       DestroyMembers
  <2>6. StepOK'
    BY <1>0, <1>c, <1>2 DEF TypeOK, StepOK, DestroyMembers
  <2>7. WaitedOK'
    BY <1>0, <1>c, <1>2 DEF TypeOK, WaitedOK, PlacesOK, PlaceOK, DestroyMembers
  <2> QED BY <2>1, <2>2, <2>3, <2>4, <2>5, <2>6, <2>7 DEF Inv
<1>3. CASE StopRefused
  <2>1. TypeOK'
    <3>1. hasty' \in [early : SUBSET Services, unregistered : SUBSET Services]
      <4>1. hasty \in [early : SUBSET Services, unregistered : SUBSET Services]
        BY <1>0 DEF TypeOK
      <4>2. CASE state[Current] = "starting"
        <5>1. hasty.early \cup {Current} \in SUBSET Services BY <1>c, <4>1
        <5>2. hasty' = [hasty EXCEPT !.early = hasty.early \cup {Current}]
          BY <4>1, <4>2, <1>3 DEF StopRefused
        <5> QED BY <4>1, <5>1, <5>2
      <4> QED BY <4>1, <4>2, <1>3 DEF StopRefused
    <3> QED BY <1>0, <1>3, <3>1 DEF TypeOK, StopRefused, AfterStop, Own
  <2>2. ThreadsOK'
    BY <1>0, <1>c, <1>3 DEF TypeOK, ThreadsOK, ThreadOK, StopRefused, AfterStop, Own
  <2>3. PlacesOK'
    BY <1>0, <1>c, <1>3 DEF TypeOK, PlacesOK, PlaceOK, ThreadsOK, ThreadOK, StopRefused,
       AfterStop, Own
  <2>4. BackbonOK'
    BY <1>0, <1>c, <1>3 DEF TypeOK, BackbonOK, ThreadsOK, ThreadOK, StopRefused,
       AfterStop, Own
  <2>5. CallsOK'
    BY <1>0, <1>c, <1>3 DEF TypeOK, CallsOK, BackbonOK, ThreadsOK, ThreadOK, StopRefused,
       AfterStop, Own
  <2>6. StepOK'
    <3>1. thread[Current] # "none"
      BY <1>0, <1>c, <1>3 DEF StopRefused, TypeOK, PlacesOK, PlaceOK
    <3>2. thread[Current] = "ended" \/ Current \in hasty'.early
      <4>1. CASE state[Current] = "starting"
        BY <1>0, <1>c, <1>3, <4>1 DEF StopRefused, TypeOK
      <4>2. CASE state[Current] # "starting"
        BY <1>0, <1>c, <1>3, <3>1, <4>2 DEF StopRefused, TypeOK, ThreadsOK, ThreadOK
      <4> QED BY <4>1, <4>2
    <3>3. hasty.early \subseteq hasty'.early
      BY <1>0, <1>3 DEF StopRefused, TypeOK
    <3>4. /\ step' = IF Current \in gone THEN "join" ELSE "members"
          /\ UNCHANGED <<main, thread, gone>> /\ step = "stop" /\ Dying
      BY <1>3 DEF StopRefused, AfterStop, Own
    <3> QED BY <1>0, <1>c, <3>2, <3>3, <3>4 DEF StepOK
  <2>7. WaitedOK'
    BY <1>0, <1>c, <1>3 DEF TypeOK, WaitedOK, PlacesOK, PlaceOK, StopRefused, AfterStop,
       Own
  <2> QED BY <2>1, <2>2, <2>3, <2>4, <2>5, <2>6, <2>7 DEF Inv
<1>4. CASE StopBegins
  <2>1. TypeOK'
    BY <1>0, <1>c, <1>4 DEF TypeOK, StopBegins
  <2>2. ThreadsOK'
    BY <1>0, <1>c, <1>4 DEF TypeOK, ThreadsOK, ThreadOK, StopBegins
  <2>3. PlacesOK'
    BY <1>0, <1>c, <1>4 DEF TypeOK, PlacesOK, PlaceOK, ThreadsOK, ThreadOK, StopBegins
  <2>4. BackbonOK'
    BY <1>0, <1>c, <1>4 DEF TypeOK, BackbonOK, ThreadsOK, ThreadOK, StopBegins
  <2>5. CallsOK'
    BY <1>0, <1>c, <1>4 DEF TypeOK, CallsOK, BackbonOK, ThreadsOK, ThreadOK, StopBegins
  <2>6. StepOK'
    <3>1. thread[Current] \notin {"none", "build", "mark"}
      BY <1>0, <1>c, <1>4 DEF StopBegins, TypeOK, ThreadsOK, ThreadOK
    <3> QED BY <1>0, <1>c, <1>4, <3>1 DEF StopBegins, StepOK
  <2>7. WaitedOK'
    BY <1>0, <1>c, <1>4 DEF TypeOK, WaitedOK, PlacesOK, PlaceOK, StopBegins
  <2> QED BY <2>1, <2>2, <2>3, <2>4, <2>5, <2>6, <2>7 DEF Inv
<1>5. CASE UnregisterFromEtcd
  <2>1. TypeOK'
    <3>1. calls' \in [Services -> SUBSET Call]
      <4>1. Unregister(Current) \in Call BY <1>c DEF Call
      <4> QED BY <1>0, <4>1, <1>5 DEF TypeOK, UnregisterFromEtcd
    <3> QED BY <1>0, <1>5, <3>1 DEF TypeOK, UnregisterFromEtcd
  <2>2. ThreadsOK'
    BY <1>0, <1>c, <1>5 DEF TypeOK, ThreadsOK, ThreadOK, UnregisterFromEtcd
  <2>3. PlacesOK'
    BY <1>0, <1>c, <1>5 DEF TypeOK, PlacesOK, PlaceOK, ThreadsOK, ThreadOK,
       UnregisterFromEtcd
  <2>4. BackbonOK'
    BY <1>0, <1>c, <1>5 DEF TypeOK, BackbonOK, ThreadsOK, ThreadOK, UnregisterFromEtcd
  <2>5. CallsOK'
    <3>1. CASE Current \notin client
      BY <1>0, <1>5, <3>1 DEF CallsOK, UnregisterFromEtcd
    <3>2. CASE Current \in client
      <4>1. Current # Backbon /\ server[Backbon] = "up"
        BY <1>0, <1>c, <3>2 DEF TypeOK, CallsOK, BackbonOK
      <4>2. ASSUME NEW t \in Services
            PROVE  /\ server'[t] \in {"none", "down"} => calls'[t] = {}
                   /\ Register(t) \in calls'[Backbon] <=> Register(t) \in calls[Backbon]
                   /\ Unregister(t) \in calls'[Backbon] => t = Current
        <5>1. Register(t) # Unregister(Current) /\ (Unregister(t) = Unregister(Current) => t = Current)
          BY DEF Register, Unregister
        <5> QED BY <1>0, <1>5, <3>2, <4>1, <5>1 DEF TypeOK, CallsOK, UnregisterFromEtcd
      <4> QED BY <1>0, <1>5, <3>2, <4>1, <4>2 DEF CallsOK, UnregisterFromEtcd
    <3> QED BY <3>1, <3>2
  <2>6. StepOK'
    BY <1>0, <1>c, <1>5 DEF TypeOK, StepOK, UnregisterFromEtcd
  <2>7. WaitedOK'
    BY <1>0, <1>c, <1>5 DEF TypeOK, WaitedOK, PlacesOK, PlaceOK, UnregisterFromEtcd
  <2> QED BY <2>1, <2>2, <2>3, <2>4, <2>5, <2>6, <2>7 DEF Inv
<1>6. CASE ResetClient
  <2>1. TypeOK'
    BY <1>0, <1>c, <1>6 DEF TypeOK, ResetClient
  <2>2. ThreadsOK'
    BY <1>0, <1>c, <1>6 DEF TypeOK, ThreadsOK, ThreadOK, ResetClient
  <2>3. PlacesOK'
    BY <1>0, <1>c, <1>6 DEF TypeOK, PlacesOK, PlaceOK, ThreadsOK, ThreadOK, ResetClient
  <2>4. BackbonOK'
    BY <1>0, <1>c, <1>6 DEF TypeOK, BackbonOK, ThreadsOK, ThreadOK, ResetClient
  <2>5. CallsOK'
    BY <1>0, <1>c, <1>6 DEF TypeOK, CallsOK, BackbonOK, ThreadsOK, ThreadOK, ResetClient
  <2>6. StepOK'
    BY <1>0, <1>c, <1>6 DEF TypeOK, StepOK, ResetClient
  <2>7. WaitedOK'
    BY <1>0, <1>c, <1>6 DEF TypeOK, WaitedOK, PlacesOK, PlaceOK, ResetClient
  <2> QED BY <2>1, <2>2, <2>3, <2>4, <2>5, <2>6, <2>7 DEF Inv
<1>7. CASE Shutdown
  <2>1. TypeOK'
    <3>1. CASE server[Current] = "up"
      BY <1>0, <1>c, <1>7, <3>1 DEF TypeOK, Shutdown
    <3>2. CASE ~(server[Current] = "up")
      BY <1>0, <1>c, <1>7, <3>2 DEF TypeOK, Shutdown
    <3> QED BY <3>1, <3>2
  <2>2. ThreadsOK'
    BY <1>0, <1>c, <1>7 DEF TypeOK, ThreadsOK, ThreadOK, Shutdown
  <2>3. PlacesOK'
    BY <1>0, <1>c, <1>7 DEF TypeOK, PlacesOK, PlaceOK, ThreadsOK, ThreadOK, Shutdown
  <2>4. BackbonOK'
    BY <1>0, <1>c, <1>7 DEF TypeOK, BackbonOK, ThreadsOK, ThreadOK, Shutdown
  <2>5. CallsOK'
    BY <1>0, <1>c, <1>7 DEF TypeOK, CallsOK, BackbonOK, ThreadsOK, ThreadOK, Shutdown
  <2>6. StepOK'
    BY <1>0, <1>c, <1>7 DEF TypeOK, StepOK, Shutdown
  <2>7. WaitedOK'
    BY <1>0, <1>c, <1>7 DEF TypeOK, WaitedOK, PlacesOK, PlaceOK, Shutdown
  <2> QED BY <2>1, <2>2, <2>3, <2>4, <2>5, <2>6, <2>7 DEF Inv
<1>8. CASE ShutdownReturns
  <2>1. TypeOK'
    BY <1>0, <1>c, <1>8 DEF TypeOK, ShutdownReturns
  <2>2. ThreadsOK'
    BY <1>0, <1>c, <1>8 DEF TypeOK, ThreadsOK, ThreadOK, ShutdownReturns
  <2>3. PlacesOK'
    BY <1>0, <1>c, <1>8 DEF TypeOK, PlacesOK, PlaceOK, ThreadsOK, ThreadOK,
       ShutdownReturns
  <2>4. BackbonOK'
    BY <1>0, <1>c, <1>8 DEF TypeOK, BackbonOK, ThreadsOK, ThreadOK, ShutdownReturns
  <2>5. CallsOK'
    BY <1>0, <1>c, <1>8 DEF TypeOK, CallsOK, BackbonOK, ThreadsOK, ThreadOK,
       ShutdownReturns
  <2>6. StepOK'
    BY <1>0, <1>c, <1>8 DEF TypeOK, StepOK, ShutdownReturns
  <2>7. WaitedOK'
    BY <1>0, <1>c, <1>8 DEF TypeOK, WaitedOK, PlacesOK, PlaceOK, ShutdownReturns
  <2> QED BY <2>1, <2>2, <2>3, <2>4, <2>5, <2>6, <2>7 DEF Inv
<1>9. CASE StopJoins
  <2>1. TypeOK'
    BY <1>0, <1>c, <1>9 DEF TypeOK, StopJoins, AfterStop, Own
  <2>2. ThreadsOK'
    BY <1>0, <1>c, <1>9 DEF TypeOK, ThreadsOK, ThreadOK, StopJoins, AfterStop, Own
  <2>3. PlacesOK'
    BY <1>0, <1>c, <1>9 DEF TypeOK, PlacesOK, PlaceOK, ThreadsOK, ThreadOK, StopJoins,
       AfterStop, Own
  <2>4. BackbonOK'
    BY <1>0, <1>c, <1>9 DEF TypeOK, BackbonOK, ThreadsOK, ThreadOK, StopJoins, AfterStop,
       Own
  <2>5. CallsOK'
    BY <1>0, <1>c, <1>9 DEF TypeOK, CallsOK, BackbonOK, ThreadsOK, ThreadOK, StopJoins,
       AfterStop, Own
  <2>6. StepOK'
    BY <1>0, <1>c, <1>9 DEF TypeOK, StepOK, StopJoins, AfterStop, Own
  <2>7. WaitedOK'
    BY <1>0, <1>c, <1>9 DEF TypeOK, WaitedOK, PlacesOK, PlaceOK, StopJoins, AfterStop, Own
  <2> QED BY <2>1, <2>2, <2>3, <2>4, <2>5, <2>6, <2>7 DEF Inv
<1>10. CASE JoinThread
  <2>0. /\ main.phase = "leave" /\ step = "join" /\ thread[Current] = "ended"
        /\ IF main.at > 1 THEN main'.phase = "leave" /\ main'.at = main.at - 1 /\ step' = "own"
           ELSE main'.phase = "returned" /\ main'.at = main.at /\ step' = "none"
        /\ destroyed' = destroyed \cup {Current}
        /\ UNCHANGED <<state, shouldStop, threadVars, server, calls, clientVars, gone, hasty>>
        /\ main' \in [phase : Phases, at : 1 .. Len(Order), polls : 0 .. Polls]
    <3>1. CASE main.at > 1
      <4>1. main.at - 1 \in 1 .. Len(Order) BY <1>m, <3>1
      <4>2. main' = [main EXCEPT !.phase = main.phase, !.at = main.at - 1, !.polls = main.polls]
        BY <1>0, <1>10, <3>1 DEF JoinThread, Destroyed, TypeOK
      <4>3. main'.phase = main.phase /\ main'.at = main.at - 1
            /\ main' \in [phase : Phases, at : 1 .. Len(Order), polls : 0 .. Polls]
        BY <1>0, <1>m, <4>1, <4>2, MainMoves
      <4> QED BY <1>10, <3>1, <4>3 DEF JoinThread, Destroyed
    <3>2. CASE ~(main.at > 1)
      <4>1. "returned" \in Phases BY DEF Phases
      <4>2. main' = [main EXCEPT !.phase = "returned", !.at = main.at, !.polls = main.polls]
        BY <1>0, <1>10, <3>2 DEF JoinThread, Destroyed, TypeOK
      <4>3. main'.phase = "returned" /\ main'.at = main.at
            /\ main' \in [phase : Phases, at : 1 .. Len(Order), polls : 0 .. Polls]
        BY <1>0, <1>m, <4>1, <4>2, MainMoves
      <4> QED BY <1>10, <3>2, <4>3 DEF JoinThread, Destroyed
    <3> QED BY <3>1, <3>2
  <2>1. TypeOK'
    BY <1>0, <1>c, <2>0 DEF TypeOK, StepOK
  <2>2. ThreadsOK'
    BY <1>0, <1>c, <2>0 DEF TypeOK, ThreadsOK, ThreadOK
  <2>3. PlacesOK'
    BY <1>0, <1>c, <2>0 DEF TypeOK, PlacesOK, PlaceOK, ThreadsOK, ThreadOK
  <2>4. BackbonOK'
    BY <1>0, <1>c, <2>0 DEF TypeOK, BackbonOK, ThreadsOK, ThreadOK
  <2>5. CallsOK'
    BY <1>0, <1>c, <2>0 DEF TypeOK, CallsOK, BackbonOK, ThreadsOK, ThreadOK
  <2>6. StepOK'
    <3>1. main.at > 1 => Current' \notin gone
      BY <1>0, <2>0 DEF TypeOK, PlacesOK, PlaceOK
    <3> QED BY <1>0, <2>0, <3>1 DEF TypeOK, StepOK
  <2>7. WaitedOK'
    BY <1>0, <1>c, <2>0 DEF TypeOK, WaitedOK, PlacesOK, PlaceOK
  <2> QED BY <2>1, <2>2, <2>3, <2>4, <2>5, <2>6, <2>7 DEF Inv
<1> QED BY <1>1, <1>2, <1>3, <1>4, <1>5, <1>6, <1>7, <1>8, <1>9, <1>10 DEF Destructor

LEMMA NextInv == Inv /\ [Next]_vars => Inv'
<1> SUFFICES ASSUME Inv, [Next]_vars PROVE Inv' OBVIOUS
<1>1. CASE Startup \/ EndServing \/ Throw
  BY <1>1, StartupKeeps DEF Startup
<1>2. CASE Destructor BY <1>2, DestructorKeeps
<1>3. CASE \E s \in Services : RunServer(s) \/ ShutdownDone(s)
  BY <1>3, RunServerKeeps, ShutdownKeeps
<1>4. CASE \E s \in Services : \E x \in calls[s] : FinishCall(s, x)
  BY <1>4, FinishCallKeeps
<1>5. CASE \E s \in Services, c \in Outside : TakeCall(s, c)
  BY <1>5, TakeCallKeeps
<1>6. CASE UNCHANGED vars
  <2> USE <1>6 DEF vars, mainVars, threadVars, clientVars, objectVars, Inv
  <2>1. TypeOK' BY DEF TypeOK
  <2>2. ThreadsOK' BY DEF ThreadsOK, ThreadOK, Dying, Current
  <2>3. PlacesOK' BY DEF PlacesOK, PlaceOK
  <2>4. BackbonOK' BY DEF BackbonOK
  <2>5. CallsOK' BY DEF CallsOK, Dying, Current
  <2>6. StepOK' BY DEF StepOK, Dying, Current
  <2>7. WaitedOK' BY DEF WaitedOK
  <2> QED BY <2>1, <2>2, <2>3, <2>4, <2>5, <2>6, <2>7
<1> QED BY <1>1, <1>2, <1>3, <1>4, <1>5, <1>6 DEF Next

LEMMA AlwaysInv == Spec => []Inv
  BY InitInv, NextInv, PTL DEF Spec

-----------------------------------------------------------------------------
(* Nothing is left of a service whose destructor has returned: its threads  *)
(* have ended, its server is down and it serves no call, whether main left  *)
(* through a failed start, an exception or a signal.                        *)
THEOREM NothingOutlivesAny == Spec => []NothingOutlives
<1>1. Inv => NothingOutlives
  <2> SUFFICES ASSUME Inv, NEW s \in destroyed
               PROVE  /\ thread[s] = "ended" /\ monitor[s] \in {"none", "ended"}
                      /\ server[s] \in {"none", "down"} /\ calls[s] = {}
    BY DEF NothingOutlives
  <2>1. s \in Services BY DEF Inv, TypeOK
  <2>2. thread[s] = "ended" BY <2>1, OrderFacts DEF Inv, PlacesOK, PlaceOK
  <2>3. server[s] \in {"none", "down"} /\ monitor[s] \in {"none", "ended"}
    BY <2>1, <2>2 DEF Inv, ThreadsOK, ThreadOK
  <2> QED BY <2>1, <2>2, <2>3 DEF Inv, CallsOK
<1> QED BY <1>1, AlwaysInv, PTL

(* Calls work on whole objects: those of a service that stops in its own    *)
(* destructor, unless Stop found it starting, and every registration and    *)
(* its withdrawal, which find BackbonService up.                            *)
THEOREM CallsFindWholeObjects == Spec => []CallsOnWholeObjects
<1>1. Inv => CallsOnWholeObjects
  <2> SUFFICES ASSUME Inv PROVE CallsOnWholeObjects OBVIOUS
  <2>0. TypeOK /\ ThreadsOK /\ PlacesOK /\ BackbonOK /\ CallsOK /\ StepOK BY DEF Inv
  <2>1. ASSUME NEW s \in StopsFirst \cap gone PROVE calls[s] = {} \/ s \in hasty.early
    <3>1. s \in Services BY <2>0 DEF TypeOK
    <3>2. thread[s] = "ended" \/ s \in hasty.early BY <2>0 DEF StepOK
    <3> QED BY <2>0, <3>1, <3>2 DEF ThreadsOK, ThreadOK, CallsOK
  <2>2. ASSUME NEW s \in Services, {Register(s), Unregister(s)} \cap calls[Backbon] # {}
        PROVE  server[Backbon] = "up" /\ Backbon \notin gone
    <3>1. s # Backbon /\ (thread[s] = "answer" \/ (Current = s /\ Dying))
      BY <2>0, <2>2 DEF CallsOK, ThreadsOK, ThreadOK
    <3>2. main.at \in 1 .. Len(Order) BY <2>0 DEF TypeOK
    <3>3. main.at > 1
      BY <2>0, <3>1, <3>2, OthersQuiet, CurrentFacts, OrderFacts
    <3>4. server[Backbon] = "up" BY <2>0, <3>3 DEF BackbonOK
    <3>5. Backbon \notin gone
      BY <2>0, <3>2, <3>3, OrderFacts DEF PlacesOK, PlaceOK, Backbon
    <3> QED BY <3>4, <3>5
  <2> QED BY <2>1, <2>2 DEF CallsOnWholeObjects
<1> QED BY <1>1, AlwaysInv, PTL

(* Stop takes backbon_client_ away only when RunServer is past its use,     *)
(* unless main left without having seen the registration.                   *)
THEOREM ClientNeverInUse == Spec => []ClientNotInUse
<1>1. Inv => ClientNotInUse
  <2> SUFFICES ASSUME Inv, NEW s \in Services, Dying, Current = s,
                      step \in {"unregistering", "shutdown"}, s \notin hasty.unregistered
               PROVE  thread[s] \notin {"connect", "call", "answer"}
    BY DEF ClientNotInUse
  <2>0. TypeOK /\ ThreadOK(s) /\ WaitedOK BY DEF Inv, ThreadsOK
  <2>1. CASE s = Backbon BY <2>0, <2>1 DEF ThreadOK
  <2>2. CASE s # Backbon
    <3>1. main.at \in 2 .. Len(Order) /\ Order[main.at] = s
      BY <2>0, <2>2, CurrentFacts, OrderFacts DEF TypeOK, Current
    <3>2. s \in registered \cup hasty.unregistered \/ thread[s] = "none"
      BY <2>0, <3>1 DEF WaitedOK, Dying
    <3> QED BY <2>0, <3>2 DEF ThreadOK
  <2> QED BY <2>1, <2>2
<1> QED BY <1>1, AlwaysInv, PTL
=============================================================================
