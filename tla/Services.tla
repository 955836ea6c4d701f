------------------------------ MODULE Services ------------------------------
(***************************************************************************)
(* The life cycle of the services of the process: main, the threads of      *)
(* BaseServiceServer (the server thread of RunServer and its monitor),      *)
(* registration with BackbonService and the destructors that end it all.    *)
(*                                                                         *)
(* main starts the services in one order and its locals are destroyed in    *)
(* the reverse one, on SIGINT or SIGTERM as well as when something throws.  *)
(* Each service object loses the members of its own class first and then    *)
(* runs ~BaseServiceServer; the services of StopsFirst call Stop in a       *)
(* destructor of their own before that.  Threads are taken to start.        *)
(***************************************************************************)
EXTENDS Naturals, Sequences

CONSTANTS
    Order,        \* the services in the order main starts them
    StopsFirst,   \* services with Stop() in their own destructor
    Outside       \* callers from outside the process

ASSUME OrderAssumption ==
    /\ Order \in Seq(STRING) /\ Len(Order) >= 1
    /\ \A i, j \in 1 .. Len(Order) : Order[i] = Order[j] => i = j

Polls == 3        \* main's looks at BackbonService before it gives up

Backbon == Order[1]
Services == {Order[i] : i \in 1 .. Len(Order)}

VARIABLES
    main,         \* where main is: phase, position in Order, polls made
    step,         \* where main is in a destructor
    state,        \* state_
    shouldStop,   \* services with should_stop_ and g_should_stop_service set
    thread,       \* server_thread_: where RunServer is
    monitor,      \* monitor_thread
    server,       \* server_: none, up, closing (Shutdown has begun) or down
    calls,        \* calls under way in a service
    client,       \* services with a backbon_client_
    registered,   \* services with etcd_registered_ set
    gone,         \* services whose own members are destroyed
    destroyed,    \* services whose destructor has returned
    hasty         \* history: services main did not wait for, and why

mainVars == <<main, step>>
threadVars == <<thread, monitor>>
clientVars == <<client, registered>>
objectVars == <<gone, destroyed>>
vars == <<mainVars, state, shouldStop, threadVars, server, calls, clientVars,
          objectVars, hasty>>

Init ==
    /\ main = [phase |-> "start", at |-> 1, polls |-> 0]
    /\ step = "none"
    /\ state = [s \in Services |-> "stopped"]
    /\ shouldStop = {}
    /\ thread = [s \in Services |-> "none"]
    /\ monitor = [s \in Services |-> "none"]
    /\ server = [s \in Services |-> "none"]
    /\ calls = [s \in Services |-> {}]
    /\ client = {} /\ registered = {}
    /\ gone = {} /\ destroyed = {}
    /\ hasty = [early |-> {}, unregistered |-> {}]

-----------------------------------------------------------------------------
(* main, up to the gateway.                                                 *)

Current == Order[main.at]

(* The constructor, EnableEtcdRegistration and Start of the next service.   *)
(* After BackbonService main waits for it, after the last one it waits for  *)
(* the registrations.                                                       *)
Start ==
    /\ main.phase = "start" /\ state[Current] = "stopped"
    /\ state' = [state EXCEPT ![Current] = "starting"]
    /\ shouldStop' = shouldStop \ {Current}
    /\ thread' = [thread EXCEPT ![Current] = "build"]
    /\ main' = IF Current = Backbon THEN [main EXCEPT !.phase = "poll"]
               ELSE IF main.at < Len(Order) THEN [main EXCEPT !.at = @ + 1]
               ELSE [main EXCEPT !.phase = "wait", !.at = 2]
    /\ UNCHANGED <<step, monitor, server, calls, clientVars, objectVars, hasty>>

(* Mutant of PollBackbon: main goes on without BackbonService.              *)
PollAnyway ==
    /\ main.phase = "poll"
    /\ main' = IF Len(Order) > 1 THEN [main EXCEPT !.phase = "start", !.at = 2]
               ELSE [main EXCEPT !.phase = "serve"]
    /\ UNCHANGED <<step, state, shouldStop, threadVars, server, calls, clientVars,
                   objectVars, hasty>>

(* GetState() of BackbonService, before each sleep.                         *)
PollBackbon ==
    /\ main.phase = "poll"
    /\ main' = IF state[Backbon] # "running" THEN [main EXCEPT !.phase = "sleep"]
               ELSE IF Len(Order) > 1 THEN [main EXCEPT !.phase = "start", !.at = 2]
               ELSE [main EXCEPT !.phase = "serve"]
    /\ UNCHANGED <<step, state, shouldStop, threadVars, server, calls, clientVars,
                   objectVars, hasty>>

Leave(at) ==
    /\ main' = [main EXCEPT !.phase = "leave", !.at = at]
    /\ step' = "own"

(* After the third sleep main returns without another look.                 *)
EndSleep ==
    /\ main.phase = "sleep"
    /\ IF main.polls + 1 < Polls
       THEN main' = [main EXCEPT !.phase = "poll", !.polls = @ + 1] /\ UNCHANGED step
       ELSE Leave(1)
    /\ UNCHANGED <<state, shouldStop, threadVars, server, calls, clientVars,
                   objectVars, hasty>>

WaitNext ==
    main' = IF main.at < Len(Order) THEN [main EXCEPT !.at = @ + 1]
            ELSE [main EXCEPT !.phase = "serve"]

(* WaitForEtcdRegistration sees etcd_registered_, or its time is over and   *)
(* main continues anyway.                                                   *)
WaitForEtcdRegistration ==
    /\ main.phase = "wait"
    /\ hasty' = IF Current \in registered THEN hasty
                ELSE [hasty EXCEPT !.unregistered = @ \cup {Current}]
    /\ WaitNext
    /\ UNCHANGED <<step, state, shouldStop, threadVars, server, calls, clientVars,
                   objectVars>>

(* The signal ends WebServer::start, or the gateway's constructor throws:   *)
(* all services are destroyed.                                              *)
EndServing ==
    /\ main.phase = "serve"
    /\ Leave(Len(Order))
    /\ UNCHANGED <<state, shouldStop, threadVars, server, calls, clientVars,
                   objectVars, hasty>>

(* The constructor of the producer, the consumer or a service throws: the   *)
(* services constructed so far, each of them already started, are           *)
(* destroyed.                                                               *)
Throw ==
    /\ main.phase = "start" /\ main.at > 1
    /\ Leave(main.at - 1)
    /\ hasty' = [hasty EXCEPT !.unregistered = Services]
    /\ UNCHANGED <<state, shouldStop, threadVars, server, calls, clientVars, objectVars>>

-----------------------------------------------------------------------------
(* RunServer.                                                               *)

(* BuildAndStart: from here on the server takes calls.                      *)
Build(s) ==
    /\ thread[s] = "build"
    /\ server' = [server EXCEPT ![s] = "up"]
    /\ thread' = [thread EXCEPT ![s] = "mark"]
    /\ UNCHANGED <<mainVars, state, shouldStop, monitor, calls, clientVars,
                   objectVars, hasty>>

(* The address is taken: no server.                                         *)
BuildFails(s) ==
    /\ thread[s] = "build"
    /\ state' = [state EXCEPT ![s] = "stopped"]
    /\ thread' = [thread EXCEPT ![s] = "ended"]
    /\ UNCHANGED <<mainVars, shouldStop, monitor, server, calls, clientVars,
                   objectVars, hasty>>

(* kRunning; without a backbon_addr_ there is nothing to register.          *)
MarkRunning(s) ==
    /\ thread[s] = "mark"
    /\ state' = [state EXCEPT ![s] = "running"]
    /\ thread' = [thread EXCEPT ![s] = IF s = Backbon THEN "wait" ELSE "connect"]
    /\ monitor' = [monitor EXCEPT ![s] = IF s = Backbon THEN "watch" ELSE "none"]
    /\ UNCHANGED <<mainVars, shouldStop, server, calls, clientVars, objectVars, hasty>>

(* RegisterToEtcd makes the client, then calls through it.                  *)
MakeClient(s) ==
    /\ thread[s] = "connect"
    /\ client' = client \cup {s}
    /\ thread' = [thread EXCEPT ![s] = "call"]
    /\ UNCHANGED <<mainVars, state, shouldStop, monitor, server, calls, registered,
                   objectVars, hasty>>

Register(s) == <<"register", s>>
Unregister(s) == <<"unregister", s>>
From(c) == <<"call", c>>
Call == {Register(s) : s \in Services} \cup {Unregister(s) : s \in Services}
            \cup {From(c) : c \in Outside}

(* Mutant of CallRegister: etcd_registered_ is stored before the answer.    *)
RegisterOptimistic(s) ==
    /\ thread[s] = "call"
    /\ calls' = [calls EXCEPT ![Backbon] = @ \cup {Register(s)}]
    /\ registered' = registered \cup {s}
    /\ thread' = [thread EXCEPT ![s] = "answer"]
    /\ UNCHANGED <<mainVars, state, shouldStop, monitor, server, client,
                   objectVars, hasty>>

(* The call goes to BackbonService, which is up: see CallsOnWholeObjects.   *)
CallRegister(s) ==
    /\ thread[s] = "call"
    /\ calls' = [calls EXCEPT ![Backbon] = @ \cup {Register(s)}]
    /\ thread' = [thread EXCEPT ![s] = "answer"]
    /\ UNCHANGED <<mainVars, state, shouldStop, monitor, server, clientVars,
                   objectVars, hasty>>

(* The answer of RegisterService: success, or a failure of etcd, Redis or   *)
(* the call, after which the service runs on unregistered.  Then the        *)
(* monitor starts and the thread waits for the server.                      *)
Answered(s) ==
    /\ thread[s] = "answer" /\ Register(s) \notin calls[Backbon]
    /\ registered' \in {registered, registered \cup {s}}
    /\ thread' = [thread EXCEPT ![s] = "wait"]
    /\ monitor' = [monitor EXCEPT ![s] = "watch"]
    /\ UNCHANGED <<mainVars, state, shouldStop, server, calls, client, objectVars, hasty>>

(* The monitor sees a flag and shuts the server down, waiting for it unless *)
(* Stop was faster.                                                         *)
MonitorShutdown(s) ==
    /\ monitor[s] = "watch" /\ s \in shouldStop
    /\ IF server[s] = "up"
       THEN /\ server' = [server EXCEPT ![s] = "closing"]
            /\ monitor' = [monitor EXCEPT ![s] = "shutting"]
       ELSE monitor' = [monitor EXCEPT ![s] = "ended"] /\ UNCHANGED server
    /\ UNCHANGED <<mainVars, state, shouldStop, thread, calls, clientVars,
                   objectVars, hasty>>

MonitorEnds(s) ==
    /\ monitor[s] = "shutting" /\ server[s] = "down"
    /\ monitor' = [monitor EXCEPT ![s] = "ended"]
    /\ UNCHANGED <<mainVars, state, shouldStop, thread, server, calls, clientVars,
                   objectVars, hasty>>

(* Wait returns, the monitor is joined, kStopped.                           *)
EndServer(s) ==
    /\ thread[s] = "wait" /\ server[s] = "down" /\ monitor[s] = "ended"
    /\ state' = [state EXCEPT ![s] = "stopped"]
    /\ thread' = [thread EXCEPT ![s] = "ended"]
    /\ UNCHANGED <<mainVars, shouldStop, monitor, server, calls, clientVars,
                   objectVars, hasty>>

RunServer(s) ==
    \/ Build(s) \/ BuildFails(s) \/ MarkRunning(s)
    \/ MakeClient(s) \/ CallRegister(s) \/ Answered(s)
    \/ MonitorShutdown(s) \/ MonitorEnds(s) \/ EndServer(s)

-----------------------------------------------------------------------------
(* gRPC: a server that is up takes calls; Shutdown waits for those under    *)
(* way.                                                                     *)

TakeCall(s, c) ==
    /\ server[s] = "up" /\ From(c) \notin calls[s]
    /\ calls' = [calls EXCEPT ![s] = @ \cup {From(c)}]
    /\ UNCHANGED <<mainVars, state, shouldStop, threadVars, server, clientVars,
                   objectVars, hasty>>

(* The handler of call x ends; RegisterService and UnregisterService end    *)
(* whether or not etcd and Redis did what they were asked.                  *)
FinishCall(s, x) ==
    /\ x \in calls[s]
    /\ calls' = [calls EXCEPT ![s] = @ \ {x}]
    /\ UNCHANGED <<mainVars, state, shouldStop, threadVars, server, clientVars,
                   objectVars, hasty>>

ShutdownDone(s) ==
    /\ server[s] = "closing" /\ calls[s] = {}
    /\ server' = [server EXCEPT ![s] = "down"]
    /\ UNCHANGED <<mainVars, state, shouldStop, threadVars, calls, clientVars,
                   objectVars, hasty>>

-----------------------------------------------------------------------------
(* The destructors.  step = "own": the class's own destructor is about to   *)
(* run; "members": its members are about to be destroyed; "stop": Stop is   *)
(* about to be called, by that destructor or by ~BaseServiceServer; "join": *)
(* ~BaseServiceServer is past Stop.                                         *)

Dying == main.phase = "leave"
Own == Current \notin gone     \* Stop was called by the class's destructor

(* What follows Stop.                                                       *)
AfterStop == IF Own THEN "members" ELSE "join"

OwnDestructor ==
    /\ Dying /\ step = "own"
    /\ step' = IF Current \in StopsFirst THEN "stop" ELSE "members"
    /\ UNCHANGED <<main, state, shouldStop, threadVars, server, calls, clientVars,
                   objectVars, hasty>>

DestroyMembers ==
    /\ Dying /\ step = "members"
    /\ gone' = gone \cup {Current}
    /\ step' = "stop"
    /\ UNCHANGED <<main, state, shouldStop, threadVars, server, calls, clientVars,
                   destroyed, hasty>>

(* Stop returns at once unless the service is running.                      *)
StopRefused ==
    /\ Dying /\ step = "stop" /\ state[Current] # "running"
    /\ hasty' = IF state[Current] = "starting"
                THEN [hasty EXCEPT !.early = @ \cup {Current}] ELSE hasty
    /\ step' = AfterStop
    /\ UNCHANGED <<main, state, shouldStop, threadVars, server, calls, clientVars,
                   objectVars>>

(* Mutant of StopBegins: the flags stay as they are.                        *)
StopUnflagged ==
    /\ Dying /\ step = "stop" /\ state[Current] = "running"
    /\ state' = [state EXCEPT ![Current] = "stopping"]
    /\ step' = "unregister"
    /\ UNCHANGED <<main, shouldStop, threadVars, server, calls, clientVars,
                   objectVars, hasty>>

StopBegins ==
    /\ Dying /\ step = "stop" /\ state[Current] = "running"
    /\ state' = [state EXCEPT ![Current] = "stopping"]
    /\ shouldStop' = shouldStop \cup {Current}
    /\ step' = "unregister"
    /\ UNCHANGED <<main, threadVars, server, calls, clientVars, objectVars, hasty>>

(* UnregisterFromEtcd: nothing without a client, else a call to Backbon.    *)
UnregisterFromEtcd ==
    /\ Dying /\ step = "unregister"
    /\ step' = IF Current \in client THEN "unregistering" ELSE "shutdown"
    /\ calls' = IF Current \in client
                THEN [calls EXCEPT ![Backbon] = @ \cup {Unregister(Current)}]
                ELSE calls
    /\ UNCHANGED <<main, state, shouldStop, threadVars, server, clientVars,
                   objectVars, hasty>>

(* The answer, whatever it is, and backbon_client_.reset().                 *)
ResetClient ==
    /\ Dying /\ step = "unregistering"
    /\ Unregister(Current) \notin calls[Backbon]
    /\ client' = client \ {Current}
    /\ step' = "shutdown"
    /\ UNCHANGED <<main, state, shouldStop, threadVars, server, calls, registered,
                   objectVars, hasty>>

Shutdown ==
    /\ Dying /\ step = "shutdown"
    /\ IF server[Current] = "up"
       THEN server' = [server EXCEPT ![Current] = "closing"] /\ step' = "closing"
       ELSE step' = "joining" /\ UNCHANGED server
    /\ UNCHANGED <<main, state, shouldStop, threadVars, calls, clientVars,
                   objectVars, hasty>>

ShutdownReturns ==
    /\ Dying /\ step = "closing" /\ server[Current] = "down"
    /\ step' = "joining"
    /\ UNCHANGED <<main, state, shouldStop, threadVars, server, calls, clientVars,
                   objectVars, hasty>>

(* The server thread is joined, kStopped, Stop returns.                     *)
StopJoins ==
    /\ Dying /\ step = "joining" /\ thread[Current] = "ended"
    /\ state' = [state EXCEPT ![Current] = "stopped"]
    /\ step' = AfterStop
    /\ UNCHANGED <<main, shouldStop, threadVars, server, calls, clientVars,
                   objectVars, hasty>>

Destroyed ==
    /\ destroyed' = destroyed \cup {Current}
    /\ main' = IF main.at > 1 THEN [main EXCEPT !.at = @ - 1]
               ELSE [main EXCEPT !.phase = "returned"]
    /\ step' = IF main.at > 1 THEN "own" ELSE "none"
    /\ UNCHANGED <<state, shouldStop, threadVars, server, calls, clientVars, gone, hasty>>

(* Mutant of JoinThread: the destructor trusts Stop.                        *)
TrustStop ==
    /\ Dying /\ step = "join"
    /\ Destroyed

(* ~BaseServiceServer joins the thread that Stop did not.                   *)
JoinThread ==
    /\ Dying /\ step = "join" /\ thread[Current] = "ended"
    /\ Destroyed

Destructor ==
    \/ OwnDestructor \/ DestroyMembers \/ StopRefused \/ StopBegins
    \/ UnregisterFromEtcd \/ ResetClient
    \/ Shutdown \/ ShutdownReturns \/ StopJoins \/ JoinThread

-----------------------------------------------------------------------------
Startup == Start \/ PollBackbon \/ EndSleep \/ WaitForEtcdRegistration

Next ==
    \/ Startup \/ EndServing \/ Throw \/ Destructor
    \/ \E s \in Services : RunServer(s) \/ ShutdownDone(s)
    \/ \E s \in Services : \E x \in calls[s] : FinishCall(s, x)
    \/ \E s \in Services, c \in Outside : TakeCall(s, c)

Spec == Init /\ [][Next]_vars

(* The threads go on, every handler ends (the stores it asks answer or      *)
(* fail) and a blocked Shutdown returns.  Nothing is owed by signals and    *)
(* callers.                                                                 *)
Fairness ==
    /\ WF_vars(Startup) /\ WF_vars(Destructor)
    /\ \A s \in Services :
        /\ WF_vars(RunServer(s)) /\ WF_vars(ShutdownDone(s))
        /\ \A x \in Call : WF_vars(FinishCall(s, x))

LiveSpec == Spec /\ Fairness

-----------------------------------------------------------------------------
Phases == {"start", "poll", "sleep", "wait", "serve", "leave", "returned"}

TypeOK ==
    /\ main \in [phase : Phases, at : 1 .. Len(Order), polls : 0 .. Polls]
    /\ step \in {"none", "own", "members", "stop", "unregister", "unregistering",
                 "shutdown", "closing", "joining", "join"}
    /\ state \in [Services -> {"stopped", "starting", "running", "stopping"}]
    /\ thread \in [Services -> {"none", "build", "mark", "connect", "call", "answer",
                               "wait", "ended"}]
    /\ monitor \in [Services -> {"none", "watch", "shutting", "ended"}]
    /\ server \in [Services -> {"none", "up", "closing", "down"}]
    /\ calls \in [Services -> SUBSET Call]
    /\ shouldStop \subseteq Services /\ client \subseteq Services
    /\ registered \subseteq Services
    /\ gone \subseteq Services /\ destroyed \subseteq gone
    /\ hasty \in [early : SUBSET Services, unregistered : SUBSET Services]

(* Once its destructor has returned nothing of a service is left: neither   *)
(* thread runs, the server is down and no call is under way, on every path  *)
(* out of main (a failed start, an exception, a signal), so no thread       *)
(* touches a destroyed object and no joinable std::thread is destroyed.     *)
NothingOutlives ==
    \A s \in destroyed :
        /\ thread[s] = "ended" /\ monitor[s] \in {"none", "ended"}
        /\ server[s] \in {"none", "down"} /\ calls[s] = {}

(* Calls work on whole objects.  A service that stops in its own destructor *)
(* has no call under way when its members go, unless Stop found it still    *)
(* starting.  BackbonService does not stop there, though RegisterService    *)
(* writes its member keep_alive; it is the order of main that keeps it up   *)
(* and whole as long as any service registers or unregisters.               *)
CallsOnWholeObjects ==
    /\ \A s \in StopsFirst \cap gone : calls[s] = {} \/ s \in hasty.early
    /\ \A s \in Services :
        {Register(s), Unregister(s)} \cap calls[Backbon] # {}
        => server[Backbon] = "up" /\ Backbon \notin gone

(* Stop resets backbon_client_ in main's thread while RunServer may use it  *)
(* in its own.  The wait for the registrations keeps the two apart: while   *)
(* main takes the client away, RunServer is past it, unless main left       *)
(* without having seen the registration.                                    *)
ClientNotInUse ==
    \A s \in Services :
        (Dying /\ Current = s /\ step \in {"unregistering", "shutdown"}
            /\ s \notin hasty.unregistered)
        => thread[s] \notin {"connect", "call", "answer"}

(* Leaving main ends: every destructor returns, unless one of them met a    *)
(* service that was still starting.                                         *)
ShutdownEnds == Dying ~> (main.phase = "returned" \/ hasty.early # {})
=============================================================================
