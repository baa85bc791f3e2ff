---------------------------- MODULE ClientRuntime ----------------------------
(***************************************************************************)
(* The managed runtime of a consulx.Client: Start, Stop and Run, the       *)
(* registrar and heartbeat tasks, the explicit Register and Deregister     *)
(* calls, the shared registration record, and the part of a Consul agent   *)
(* they talk to.                                                           *)
(*                                                                         *)
(* The lifecycle state is an atomic integer that Start, Stop and the       *)
(* registrar write without a common lock: setState is one atomic Swap, but *)
(* setDegraded and setRunning load the state first and swap afterwards, so *)
(* each is two steps here (registrar at "degrade" then "swapDegraded", at  *)
(* "recover" then "swapRunning").                                          *)
(*                                                                         *)
(* A request is outstanding in `call' from Send until its caller receives  *)
(* the answer or gives up (timeout, cancelled context, broken connection). *)
(* A caller that gives up does not recall the request: the agent may still *)
(* process it, and `stray' counts those requests.                          *)
(***************************************************************************)
EXTENDS Naturals, FiniteSets

CONSTANTS
  Starters,     \* callers of Client.Start
  Stoppers,     \* callers of Client.Stop
  Runners,      \* callers of Client.Run
  Users,        \* callers of Client.Register and Client.Deregister
  Registrar,    \* the task of runRegistrar
  Heartbeat,    \* the task of runHeartbeat
  NoOne,        \* opMu is free
  Configs,      \* the LifecycleConfig, RetryConfig and HealthConfig switches tried
  ErrorsBuffer, \* errorsBuffer
  MaxFaults,    \* bound: agent crashes, reaps, refusals and lost answers
  MaxUserCalls  \* bound: explicit Register and Deregister calls

Tasks    == {Registrar, Heartbeat}
CanStart == Starters \union Runners
CanStop  == Stoppers \union Runners
Callers  == CanStart \union CanStop \union Users
Actors   == Callers \union Tasks

(***************************************************************************)
(* autoRegister, failFast and deregister are the LifecycleConfig booleans, *)
(* limited says the retry policy may give up (MaxAttempts or MaxElapsed is *)
(* set), ttl that the health check is CheckTTL.                            *)
(***************************************************************************)
ConfigType ==
  [autoRegister: BOOLEAN, failFast: BOOLEAN, deregister: BOOLEAN,
   limited: BOOLEAN, ttl: BOOLEAN]

ASSUME ActorsAssumption ==
  /\ Registrar # Heartbeat
  /\ Callers \intersect Tasks = {}
  /\ Starters \intersect Stoppers = {}
  /\ Starters \intersect Runners = {}
  /\ Stoppers \intersect Runners = {}
  /\ Users \intersect (CanStart \union CanStop) = {}
  /\ NoOne \notin Actors

ASSUME ConfigsAssumption == Configs \subseteq ConfigType

ASSUME BoundsAssumption ==
  /\ ErrorsBuffer \in Nat \ {0}
  /\ MaxFaults \in Nat
  /\ MaxUserCalls \in Nat

VARIABLES
  config,      \* the configuration switches, fixed by New
  state,       \* lifecycle.state
  opMu,        \* the holder of lifecycle.opMu
  cancelled,   \* the runtime context is done
  draining,    \* health.Registry.draining
  errs,        \* lifecycle.errs and errClosed
  done,        \* lifecycle.done is closed
  pc,          \* where each public call is
  result,      \* what each public call returned
  task,        \* where each runtime task is
  resume,      \* where the registrar goes on after setDegraded
  outage,      \* failures > 0 in runRegistrar
  reg,         \* registration.current: ServiceID # "" and Registered
  call,        \* the outstanding request of each actor
  stray,       \* requests abandoned by their caller and not yet processed
  agentUp,     \* the Consul agent answers
  hasService,  \* the agent knows the service
  faults,      \* faults so far
  userCalls    \* explicit calls so far

lifecycleVars == <<state, opMu, cancelled, draining, errs, done>>
taskVars      == <<task, resume, outage>>
callerVars    == <<pc, result, userCalls>>
agentVars     == <<agentUp, hasService>>
netVars       == <<call, stray, faults>>

vars == <<config, state, opMu, cancelled, draining, errs, done, pc, result,
          task, resume, outage, reg, call, stray, agentUp, hasService, faults,
          userCalls>>

States  == {"idle", "starting", "running", "degraded", "stopping", "stopped"}
Results == {"none", "ok", "err", "alreadyStarted", "alreadyStopped", "notStarted"}
Kinds   == {"register", "deregister", "watch", "ttl"}

(***************************************************************************)
(* A request is "sent" until the agent processes it; "broken" when its     *)
(* connection is refused or lost; otherwise the phase is the HTTP outcome. *)
(***************************************************************************)
Phases == {"sent", "ok", "notFound", "denied", "broken"}
NoCall == [kind |-> "none", phase |-> "none"]
Calls  == [kind: Kinds, phase: Phases] \union {NoCall}

StartSteps == {"starting", "attempt", "registering", "launch", "launchHeartbeat",
               "settle", "settleSwap", "failed", "waiting"}
StopSteps  == {"stop", "cancelling", "joining", "deregistering", "finishing", "closing"}
UserSteps  == {"userRegister", "userDeregister"}
CallerSteps == {"ready", "returned"} \union StartSteps \union StopSteps
                 \union UserSteps

RegistrarSteps == {"loop", "register", "registering", "recover", "swapRunning",
                   "watch", "watching", "degrade", "swapDegraded", "report"}
HeartbeatSteps == {"select", "updating"}
TaskSteps == {"off", "exited"} \union RegistrarSteps \union HeartbeatSteps

-----------------------------------------------------------------------------

Init ==
  /\ config \in Configs
  /\ state = "idle"
  /\ opMu = NoOne
  /\ cancelled = FALSE
  /\ draining = FALSE
  /\ errs = [n |-> 0, closed |-> FALSE]
  /\ done = FALSE
  /\ pc = [c \in Callers |-> "ready"]
  /\ result = [c \in Callers |-> "none"]
  /\ task = [t \in Tasks |-> "off"]
  /\ resume = "loop"
  /\ outage = FALSE
  /\ reg = [id |-> FALSE, registered |-> FALSE]
  /\ call = [a \in Actors |-> NoCall]
  /\ stray = [k \in {"register", "deregister"} |-> 0]
  /\ agentUp \in BOOLEAN
  /\ hasService = FALSE
  /\ faults = 0
  /\ userCalls = 0

-----------------------------------------------------------------------------
(***************************************************************************)
(* Requests, seen from the client.                                         *)
(***************************************************************************)

Send(a, kind) ==
  call' = [call EXCEPT ![a] = [kind |-> kind,
                               phase |-> IF agentUp THEN "sent" ELSE "broken"]]

\* The caller takes the agent's answer p.
Receive(a, p) ==
  /\ call[a].phase = p
  /\ call' = [call EXCEPT ![a] = NoCall]
  /\ UNCHANGED <<stray, faults>>

\* The caller stops waiting: its connection broke, its context was cancelled
\* (runtime tasks), or its timeout passed. A request the agent has not
\* processed yet may still be processed later.
GiveUp(a) ==
  /\ call[a] # NoCall
  /\ call' = [call EXCEPT ![a] = NoCall]
  /\ \/ /\ call[a].phase = "broken" \/ (a \in Tasks /\ cancelled)
        /\ UNCHANGED faults
     \/ /\ call[a].phase # "broken" /\ ~(a \in Tasks /\ cancelled)
        /\ faults < MaxFaults
        /\ faults' = faults + 1
  /\ \/ UNCHANGED stray
     \/ /\ call[a].phase = "sent"
        /\ call[a].kind \in DOMAIN stray
        /\ stray' = [stray EXCEPT ![call[a].kind] = @ + 1]

CallFails(a) == Receive(a, "denied") \/ GiveUp(a)

\* registration.set with Registered, and markLost
MarkRegistered == reg' = [id |-> TRUE, registered |-> TRUE]
MarkLost       == reg' = [reg EXCEPT !.registered = FALSE]

\* An attempt that fails before a request is sent: the endpoint cannot be
\* resolved or the agent does not support a field of the definition.
InvalidDefinition ==
  /\ faults < MaxFaults
  /\ faults' = faults + 1
  /\ UNCHANGED <<call, stray>>

-----------------------------------------------------------------------------
(***************************************************************************)
(* Start.                                                                  *)
(***************************************************************************)

Go(c, step)      == pc' = [pc EXCEPT ![c] = step]
Return(c, r)     == /\ pc' = [pc EXCEPT ![c] = "returned"]
                    /\ result' = [result EXCEPT ![c] = r]

\* A runtime task goes on at step.
Become(t, step) == task' = [task EXCEPT ![t] = step]

\* Start returns nil: Run goes on to wait for its context.
StartReturns(c) ==
  /\ opMu' = NoOne
  /\ \/ c \in Runners /\ Go(c, "waiting") /\ UNCHANGED result
     \/ c \in Starters /\ Return(c, "ok")

StartEnter(c) ==
  /\ pc[c] = "ready"
  /\ opMu = NoOne
  /\ \/ /\ state = "idle"
        /\ state' = "starting"
        /\ opMu' = c
        /\ Go(c, "starting")
        /\ UNCHANGED result
     \/ /\ state \in {"stopping", "stopped"}
        /\ Return(c, "alreadyStopped")
        /\ UNCHANGED <<state, opMu>>
     \/ /\ state \in {"starting", "running", "degraded"}
        /\ Return(c, "alreadyStarted")
        /\ UNCHANGED <<state, opMu>>
  /\ UNCHANGED <<config, cancelled, draining, errs, done, taskVars, reg, netVars,
                 agentVars, userCalls>>

StartBegin(c) ==
  /\ pc[c] = "starting"
  /\ \/ /\ ~config.autoRegister
        /\ Go(c, "settle")
        /\ UNCHANGED netVars
     \/ /\ config.autoRegister
        /\ Go(c, "attempt")
        /\ UNCHANGED netVars
     \/ /\ config.autoRegister
        /\ InvalidDefinition
        /\ Go(c, "failed")
  /\ UNCHANGED <<config, lifecycleVars, result, taskVars, reg, agentVars, userCalls>>

StartAttempt(c) ==
  /\ pc[c] = "attempt"
  /\ \/ /\ Send(c, "register")
        /\ Go(c, "registering")
        /\ UNCHANGED <<stray, faults>>
     \/ /\ InvalidDefinition
        /\ Go(c, "failed")
  /\ UNCHANGED <<config, lifecycleVars, result, taskVars, reg, agentVars, userCalls>>

StartRegistered(c) ==
  /\ pc[c] = "registering"
  /\ Receive(c, "ok")
  /\ MarkRegistered
  /\ Go(c, "launch")
  /\ UNCHANGED <<config, lifecycleVars, result, taskVars, agentVars, userCalls>>

\* FailFast: retried until the policy, a permanent error or StartTimeout ends
\* the attempts.
StartRetry(c) ==
  /\ pc[c] = "registering"
  /\ config.failFast
  /\ CallFails(c)
  /\ pc' \in {[pc EXCEPT ![c] = s] : s \in {"attempt", "failed"}}
  /\ UNCHANGED <<config, lifecycleVars, result, taskVars, reg, agentVars, userCalls>>

\* Without FailFast, one failed attempt degrades the runtime and the registrar
\* takes over. No task runs yet, so nothing can write the state in between.
StartDegraded(c) ==
  /\ pc[c] = "registering"
  /\ ~config.failFast
  /\ CallFails(c)
  /\ state' = IF state \in {"running", "starting"} THEN "degraded" ELSE state
  /\ Go(c, "launch")
  /\ UNCHANGED <<config, opMu, cancelled, draining, errs, done, result, taskVars,
                 reg, agentVars, userCalls>>

StartLaunch(c) ==
  /\ pc[c] = "launch"
  /\ Become(Registrar, "loop")
  /\ Go(c, IF config.ttl THEN "launchHeartbeat" ELSE "settle")
  /\ UNCHANGED <<config, lifecycleVars, result, resume, outage, reg, netVars,
                 agentVars, userCalls>>

StartLaunchHeartbeat(c) ==
  /\ pc[c] = "launchHeartbeat"
  /\ Become(Heartbeat, "select")
  /\ Go(c, "settle")
  /\ UNCHANGED <<config, lifecycleVars, result, resume, outage, reg, netVars,
                 agentVars, userCalls>>

\* The tail of Start loads the state, then swaps it.
StartSettle(c) ==
  /\ pc[c] = "settle"
  /\ \/ /\ state = "starting"
        /\ Go(c, "settleSwap")
        /\ UNCHANGED <<opMu, result>>
     \/ /\ state # "starting"
        /\ StartReturns(c)
  /\ UNCHANGED <<config, state, cancelled, draining, errs, done, taskVars, reg,
                 netVars, agentVars, userCalls>>

StartSettleSwap(c) ==
  /\ pc[c] = "settleSwap"
  /\ state' = "running"
  /\ StartReturns(c)
  /\ UNCHANGED <<config, cancelled, draining, errs, done, taskVars, reg, netVars,
                 agentVars, userCalls>>

\* A failed start cancels the runtime context and joins the tasks before finish.
StartFailed(c) ==
  /\ pc[c] = "failed"
  /\ cancelled' = TRUE
  /\ \A t \in Tasks : task[t] \in {"off", "exited"}
  /\ pc' = [pc EXCEPT ![c] = "finishing"]
  /\ result' = [result EXCEPT ![c] = "err"]
  /\ UNCHANGED <<config, state, opMu, draining, errs, done, taskVars, reg, netVars,
                 agentVars, userCalls>>

\* Run waits for its context or for done.
RunContextDone(c) ==
  /\ c \in Runners
  /\ pc[c] = "waiting"
  /\ Go(c, "stop")
  /\ UNCHANGED <<config, lifecycleVars, result, taskVars, reg, netVars, agentVars,
                 userCalls>>

RunObservesDone(c) ==
  /\ c \in Runners
  /\ pc[c] = "waiting"
  /\ done
  /\ Return(c, "ok")
  /\ UNCHANGED <<config, lifecycleVars, taskVars, reg, netVars, agentVars, userCalls>>

-----------------------------------------------------------------------------
(***************************************************************************)
(* Stop.                                                                   *)
(***************************************************************************)

StopEnter(c) ==
  /\ \/ c \in Stoppers /\ pc[c] = "ready"
     \/ c \in Runners /\ pc[c] = "stop"
  /\ opMu = NoOne
  /\ \/ /\ state = "idle"
        /\ Return(c, "notStarted")
        /\ UNCHANGED <<state, opMu>>
     \/ /\ state = "stopped"
        /\ Return(c, "ok")
        /\ UNCHANGED <<state, opMu>>
     \/ /\ state \notin {"idle", "stopped"}
        /\ state' = "stopping"
        /\ opMu' = c
        /\ Go(c, "cancelling")
        /\ UNCHANGED result
  /\ UNCHANGED <<config, cancelled, draining, errs, done, taskVars, reg, netVars,
                 agentVars, userCalls>>

\* Variant of StopCancel without SetDraining.
StopCancelUndrained(c) ==
  /\ pc[c] = "cancelling"
  /\ cancelled' = TRUE
  /\ Go(c, "joining")
  /\ UNCHANGED <<config, state, opMu, draining, errs, done, result, taskVars, reg,
                 netVars, agentVars, userCalls>>

StopCancel(c) ==
  /\ pc[c] = "cancelling"
  /\ draining' = TRUE
  /\ cancelled' = TRUE
  /\ Go(c, "joining")
  /\ UNCHANGED <<config, state, opMu, errs, done, result, taskVars, reg, netVars,
                 agentVars, userCalls>>

\* Variant of TasksEnded: no wg.Wait.
TasksNotAwaited == TRUE

TasksEnded == \A t \in Tasks : task[t] \in {"off", "exited"}

\* wg.Wait, then shutdown: deregister only a service that is known.
StopJoined(c) ==
  /\ pc[c] = "joining"
  /\ TasksEnded
  /\ \/ /\ config.deregister
        /\ reg.id
        /\ Send(c, "deregister")
        /\ Go(c, "deregistering")
        /\ UNCHANGED <<result, stray, faults>>
     \/ /\ ~config.deregister \/ ~reg.id
        /\ pc' = [pc EXCEPT ![c] = "finishing"]
        /\ result' = [result EXCEPT ![c] = "ok"]
        /\ UNCHANGED netVars
  /\ UNCHANGED <<config, lifecycleVars, taskVars, reg, agentVars, userCalls>>

\* 404 counts as deregistered. The drain delay only waits.
StopDeregistered(c) ==
  /\ pc[c] = "deregistering"
  /\ Receive(c, "ok") \/ Receive(c, "notFound")
  /\ MarkLost
  /\ pc' = [pc EXCEPT ![c] = "finishing"]
  /\ result' = [result EXCEPT ![c] = "ok"]
  /\ UNCHANGED <<config, lifecycleVars, taskVars, agentVars, userCalls>>

StopDeregisterFails(c) ==
  /\ pc[c] = "deregistering"
  /\ CallFails(c)
  /\ pc' = [pc EXCEPT ![c] = "finishing"]
  /\ result' = [result EXCEPT ![c] = "err"]
  /\ UNCHANGED <<config, lifecycleVars, taskVars, reg, agentVars, userCalls>>

\* finish: the terminal state first, then the channels and the lock.
FinishState(c) ==
  /\ pc[c] = "finishing"
  /\ state' = "stopped"
  /\ Go(c, "closing")
  /\ UNCHANGED <<config, opMu, cancelled, draining, errs, done, result, taskVars,
                 reg, netVars, agentVars, userCalls>>

\* Variant of FinishClose that returns without unlocking opMu.
FinishCloseLocked(c) ==
  /\ pc[c] = "closing"
  /\ errs' = [errs EXCEPT !.closed = TRUE]
  /\ done' = TRUE
  /\ Go(c, "returned")
  /\ UNCHANGED <<config, state, opMu, cancelled, draining, result, taskVars, reg,
                 netVars, agentVars, userCalls>>

FinishClose(c) ==
  /\ pc[c] = "closing"
  /\ errs' = [errs EXCEPT !.closed = TRUE]
  /\ done' = TRUE
  /\ opMu' = NoOne
  /\ Go(c, "returned")
  /\ UNCHANGED <<config, state, cancelled, draining, result, taskVars, reg, netVars,
                 agentVars, userCalls>>

-----------------------------------------------------------------------------
(***************************************************************************)
(* The explicit calls. Register is documented for AutoRegister off only.   *)
(***************************************************************************)

UserRegister(u) ==
  /\ pc[u] = "ready"
  /\ ~config.autoRegister
  /\ userCalls < MaxUserCalls
  /\ userCalls' = userCalls + 1
  /\ Send(u, "register")
  /\ Go(u, "userRegister")
  /\ UNCHANGED <<config, lifecycleVars, result, taskVars, reg, stray, faults, agentVars>>

UserDeregister(u) ==
  /\ pc[u] = "ready"
  /\ reg.id
  /\ userCalls < MaxUserCalls
  /\ userCalls' = userCalls + 1
  /\ Send(u, "deregister")
  /\ Go(u, "userDeregister")
  /\ UNCHANGED <<config, lifecycleVars, result, taskVars, reg, stray, faults, agentVars>>

UserRegistered(u) ==
  /\ pc[u] = "userRegister"
  /\ Receive(u, "ok")
  /\ MarkRegistered
  /\ Go(u, "ready")
  /\ UNCHANGED <<config, lifecycleVars, result, taskVars, agentVars, userCalls>>

UserDeregistered(u) ==
  /\ pc[u] = "userDeregister"
  /\ Receive(u, "ok") \/ Receive(u, "notFound")
  /\ MarkLost
  /\ Go(u, "ready")
  /\ UNCHANGED <<config, lifecycleVars, result, taskVars, agentVars, userCalls>>

UserCallFails(u) ==
  /\ pc[u] \in UserSteps
  /\ CallFails(u)
  /\ Go(u, "ready")
  /\ UNCHANGED <<config, lifecycleVars, result, taskVars, reg, agentVars, userCalls>>

-----------------------------------------------------------------------------
(***************************************************************************)
(* The registrar.                                                          *)
(***************************************************************************)

At(t, step) == task[t] = step

\* Variant of Report without the full-buffer case.
ReportUnbounded ==
  errs' = IF errs.closed THEN errs ELSE [errs EXCEPT !.n = @ + 1]

\* report: never blocks, drops when the buffer is full, ignored once closed.
Report ==
  errs' = IF errs.closed \/ errs.n = ErrorsBuffer THEN errs
          ELSE [errs EXCEPT !.n = @ + 1]

\* The places where the registrar looks at its context before going on.
RegistrarExit ==
  /\ cancelled
  /\ task[Registrar] \in {"loop", "register", "watch"}
  /\ Become(Registrar, "exited")
  /\ UNCHANGED <<config, lifecycleVars, callerVars, resume, outage, reg, netVars,
                 agentVars>>

RegistrarLoop ==
  /\ At(Registrar, "loop")
  /\ ~cancelled
  /\ Become(Registrar, IF reg.registered THEN "watch" ELSE "register")
  /\ UNCHANGED <<config, lifecycleVars, callerVars, resume, outage, reg, netVars,
                 agentVars>>

RegistrarAttempt ==
  /\ At(Registrar, "register")
  /\ ~cancelled
  /\ Send(Registrar, "register")
  /\ Become(Registrar, "registering")
  /\ UNCHANGED <<config, lifecycleVars, callerVars, resume, outage, reg, stray,
                 faults, agentVars>>

RegistrarRegistered ==
  /\ At(Registrar, "registering")
  /\ Receive(Registrar, "ok")
  /\ MarkRegistered
  /\ Become(Registrar, "recover")
  /\ UNCHANGED <<config, lifecycleVars, callerVars, resume, outage, agentVars>>

\* A failed attempt: cancelled ends the task, otherwise the policy gives up
\* (limited) or schedules a retry after setDegraded.
RegistrarFailed ==
  /\ \/ At(Registrar, "registering") /\ CallFails(Registrar)
     \/ At(Registrar, "register") /\ ~cancelled /\ InvalidDefinition
  /\ \/ /\ cancelled
        /\ Become(Registrar, "exited")
        /\ UNCHANGED <<resume, errs>>
     \/ /\ ~cancelled
        /\ config.limited
        /\ Report
        /\ Become(Registrar, "exited")
        /\ UNCHANGED resume
     \/ /\ ~cancelled
        /\ resume' = "register"
        /\ Become(Registrar, "degrade")
        /\ UNCHANGED errs
  /\ UNCHANGED <<config, state, opMu, cancelled, draining, done, callerVars, outage,
                 reg, agentVars>>

\* setRunning after a registration or a successful watch.
SetRunningLoad ==
  /\ At(Registrar, "recover")
  /\ Become(Registrar, IF state \in {"degraded", "starting"} THEN "swapRunning"
                       ELSE "watch")
  /\ outage' = FALSE
  /\ UNCHANGED <<config, lifecycleVars, callerVars, resume, reg, netVars, agentVars>>

SetRunningSwap ==
  /\ At(Registrar, "swapRunning")
  /\ state' = "running"
  /\ Become(Registrar, "watch")
  /\ UNCHANGED <<config, opMu, cancelled, draining, errs, done, callerVars, resume,
                 outage, reg, netVars, agentVars>>

RegistrarWatch ==
  /\ At(Registrar, "watch")
  /\ ~cancelled
  /\ Send(Registrar, "watch")
  /\ Become(Registrar, "watching")
  /\ UNCHANGED <<config, lifecycleVars, callerVars, resume, outage, reg, stray,
                 faults, agentVars>>

\* healthy, then setRunning when degraded.
WatchSucceeds ==
  /\ At(Registrar, "watching")
  /\ Receive(Registrar, "ok")
  /\ outage' = FALSE
  /\ Become(Registrar, IF state = "degraded" THEN "swapRunning" ELSE "watch")
  /\ UNCHANGED <<config, lifecycleVars, callerVars, resume, reg, agentVars>>

\* Variant of WatchLost that forgets markLost.
WatchLostUnmarked ==
  /\ At(Registrar, "watching")
  /\ Receive(Registrar, "notFound")
  /\ resume' = "loop"
  /\ Become(Registrar, IF cancelled THEN "exited" ELSE "degrade")
  /\ UNCHANGED <<config, lifecycleVars, callerVars, outage, reg, agentVars>>

\* 404: the agent lost the service.
WatchLost ==
  /\ At(Registrar, "watching")
  /\ Receive(Registrar, "notFound")
  /\ \/ /\ cancelled
        /\ Become(Registrar, "exited")
        /\ UNCHANGED <<reg, resume>>
     \/ /\ ~cancelled
        /\ MarkLost
        /\ resume' = "loop"
        /\ Become(Registrar, "degrade")
  /\ UNCHANGED <<config, lifecycleVars, callerVars, outage, agentVars>>

\* Any other failure: degraded, reported once per outage, retried later.
WatchFails ==
  /\ At(Registrar, "watching")
  /\ CallFails(Registrar)
  /\ \/ /\ cancelled
        /\ Become(Registrar, "exited")
        /\ UNCHANGED <<resume, outage>>
     \/ /\ ~cancelled
        /\ resume' = IF outage THEN "loop" ELSE "report"
        /\ outage' = TRUE
        /\ Become(Registrar, "degrade")
  /\ UNCHANGED <<config, lifecycleVars, callerVars, reg, agentVars>>

SetDegradedLoad ==
  /\ At(Registrar, "degrade")
  /\ Become(Registrar, IF state \in {"running", "starting"} THEN "swapDegraded"
                       ELSE resume)
  /\ UNCHANGED <<config, lifecycleVars, callerVars, resume, outage, reg, netVars,
                 agentVars>>

SetDegradedSwap ==
  /\ At(Registrar, "swapDegraded")
  /\ state' = "degraded"
  /\ Become(Registrar, resume)
  /\ UNCHANGED <<config, opMu, cancelled, draining, errs, done, callerVars, resume,
                 outage, reg, netVars, agentVars>>

ReportOutage ==
  /\ At(Registrar, "report")
  /\ Report
  /\ Become(Registrar, "loop")
  /\ UNCHANGED <<config, state, opMu, cancelled, draining, done, callerVars, resume,
                 outage, reg, netVars, agentVars>>

-----------------------------------------------------------------------------
(***************************************************************************)
(* The heartbeat: a tick or a pushed health change sends one TTL update.   *)
(***************************************************************************)

HeartbeatExit ==
  /\ At(Heartbeat, "select")
  /\ cancelled
  /\ Become(Heartbeat, "exited")
  /\ UNCHANGED <<config, lifecycleVars, callerVars, resume, outage, reg, netVars,
                 agentVars>>

HeartbeatSend ==
  /\ At(Heartbeat, "select")
  /\ ~cancelled
  /\ reg.registered
  /\ Send(Heartbeat, "ttl")
  /\ Become(Heartbeat, "updating")
  /\ UNCHANGED <<config, lifecycleVars, callerVars, resume, outage, reg, stray,
                 faults, agentVars>>

HeartbeatDone ==
  /\ At(Heartbeat, "updating")
  /\ \/ Receive(Heartbeat, "ok")
     \/ Receive(Heartbeat, "notFound")
     \/ CallFails(Heartbeat)
  /\ Become(Heartbeat, "select")
  /\ UNCHANGED <<config, lifecycleVars, callerVars, resume, outage, reg, agentVars>>

-----------------------------------------------------------------------------
(***************************************************************************)
(* The Consul agent and the application reading Errors().                  *)
(***************************************************************************)

clientVars == <<config, lifecycleVars, callerVars, taskVars, reg>>

Apply(kind) ==
  hasService' = (kind = "register" \/ (kind # "deregister" /\ hasService))

Outcome(kind) ==
  IF kind = "register" \/ hasService THEN "ok" ELSE "notFound"

AgentProcesses(a) ==
  /\ agentUp
  /\ call[a].phase = "sent"
  /\ Apply(call[a].kind)
  /\ call' = [call EXCEPT ![a].phase = Outcome(call[a].kind)]
  /\ UNCHANGED <<clientVars, stray, agentUp, faults>>

\* An answer other than success and 404: no leader, missing permission.
AgentRefuses(a) ==
  /\ agentUp
  /\ call[a].phase = "sent"
  /\ faults < MaxFaults
  /\ faults' = faults + 1
  /\ call' = [call EXCEPT ![a].phase = "denied"]
  /\ UNCHANGED <<clientVars, stray, agentVars>>

AgentProcessesStray(kind) ==
  /\ agentUp
  /\ stray[kind] > 0
  /\ stray' = [stray EXCEPT ![kind] = @ - 1]
  /\ Apply(kind)
  /\ UNCHANGED <<clientVars, call, agentUp, faults>>

\* The agent stops, with or without losing its local state.
AgentStops ==
  /\ agentUp
  /\ faults < MaxFaults
  /\ faults' = faults + 1
  /\ agentUp' = FALSE
  /\ hasService' \in {hasService, FALSE}
  /\ call' = [a \in Actors |->
                IF call[a] = NoCall THEN NoCall
                ELSE [call[a] EXCEPT !.phase = "broken"]]
  /\ stray' = [k \in DOMAIN stray |-> 0]
  /\ UNCHANGED clientVars

AgentStarts ==
  /\ ~agentUp
  /\ agentUp' = TRUE
  /\ UNCHANGED <<clientVars, netVars, hasService>>

\* DeregisterCriticalServiceAfter removes a critical service.
AgentReaps ==
  /\ agentUp
  /\ hasService
  /\ faults < MaxFaults
  /\ faults' = faults + 1
  /\ hasService' = FALSE
  /\ UNCHANGED <<clientVars, call, stray, agentUp>>

ReadErrors ==
  /\ errs.n > 0
  /\ errs' = [errs EXCEPT !.n = @ - 1]
  /\ UNCHANGED <<config, state, opMu, cancelled, draining, done, callerVars,
                 taskVars, reg, netVars, agentVars>>

-----------------------------------------------------------------------------

StartProgress(c) ==
  \/ StartBegin(c) \/ StartAttempt(c) \/ StartRegistered(c) \/ StartRetry(c)
  \/ StartDegraded(c) \/ StartLaunch(c) \/ StartLaunchHeartbeat(c)
  \/ StartSettle(c) \/ StartSettleSwap(c) \/ StartFailed(c)

RunStep(c) == RunContextDone(c) \/ RunObservesDone(c)

StopProgress(c) ==
  \/ StopCancel(c) \/ StopJoined(c) \/ StopDeregistered(c)
  \/ StopDeregisterFails(c)

FinishStep(c) == FinishState(c) \/ FinishClose(c)

UserAnswered(u) == UserRegistered(u) \/ UserDeregistered(u) \/ UserCallFails(u)
UserStep(u)     == UserRegister(u) \/ UserDeregister(u) \/ UserAnswered(u)

RegistrarStep ==
  \/ RegistrarExit \/ RegistrarLoop \/ RegistrarAttempt \/ RegistrarRegistered
  \/ RegistrarFailed \/ SetRunningLoad \/ SetRunningSwap \/ RegistrarWatch
  \/ WatchSucceeds \/ WatchLost \/ WatchFails \/ SetDegradedLoad
  \/ SetDegradedSwap \/ ReportOutage

HeartbeatStep == HeartbeatExit \/ HeartbeatSend \/ HeartbeatDone

AgentStep ==
  \/ \E a \in Actors : AgentProcesses(a) \/ AgentRefuses(a)
  \/ \E k \in DOMAIN stray : AgentProcessesStray(k)
  \/ AgentStops \/ AgentStarts \/ AgentReaps

Next ==
  \/ \E c \in CanStart : StartEnter(c) \/ StartProgress(c)
  \/ \E c \in Runners : RunStep(c)
  \/ \E c \in CanStop : StopEnter(c) \/ StopProgress(c)
  \/ \E c \in CanStart \union CanStop : FinishStep(c)
  \/ \E u \in Users : UserStep(u)
  \/ RegistrarStep
  \/ HeartbeatStep
  \/ AgentStep
  \/ ReadErrors

Spec == Init /\ [][Next]_vars

(***************************************************************************)
(* Fairness: the Go scheduler runs every runnable goroutine, opMu is       *)
(* starvation free for the finitely many calls, every request has a        *)
(* deadline, and an agent that stopped is restarted and answers. Nothing   *)
(* makes an application call Start or Stop, cancel Run's context or read   *)
(* Errors(); a Run whose context is done does call Stop.                   *)
(***************************************************************************)
Fairness ==
  /\ \A c \in CanStart : WF_vars(StartProgress(c))
  /\ \A c \in Runners : WF_vars(RunObservesDone(c)) /\ WF_vars(StopEnter(c))
  /\ \A c \in CanStop : WF_vars(StopProgress(c))
  /\ \A c \in CanStart \union CanStop : WF_vars(FinishStep(c))
  /\ \A u \in Users : WF_vars(UserAnswered(u))
  /\ WF_vars(RegistrarStep)
  /\ WF_vars(HeartbeatStep)
  /\ \A a \in Actors : WF_vars(AgentProcesses(a))
  /\ WF_vars(AgentStarts)

FairSpec == Spec /\ Fairness

-----------------------------------------------------------------------------
(***************************************************************************)
(* Properties.                                                             *)
(***************************************************************************)

\* Type correctness of every variable, within the named bounds.
TypeOK ==
  /\ config \in Configs
  /\ state \in States
  /\ opMu \in CanStart \union CanStop \union {NoOne}
  /\ cancelled \in BOOLEAN
  /\ draining \in BOOLEAN
  /\ errs \in [n: 0..ErrorsBuffer, closed: BOOLEAN]
  /\ done \in BOOLEAN
  /\ pc \in [Callers -> CallerSteps]
  /\ result \in [Callers -> Results]
  /\ task \in [Tasks -> TaskSteps]
  /\ resume \in {"register", "loop", "report"}
  /\ outage \in BOOLEAN
  /\ reg \in [id: BOOLEAN, registered: BOOLEAN]
  /\ call \in [Actors -> Calls]
  /\ stray \in [{"register", "deregister"} -> Nat]
  /\ agentUp \in BOOLEAN
  /\ hasService \in BOOLEAN
  /\ faults \in 0..MaxFaults
  /\ userCalls \in 0..MaxUserCalls

\* The caller is inside the section of Start or Stop that holds opMu.
InOperation(c) ==
  pc[c] \in (StartSteps \ {"waiting"}) \union (StopSteps \ {"stop"})

\* The caller's Start moved the Client out of Idle, or its Run did.
Started(c) ==
  \/ pc[c] \in StartSteps
  \/ c \in Starters /\ (pc[c] \in {"finishing", "closing"} \/ result[c] \in {"ok", "err"})
  \/ c \in Runners /\ (pc[c] \in StopSteps \/ result[c] \in {"ok", "err"})

\* A Client is single-use: whatever the order of concurrent Start, Run and
\* Stop calls, at most one of them ever owned the start-up (Start's switch on
\* the state under opMu).
SingleUse == \A c, d \in CanStart : Started(c) /\ Started(d) => c = d

\* Once Done is closed the Client is quiet: the state is Stopped, the errors
\* channel is closed, every runtime goroutine has returned and none of its
\* requests is outstanding (wg.Wait before finish, in Stop and in a failed
\* Start).
QuietAfterDone ==
  done => /\ state = "stopped"
          /\ errs.closed
          /\ cancelled
          /\ \A t \in Tasks : task[t] \in {"off", "exited"} /\ call[t] = NoCall

\* Stop deregisters only after readiness is forced DOWN and every runtime task
\* has ended, so no task of this Client can undo the deregistration.
DeregistrationIsLast ==
  \A c \in CanStop :
    pc[c] = "deregistering" =>
      draining /\ TasksEnded /\ \A t \in Tasks : call[t] = NoCall

\* From the moment Stop sends its deregistration, the agent only ever learns
\* the service again from a request whose caller had already given up (or from
\* an explicit Register of the application).
OnlyAbandonedRegistersAfterStop ==
  [][ (done \/ \E c \in CanStop : pc[c] \in {"deregistering", "finishing", "closing"})
        /\ ~hasService /\ hasService'
      => \/ stray'["register"] < stray["register"]
         \/ \E u \in Users : call[u].kind = "register" ]_vars

\* Stopped is terminal, whatever the registrar or other callers had in
\* progress when finish ran, and no step leads back to Idle or Starting.
StoppedIsTerminal ==
  [][ /\ state = "stopped" => state' = "stopped"
      /\ state' = "starting" => state \in {"idle", "starting"}
      /\ state' # "idle" \/ state = "idle" ]_vars

\* The service the registrar watches and the heartbeat updates is one that was
\* registered: both read reg after a registration, and a loss or a
\* deregistration by another caller keeps the ServiceID.
WatchedServiceIsKnown ==
  \A t \in Tasks : call[t].kind \in {"watch", "ttl"} => reg.id

\* Every call returns: Stop, because the tasks it joins give up their requests
\* when the runtime context is done, whatever the agent does; Start, also while
\* Stop calls queue behind it on opMu; and a Run whose Client was stopped from
\* elsewhere.
CallsReturn ==
  /\ \A c \in CanStop : pc[c] \in {"stop", "cancelling"} ~> pc[c] = "returned"
  /\ \A c \in CanStart : pc[c] = "starting" ~> pc[c] \in {"waiting", "returned"}
  /\ \A c \in Runners : done ~> pc[c] \in {"ready", "returned"}

\* Self-healing: while the runtime stays started and the policy is unlimited,
\* once the faults are over the service is registered in the agent again and
\* the state is Running, and both stay so.
SelfHealing ==
  <>[](~cancelled /\ ~config.limited /\ task[Registrar] \notin {"off", "exited"})
    => <>[](hasService /\ state = "running")

-----------------------------------------------------------------------------
(***************************************************************************)
(* The inductive invariant behind the safety properties.                   *)
(***************************************************************************)

\* Each public call only takes its own steps, each task only its own.
RoleInv ==
  /\ \A u \in Users : pc[u] \in {"ready"} \union UserSteps
  /\ \A c \in Starters : pc[c] \in {"ready", "returned", "finishing", "closing"}
                                      \union (StartSteps \ {"waiting"})
  /\ \A c \in Stoppers : pc[c] \in {"ready", "returned"} \union (StopSteps \ {"stop"})
  /\ \A c \in Runners : pc[c] \notin UserSteps
  /\ task[Registrar] \in {"off", "exited"} \union RegistrarSteps
  /\ task[Heartbeat] \in {"off", "exited"} \union HeartbeatSteps

\* opMu is held exactly while its holder is inside Start or Stop.
LockInv == \A c \in Callers : InOperation(c) <=> opMu = c

\* A request is outstanding only where its sender waits for it.
CallInv ==
  /\ call[Registrar] # NoCall => task[Registrar] \in {"registering", "watching"}
  /\ call[Heartbeat] # NoCall => task[Heartbeat] = "updating"
  /\ \A c \in CanStart \union CanStop : call[c] # NoCall =>
       \/ pc[c] = "registering" /\ call[c].kind = "register"
       \/ pc[c] = "deregistering" /\ call[c].kind = "deregister"

\* How far the runtime has got, seen from the state.
StateInv ==
  /\ state = "idle" =>
       /\ ~cancelled /\ ~done /\ opMu = NoOne
       /\ \A t \in Tasks : task[t] = "off"
       /\ \A c \in CanStart : ~Started(c)
  /\ state = "stopped" => done \/ \E c \in Callers : pc[c] = "closing"
  /\ done => /\ state = "stopped" /\ errs.closed /\ cancelled /\ TasksEnded
             /\ opMu = NoOne

\* The same, seen from the call that is inside Start or Stop.
StepInv ==
  \A c \in Callers :
    /\ pc[c] \in {"starting", "attempt", "registering", "launch", "failed"} =>
         ~cancelled /\ \A t \in Tasks : task[t] = "off"
    /\ pc[c] = "launchHeartbeat" => ~cancelled /\ task[Heartbeat] = "off"
    /\ pc[c] \in {"joining", "deregistering"} => cancelled /\ draining
    /\ pc[c] \in {"finishing", "closing"} => cancelled
    /\ pc[c] \in {"deregistering", "finishing", "closing"} => TasksEnded
    /\ pc[c] = "closing" => state = "stopped"

\* The ServiceID is known wherever the registrar is about to use it.
KnownInv ==
  /\ reg.registered => reg.id
  /\ task[Registrar] \in {"recover", "swapRunning", "watch", "watching"} => reg.id
  /\ WatchedServiceIsKnown

\* The inductive invariant: the part of it every safety theorem rests on.
RuntimeInv ==
  /\ RoleInv /\ LockInv /\ CallInv /\ StateInv /\ StepInv /\ KnownInv /\ SingleUse

-----------------------------------------------------------------------------
(***************************************************************************)
(* The lifecycle contract, implemented by this module.  A task counts as   *)
(* launched once it has left "off".                                        *)
(***************************************************************************)

ContractPhase ==
  IF done THEN "closed"
  ELSE IF cancelled THEN "ending"
  ELSE IF state = "idle" THEN "idle" ELSE "open"

LaunchedTasks == {t \in Tasks : task[t] # "off"}
AliveTasks    == {t \in Tasks : task[t] \notin {"off", "exited"}}

Contract == INSTANCE RuntimeContract
  WITH Goroutines <- Tasks, phase <- ContractPhase, launched <- LaunchedTasks,
       alive <- AliveTasks

\* The runtime implements its contract: goroutines start once, between Start
\* and the cancellation, and Done is closed after the last one has returned.
ImplementsContract == Contract!ContractSpec

-----------------------------------------------------------------------------
(***************************************************************************)
(* Claims of the documentation that the code does not keep.                *)
(***************************************************************************)

\* setDegraded and setRunning "never override Starting, Stopping or Stopped".
StoppingIsNotOverridden ==
  [][ state = "stopping" => state' \in {"stopping", "stopped"} ]_vars

\* "Stop ... deregisters the service": Stop does not skip the deregistration
\* of a service the agent knows.
DeregistersKnownService ==
  [][ \A c \in CanStop :
        pc[c] = "joining" /\ pc'[c] = "finishing" /\ config.deregister
          => ~hasService ]_vars

=============================================================================
