------------------------- MODULE ClientRuntimeTypes -------------------------
(***************************************************************************)
(* Type correctness of ClientRuntime, for every value of its constants.    *)
(***************************************************************************)
EXTENDS ClientRuntime, TLAPS

\* The part of TypeOK about requests.
NetOK ==
  /\ call \in [Actors -> Calls]
  /\ stray \in [{"register", "deregister"} -> Nat]
  /\ faults \in 0..MaxFaults

\* A request that is sent has a kind and a phase.
LEMMA SendTyped ==
  ASSUME TypeOK, NEW a \in Actors, NEW k \in Kinds, Send(a, k)
  PROVE  call' \in [Actors -> Calls]
  BY DEF TypeOK, Send, Calls, Phases

\* Taking an answer leaves no request behind.
LEMMA ReceiveTyped ==
  ASSUME TypeOK, NEW a \in Actors, NEW p, Receive(a, p)
  PROVE  NetOK'
  BY DEF TypeOK, NetOK, Receive, Calls

\* Giving up a request counts at most one more fault, up to the bound, and at
\* most one more stray request.
LEMMA CallFailsTyped ==
  ASSUME TypeOK, NEW a \in Actors, CallFails(a)
  PROVE  NetOK'
<1>1. CASE Receive(a, "denied")
  BY <1>1, ReceiveTyped
<1>2. CASE GiveUp(a)
  <2>1. call' \in [Actors -> Calls]
    BY <1>2 DEF TypeOK, GiveUp, Calls
  <2>2. faults' \in 0..MaxFaults
    BY <1>2, BoundsAssumption DEF TypeOK, GiveUp
  <2>3. stray' \in [{"register", "deregister"} -> Nat]
    BY <1>2 DEF TypeOK, GiveUp
  <2>. QED  BY <2>1, <2>2, <2>3 DEF NetOK
<1>. QED  BY <1>1, <1>2 DEF CallFails

\* So does an attempt that fails before it is sent.
LEMMA InvalidDefinitionTyped ==
  ASSUME TypeOK, InvalidDefinition
  PROVE  NetOK'
  BY BoundsAssumption DEF TypeOK, NetOK, InvalidDefinition

\* Who is a caller and who is an actor.
LEMMA ActorSets ==
  /\ CanStart \subseteq Callers /\ CanStop \subseteq Callers
  /\ Users \subseteq Callers /\ Runners \subseteq Callers
  /\ Callers \subseteq Actors
  /\ Registrar \in Tasks /\ Heartbeat \in Tasks
  /\ Registrar \in Actors /\ Heartbeat \in Actors
  BY DEF CanStart, CanStop, Callers, Tasks, Actors

\* Every step keeps the types.
LEMMA TypeStep == TypeOK /\ [Next]_vars => TypeOK'
<1>. SUFFICES ASSUME TypeOK, [Next]_vars PROVE TypeOK'
  OBVIOUS
<1>1. ASSUME NEW c \in CanStart, StartEnter(c)  PROVE TypeOK'
  BY <1>1, ActorSets DEF TypeOK, States, Results, CallerSteps, StartSteps,
     StopSteps, UserSteps, StartEnter, taskVars, agentVars, netVars, Go,
     Return
<1>2. ASSUME NEW c \in CanStart, StartBegin(c)  PROVE TypeOK'
  BY <1>2, InvalidDefinitionTyped, ActorSets DEF TypeOK, NetOK, States,
     Results, CallerSteps, StartSteps, StopSteps, UserSteps, StartBegin,
     lifecycleVars, taskVars, agentVars, netVars, Go
<1>3. ASSUME NEW c \in CanStart, StartAttempt(c)  PROVE TypeOK'
  BY <1>3, SendTyped, InvalidDefinitionTyped, ActorSets DEF TypeOK, NetOK,
     States, Results, CallerSteps, StartSteps, StopSteps, UserSteps, Kinds,
     StartAttempt, lifecycleVars, taskVars, agentVars, Go
<1>4. ASSUME NEW c \in CanStart, StartRegistered(c)  PROVE TypeOK'
  BY <1>4, ReceiveTyped, ActorSets DEF TypeOK, NetOK, States, Results,
     CallerSteps, StartSteps, StopSteps, UserSteps, StartRegistered,
     lifecycleVars, taskVars, agentVars, MarkRegistered, Go
<1>5. ASSUME NEW c \in CanStart, StartRetry(c)  PROVE TypeOK'
  BY <1>5, CallFailsTyped, ActorSets DEF TypeOK, NetOK, States, Results,
     CallerSteps, StartSteps, StopSteps, UserSteps, StartRetry, lifecycleVars,
     taskVars, agentVars
<1>6. ASSUME NEW c \in CanStart, StartDegraded(c)  PROVE TypeOK'
  BY <1>6, CallFailsTyped, ActorSets DEF TypeOK, NetOK, States, Results,
     CallerSteps, StartSteps, StopSteps, UserSteps, StartDegraded, taskVars,
     agentVars, Go
<1>7. ASSUME NEW c \in CanStart, StartLaunch(c)  PROVE TypeOK'
  BY <1>7, ActorSets DEF TypeOK, States, Results, CallerSteps, StartSteps,
     StopSteps, UserSteps, TaskSteps, RegistrarSteps, HeartbeatSteps,
     StartLaunch, lifecycleVars, agentVars, netVars, Go, Become
<1>8. ASSUME NEW c \in CanStart, StartLaunchHeartbeat(c)  PROVE TypeOK'
  BY <1>8, ActorSets DEF TypeOK, States, Results, CallerSteps, StartSteps,
     StopSteps, UserSteps, TaskSteps,
     RegistrarSteps, HeartbeatSteps, StartLaunchHeartbeat, lifecycleVars, agentVars,
     netVars, Go, Become
<1>9. ASSUME NEW c \in CanStart, StartSettle(c)  PROVE TypeOK'
  BY <1>9, ActorSets DEF TypeOK, States, Results, CallerSteps, StartSteps,
     StopSteps, UserSteps, StartSettle, taskVars, agentVars, netVars, Go,
     Return, StartReturns
<1>10. ASSUME NEW c \in CanStart, StartSettleSwap(c)  PROVE TypeOK'
  BY <1>10, ActorSets DEF TypeOK, States, Results, CallerSteps, StartSteps,
     StopSteps, UserSteps, StartSettleSwap, taskVars, agentVars, netVars, Go,
     Return, StartReturns
<1>11. ASSUME NEW c \in CanStart, StartFailed(c)  PROVE TypeOK'
  BY <1>11, ActorSets DEF TypeOK, States, Results, CallerSteps, StartSteps,
     StopSteps, UserSteps, StartFailed, taskVars, agentVars, netVars
<1>12. ASSUME NEW c \in Runners, RunContextDone(c)  PROVE TypeOK'
  BY <1>12, ActorSets DEF TypeOK, States, Results, CallerSteps, StartSteps,
     StopSteps, UserSteps, RunContextDone, lifecycleVars, taskVars, agentVars,
     netVars, Go
<1>13. ASSUME NEW c \in Runners, RunObservesDone(c)  PROVE TypeOK'
  BY <1>13, ActorSets DEF TypeOK, States, Results, CallerSteps, StartSteps,
     StopSteps, UserSteps, RunObservesDone, lifecycleVars, taskVars,
     agentVars, netVars, Return
<1>14. ASSUME NEW c \in CanStop, StopEnter(c)  PROVE TypeOK'
  BY <1>14, ActorSets DEF TypeOK, States, Results, CallerSteps, StartSteps,
     StopSteps, UserSteps, StopEnter, taskVars, agentVars, netVars, Go, Return
<1>15. ASSUME NEW c \in CanStop, StopCancel(c)  PROVE TypeOK'
  BY <1>15, ActorSets DEF TypeOK, States, Results, CallerSteps, StartSteps,
     StopSteps, UserSteps, StopCancel, taskVars, agentVars, netVars, Go
<1>16. ASSUME NEW c \in CanStop, StopJoined(c)  PROVE TypeOK'
  BY <1>16, SendTyped, ActorSets DEF TypeOK, States, Results, CallerSteps,
     StartSteps, StopSteps, UserSteps, Kinds, StopJoined, lifecycleVars,
     taskVars, agentVars, netVars, Go
<1>17. ASSUME NEW c \in CanStop, StopDeregistered(c)  PROVE TypeOK'
  <2>1. reg' \in [id: BOOLEAN, registered: BOOLEAN]
    BY <1>17 DEF TypeOK, StopDeregistered, MarkLost
  <2>. QED
    BY <1>17, ReceiveTyped, <2>1, ActorSets DEF TypeOK, NetOK, States,
       Results, CallerSteps, StartSteps, StopSteps, UserSteps,
       StopDeregistered, lifecycleVars, taskVars, agentVars, MarkLost
<1>18. ASSUME NEW c \in CanStop, StopDeregisterFails(c)  PROVE TypeOK'
  BY <1>18, CallFailsTyped, ActorSets DEF TypeOK, NetOK, States, Results,
     CallerSteps, StartSteps, StopSteps, UserSteps, StopDeregisterFails,
     lifecycleVars, taskVars, agentVars
<1>19. ASSUME NEW c \in CanStart \union CanStop, FinishState(c)  PROVE TypeOK'
  <2>1. pc' \in [Callers -> CallerSteps] /\ state' \in States
    BY <1>19, ActorSets
    DEF TypeOK, States, CallerSteps, StopSteps, FinishState, Go
  <2>. QED  BY <1>19, <2>1 DEF TypeOK, FinishState, taskVars, agentVars, netVars
<1>20. ASSUME NEW c \in CanStart \union CanStop, FinishClose(c)  PROVE TypeOK'
  <2>1. pc' \in [Callers -> CallerSteps]
    BY <1>20, ActorSets DEF TypeOK, CallerSteps, FinishClose, Go
  <2>2. errs' \in [n: 0..ErrorsBuffer, closed: BOOLEAN] /\ done' \in BOOLEAN
        /\ opMu' \in CanStart \union CanStop \union {NoOne}
    BY <1>20 DEF TypeOK, FinishClose
  <2>. QED  BY <1>20, <2>1, <2>2 DEF TypeOK, FinishClose, taskVars, agentVars, netVars
<1>21. ASSUME NEW u \in Users, UserRegister(u)  PROVE TypeOK'
  BY <1>21, SendTyped, BoundsAssumption, ActorSets DEF TypeOK, States,
     Results, CallerSteps, StartSteps, StopSteps, UserSteps, Kinds,
     UserRegister, lifecycleVars, taskVars, agentVars, Go
<1>22. ASSUME NEW u \in Users, UserDeregister(u)  PROVE TypeOK'
  BY <1>22, SendTyped, BoundsAssumption, ActorSets DEF TypeOK, States,
     Results, CallerSteps, StartSteps, StopSteps, UserSteps, Kinds,
     UserDeregister, lifecycleVars, taskVars, agentVars, Go
<1>23. ASSUME NEW u \in Users, UserRegistered(u)  PROVE TypeOK'
  BY <1>23, ReceiveTyped, ActorSets DEF TypeOK, NetOK, States, Results,
     CallerSteps, StartSteps, StopSteps, UserSteps, UserRegistered,
     lifecycleVars, taskVars, agentVars, MarkRegistered, Go
<1>24. ASSUME NEW u \in Users, UserDeregistered(u)  PROVE TypeOK'
  <2>1. reg' \in [id: BOOLEAN, registered: BOOLEAN]
    BY <1>24 DEF TypeOK, UserDeregistered, MarkLost
  <2>. QED
    BY <1>24, ReceiveTyped, <2>1, ActorSets DEF TypeOK, NetOK, States,
       Results, CallerSteps, StartSteps, StopSteps, UserSteps,
       UserDeregistered, lifecycleVars, taskVars, agentVars, MarkLost, Go
<1>25. ASSUME NEW u \in Users, UserCallFails(u)  PROVE TypeOK'
  BY <1>25, CallFailsTyped, ActorSets DEF TypeOK, NetOK, States, Results,
     CallerSteps, StartSteps, StopSteps, UserSteps, UserCallFails,
     lifecycleVars, taskVars, agentVars, Go
<1>26. ASSUME RegistrarExit  PROVE TypeOK'
  BY <1>26, ActorSets DEF TypeOK, States, TaskSteps, RegistrarSteps,
     HeartbeatSteps, RegistrarExit, lifecycleVars, callerVars, agentVars,
     netVars, Become
<1>27. ASSUME RegistrarLoop  PROVE TypeOK'
  BY <1>27, ActorSets DEF TypeOK, States, TaskSteps, RegistrarSteps,
     HeartbeatSteps, RegistrarLoop, lifecycleVars, callerVars, agentVars,
     netVars, Become, At
<1>28. ASSUME RegistrarAttempt  PROVE TypeOK'
  BY <1>28, SendTyped, ActorSets DEF TypeOK, States, TaskSteps,
     RegistrarSteps, HeartbeatSteps, Kinds, RegistrarAttempt, lifecycleVars,
     callerVars, agentVars, Become, At
<1>29. ASSUME RegistrarRegistered  PROVE TypeOK'
  BY <1>29, ReceiveTyped, ActorSets DEF TypeOK, NetOK, States, TaskSteps,
     RegistrarSteps, HeartbeatSteps, RegistrarRegistered, lifecycleVars,
     callerVars, agentVars, MarkRegistered, Become, At
<1>30. ASSUME RegistrarFailed  PROVE TypeOK'
  BY <1>30, CallFailsTyped, InvalidDefinitionTyped, BoundsAssumption,
     ActorSets DEF TypeOK, NetOK, States, TaskSteps, RegistrarSteps,
     HeartbeatSteps, RegistrarFailed, callerVars, agentVars, Become, At,
     Report
<1>31. ASSUME SetRunningLoad  PROVE TypeOK'
  <2>1. outage' \in BOOLEAN
    BY <1>31, Zenon DEF TypeOK, SetRunningLoad
  <2>. QED
    BY <1>31, <2>1, ActorSets DEF TypeOK, States, TaskSteps, RegistrarSteps,
       HeartbeatSteps, SetRunningLoad, lifecycleVars, callerVars, agentVars,
       netVars, Become, At
<1>32. ASSUME SetRunningSwap  PROVE TypeOK'
  BY <1>32, ActorSets DEF TypeOK, States, TaskSteps, RegistrarSteps,
     HeartbeatSteps, SetRunningSwap, callerVars, agentVars, netVars, Become,
     At
<1>33. ASSUME RegistrarWatch  PROVE TypeOK'
  BY <1>33, SendTyped, ActorSets DEF TypeOK, States, TaskSteps,
     RegistrarSteps, HeartbeatSteps, Kinds, RegistrarWatch, lifecycleVars,
     callerVars, agentVars, Become, At
<1>34. ASSUME WatchSucceeds  PROVE TypeOK'
  <2>1. outage' \in BOOLEAN
    BY <1>34, Zenon DEF TypeOK, WatchSucceeds
  <2>. QED
    BY <1>34, ReceiveTyped, <2>1, ActorSets DEF TypeOK, NetOK, States,
       TaskSteps, RegistrarSteps, HeartbeatSteps, WatchSucceeds,
       lifecycleVars, callerVars, agentVars, Become, At
<1>35. ASSUME WatchLost  PROVE TypeOK'
  <2>1. reg' \in [id: BOOLEAN, registered: BOOLEAN]
    BY <1>35 DEF TypeOK, WatchLost, MarkLost
  <2>. QED
    BY <1>35, ReceiveTyped, <2>1, ActorSets DEF TypeOK, NetOK, States,
       TaskSteps, RegistrarSteps, HeartbeatSteps, WatchLost, lifecycleVars,
       callerVars, agentVars, MarkLost, Become, At
<1>36. ASSUME WatchFails  PROVE TypeOK'
  <2>1. outage' \in BOOLEAN
    BY <1>36, Zenon DEF TypeOK, WatchFails
  <2>. QED
    BY <1>36, CallFailsTyped, <2>1, ActorSets DEF TypeOK, NetOK, States,
       TaskSteps, RegistrarSteps, HeartbeatSteps, WatchFails, lifecycleVars,
       callerVars, agentVars, Become, At
<1>37. ASSUME SetDegradedLoad  PROVE TypeOK'
  BY <1>37, ActorSets DEF TypeOK, States, TaskSteps, RegistrarSteps,
     HeartbeatSteps, SetDegradedLoad, lifecycleVars, callerVars, agentVars,
     netVars, Become, At
<1>38. ASSUME SetDegradedSwap  PROVE TypeOK'
  BY <1>38, ActorSets DEF TypeOK, States, TaskSteps, RegistrarSteps,
     HeartbeatSteps, SetDegradedSwap, callerVars, agentVars, netVars, Become,
     At
<1>39. ASSUME ReportOutage  PROVE TypeOK'
  BY <1>39, BoundsAssumption, ActorSets DEF TypeOK, States, TaskSteps,
     RegistrarSteps, HeartbeatSteps, ReportOutage, callerVars, agentVars,
     netVars, Become, At, Report
<1>40. ASSUME HeartbeatExit  PROVE TypeOK'
  BY <1>40, ActorSets DEF TypeOK, States, TaskSteps, RegistrarSteps,
     HeartbeatSteps, HeartbeatExit, lifecycleVars, callerVars, agentVars,
     netVars, Become, At
<1>41. ASSUME HeartbeatSend  PROVE TypeOK'
  BY <1>41, SendTyped, ActorSets DEF TypeOK, States, TaskSteps,
     RegistrarSteps, HeartbeatSteps, Kinds, HeartbeatSend, lifecycleVars,
     callerVars, agentVars, Become, At
<1>42. ASSUME HeartbeatDone  PROVE TypeOK'
  BY <1>42, ReceiveTyped, CallFailsTyped, ActorSets DEF TypeOK, NetOK, States,
     TaskSteps, RegistrarSteps, HeartbeatSteps, HeartbeatDone, lifecycleVars,
     callerVars, agentVars, Become, At
<1>43. ASSUME NEW a \in Actors, AgentProcesses(a)  PROVE TypeOK'
  BY <1>43, ActorSets DEF TypeOK, AgentProcesses, lifecycleVars, taskVars,
     callerVars, clientVars, Calls, Phases, NoCall, Apply, Outcome
<1>44. ASSUME NEW a \in Actors, AgentRefuses(a)  PROVE TypeOK'
  BY <1>44, BoundsAssumption, ActorSets DEF TypeOK, AgentRefuses,
     lifecycleVars, taskVars, callerVars, agentVars, clientVars, Calls,
     Phases, NoCall
<1>45. ASSUME NEW k \in DOMAIN stray, AgentProcessesStray(k)  PROVE TypeOK'
  BY <1>45, ActorSets DEF TypeOK, AgentProcessesStray, lifecycleVars,
     taskVars, callerVars, clientVars, Apply, Outcome
<1>46. ASSUME AgentStops  PROVE TypeOK'
  <2>1. hasService' \in BOOLEAN
    BY <1>46, Zenon DEF TypeOK, AgentStops
  <2>2. call' \in [Actors -> Calls]
    <3>1. \A a \in Actors : call[a] # NoCall => call[a] \in [kind: Kinds, phase: Phases]
      BY DEF TypeOK, Calls
    <3>2. \A a \in Actors : call[a] # NoCall =>
            [call[a] EXCEPT !.phase = "broken"] \in [kind: Kinds, phase: Phases]
      BY <3>1 DEF Phases
    <3>. QED  BY <1>46, <3>2 DEF AgentStops, Calls
  <2>3. stray' \in [{"register", "deregister"} -> Nat]
    BY <1>46 DEF TypeOK, AgentStops
  <2>4. faults' \in 0..MaxFaults
    BY <1>46, BoundsAssumption DEF TypeOK, AgentStops
  <2>. QED
    BY <1>46, <2>1, <2>2, <2>3, <2>4
       DEF TypeOK, AgentStops, lifecycleVars, taskVars, callerVars, clientVars
<1>47. ASSUME AgentStarts  PROVE TypeOK'
  BY <1>47, ActorSets DEF TypeOK, AgentStarts, lifecycleVars, taskVars,
     callerVars, netVars, clientVars
<1>48. ASSUME AgentReaps  PROVE TypeOK'
  <2>1. hasService' \in BOOLEAN
    BY <1>48, Zenon DEF TypeOK, AgentReaps
  <2>. QED
    BY <1>48, BoundsAssumption, <2>1, ActorSets DEF TypeOK, AgentReaps,
       lifecycleVars, taskVars, callerVars, clientVars
<1>49. ASSUME ReadErrors  PROVE TypeOK'
  BY <1>49, BoundsAssumption, ActorSets DEF TypeOK, States, TaskSteps,
     RegistrarSteps, HeartbeatSteps, ReadErrors, taskVars, callerVars,
     agentVars, netVars
<1>50. CASE UNCHANGED vars
  BY <1>50 DEF TypeOK, vars
<1>. QED
  BY <1>1, <1>2, <1>3, <1>4, <1>5, <1>6, <1>7, <1>8, <1>9, <1>10, <1>11,
     <1>12, <1>13, <1>14, <1>15, <1>16, <1>17, <1>18, <1>19, <1>20, <1>21,
     <1>22, <1>23, <1>24, <1>25, <1>26, <1>27, <1>28, <1>29, <1>30, <1>31,
     <1>32, <1>33, <1>34, <1>35, <1>36, <1>37, <1>38, <1>39, <1>40, <1>41,
     <1>42, <1>43, <1>44, <1>45, <1>46, <1>47, <1>48, <1>49, <1>50 DEF Next,
     StartProgress, RunStep, StopProgress, FinishStep, UserStep, UserAnswered,
     RegistrarStep, HeartbeatStep, AgentStep

\* Every variable of the runtime keeps its type, whatever the callers, tasks,
\* configurations and bounds are.
THEOREM TypeCorrect == Spec => []TypeOK
<1>1. Init => TypeOK
  <2>. SUFFICES ASSUME Init PROVE TypeOK
    OBVIOUS
  <2>1. config \in Configs /\ cancelled \in BOOLEAN /\ draining \in BOOLEAN /\ done \in BOOLEAN
    BY Zenon DEF Init
  <2>2. outage \in BOOLEAN /\ agentUp \in BOOLEAN /\ hasService \in BOOLEAN
    BY Zenon DEF Init
  <2>3. reg \in [id: BOOLEAN, registered: BOOLEAN]
    BY DEF Init
  <2>4. errs \in [n: 0..ErrorsBuffer, closed: BOOLEAN]
    BY BoundsAssumption DEF Init
  <2>5. call \in [Actors -> Calls] /\ stray \in [{"register", "deregister"} -> Nat]
    BY DEF Init, Calls
  <2>. QED
    BY BoundsAssumption, <2>1, <2>2, <2>3, <2>4, <2>5
       DEF Init, TypeOK, States, CallerSteps, Results, TaskSteps
<1>. QED  BY <1>1, TypeStep, PTL DEF Spec

=============================================================================
