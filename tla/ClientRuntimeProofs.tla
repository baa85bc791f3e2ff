------------------------ MODULE ClientRuntimeProofs ------------------------
(***************************************************************************)
(* The inductive invariant of ClientRuntime and the safety theorems that   *)
(* follow from it, for every value of the constants; and that the runtime  *)
(* implements its contract.                                                *)
(***************************************************************************)
EXTENDS ClientRuntimeTypes

(***************************************************************************)
(* Frames: what each group of steps leaves alone.                          *)
(***************************************************************************)

\* The agent and the reader of Errors() touch no variable of the client's
\* control flow.
LEMMA AgentFrame ==
  ASSUME AgentStep \/ ReadErrors \/ UNCHANGED vars
  PROVE  /\ UNCHANGED <<config, state, opMu, cancelled, draining, done, pc, result,
                        task, resume, outage, reg>>
         /\ TypeOK => errs'.closed = errs.closed
  BY DEF AgentStep, AgentProcesses, AgentRefuses, AgentProcessesStray, AgentStops,
         AgentStarts, AgentReaps, ReadErrors, clientVars, lifecycleVars, callerVars,
         taskVars, vars, TypeOK

\* A runtime task moves no public call, takes no lock and closes nothing.
LEMMA TaskFrame ==
  ASSUME TypeOK, RegistrarStep \/ HeartbeatStep
  PROVE  /\ UNCHANGED <<config, opMu, cancelled, draining, done, pc, result,
                        agentUp, hasService>>
         /\ errs'.closed = errs.closed
<1>1. CASE HeartbeatStep
  BY <1>1 DEF HeartbeatStep, HeartbeatExit, HeartbeatSend, HeartbeatDone, lifecycleVars,
              callerVars, agentVars
<1>2. CASE RegistrarFailed \/ ReportOutage
  BY <1>2 DEF RegistrarFailed, ReportOutage, Report, lifecycleVars, callerVars, agentVars,
              TypeOK
<1>3. CASE \/ RegistrarExit \/ RegistrarLoop \/ RegistrarAttempt \/ RegistrarRegistered
           \/ SetRunningLoad \/ SetRunningSwap \/ RegistrarWatch \/ WatchSucceeds
           \/ WatchLost \/ WatchFails \/ SetDegradedLoad \/ SetDegradedSwap
  BY <1>3 DEF RegistrarExit, RegistrarLoop, RegistrarAttempt, RegistrarRegistered,
              SetRunningLoad, SetRunningSwap, RegistrarWatch, WatchSucceeds, WatchLost,
              WatchFails, SetDegradedLoad, SetDegradedSwap, lifecycleVars, callerVars,
              agentVars
<1>. QED  BY <1>1, <1>2, <1>3 DEF RegistrarStep

\* A public call moves only its own caller, and leaves the agent alone.
LEMMA CallerFrame ==
  ASSUME TypeOK, NEW c \in Callers,
         \/ c \in CanStart /\ (StartEnter(c) \/ StartProgress(c))
         \/ c \in Runners /\ RunStep(c)
         \/ c \in CanStop /\ (StopEnter(c) \/ StopProgress(c))
         \/ c \in CanStart \union CanStop /\ FinishStep(c)
         \/ c \in Users /\ UserStep(c)
  PROVE  /\ \A d \in Callers : d # c => pc'[d] = pc[d] /\ result'[d] = result[d]
         /\ UNCHANGED <<config, resume, outage, agentUp, hasService>>
<1>1. CASE StartEnter(c) \/ StartProgress(c)
  BY <1>1 DEF StartEnter, StartProgress, StartBegin, StartAttempt, StartRegistered,
       StartRetry, StartDegraded, StartLaunch, StartLaunchHeartbeat, StartSettle,
       StartSettleSwap, StartFailed, StartReturns, Go, Return, TypeOK, taskVars, agentVars
<1>2. CASE RunStep(c)
  BY <1>2 DEF RunStep, RunContextDone, RunObservesDone, Go, Return, TypeOK, taskVars,
       agentVars
<1>3. CASE StopEnter(c) \/ StopProgress(c)
  BY <1>3 DEF StopEnter, StopProgress, StopCancel, StopJoined, StopDeregistered,
       StopDeregisterFails, Go, Return, TypeOK, taskVars, agentVars
<1>4. CASE FinishStep(c)
  BY <1>4 DEF FinishStep, FinishState, FinishClose, Go, TypeOK, taskVars, agentVars
<1>5. CASE UserStep(c)
  BY <1>5 DEF UserStep, UserAnswered, UserRegister, UserDeregister, UserRegistered,
       UserDeregistered, UserCallFails, Go, TypeOK, taskVars, agentVars
<1>. QED  BY <1>1, <1>2, <1>3, <1>4, <1>5

\* Each call and each task keeps to its own steps.
LEMMA RoleStep ==
  ASSUME TypeOK, TypeOK', RoleInv, [Next]_vars
  PROVE  RoleInv'
<1>. USE ActorsAssumption, ActorSets DEF TypeOK, RoleInv, StartSteps, StopSteps,
         UserSteps, RegistrarSteps, HeartbeatSteps, CanStart, CanStop, Callers,
         taskVars
<1>1. ASSUME NEW c \in CanStart, StartEnter(c)  PROVE RoleInv'
  BY <1>1 DEF StartEnter, Go, Return
<1>2. ASSUME NEW c \in CanStart, StartBegin(c)  PROVE RoleInv'
  BY <1>2 DEF StartBegin, Go
<1>3. ASSUME NEW c \in CanStart, StartAttempt(c)  PROVE RoleInv'
  BY <1>3 DEF StartAttempt, Go
<1>4. ASSUME NEW c \in CanStart, StartRegistered(c)  PROVE RoleInv'
  BY <1>4 DEF StartRegistered, Go
<1>5. ASSUME NEW c \in CanStart, StartRetry(c)  PROVE RoleInv'
  BY <1>5 DEF StartRetry
<1>6. ASSUME NEW c \in CanStart, StartDegraded(c)  PROVE RoleInv'
  BY <1>6 DEF StartDegraded, Go
<1>7. ASSUME NEW c \in CanStart, StartLaunch(c)  PROVE RoleInv'
  BY <1>7 DEF StartLaunch, Go, Become
<1>8. ASSUME NEW c \in CanStart, StartLaunchHeartbeat(c)  PROVE RoleInv'
  BY <1>8 DEF StartLaunchHeartbeat, Go, Become
<1>9. ASSUME NEW c \in CanStart, StartSettle(c)  PROVE RoleInv'
  BY <1>9 DEF StartSettle, Go, Return, StartReturns
<1>10. ASSUME NEW c \in CanStart, StartSettleSwap(c)  PROVE RoleInv'
  BY <1>10 DEF StartSettleSwap, Go, Return, StartReturns
<1>11. ASSUME NEW c \in CanStart, StartFailed(c)  PROVE RoleInv'
  BY <1>11 DEF StartFailed
<1>12. ASSUME NEW c \in Runners, RunContextDone(c)  PROVE RoleInv'
  BY <1>12 DEF RunContextDone, Go
<1>13. ASSUME NEW c \in Runners, RunObservesDone(c)  PROVE RoleInv'
  BY <1>13 DEF RunObservesDone, Return
<1>14. ASSUME NEW c \in CanStop, StopEnter(c)  PROVE RoleInv'
  BY <1>14 DEF StopEnter, Go, Return
<1>15. ASSUME NEW c \in CanStop, StopCancel(c)  PROVE RoleInv'
  BY <1>15 DEF StopCancel, Go
<1>16. ASSUME NEW c \in CanStop, StopJoined(c)  PROVE RoleInv'
  BY <1>16 DEF StopJoined, Go, TasksEnded
<1>17. ASSUME NEW c \in CanStop, StopDeregistered(c)  PROVE RoleInv'
  BY <1>17 DEF StopDeregistered
<1>18. ASSUME NEW c \in CanStop, StopDeregisterFails(c)  PROVE RoleInv'
  BY <1>18 DEF StopDeregisterFails
<1>19. ASSUME NEW c \in CanStart \union CanStop, FinishState(c)  PROVE RoleInv'
  BY <1>19 DEF FinishState, Go
<1>20. ASSUME NEW c \in CanStart \union CanStop, FinishClose(c)  PROVE RoleInv'
  BY <1>20 DEF FinishClose, Go
<1>21. ASSUME NEW u \in Users, UserRegister(u)  PROVE RoleInv'
  BY <1>21 DEF UserRegister, Go
<1>22. ASSUME NEW u \in Users, UserDeregister(u)  PROVE RoleInv'
  BY <1>22 DEF UserDeregister, Go
<1>23. ASSUME NEW u \in Users, UserRegistered(u)  PROVE RoleInv'
  BY <1>23 DEF UserRegistered, Go
<1>24. ASSUME NEW u \in Users, UserDeregistered(u)  PROVE RoleInv'
  BY <1>24 DEF UserDeregistered, Go
<1>25. ASSUME NEW u \in Users, UserCallFails(u)  PROVE RoleInv'
  BY <1>25 DEF UserCallFails, Go
<1>26. ASSUME RegistrarExit  PROVE RoleInv'
  BY <1>26, TaskFrame DEF RegistrarExit, callerVars, Become
<1>27. ASSUME RegistrarLoop  PROVE RoleInv'
  BY <1>27, TaskFrame DEF RegistrarLoop, callerVars, Become, At
<1>28. ASSUME RegistrarAttempt  PROVE RoleInv'
  BY <1>28, TaskFrame DEF RegistrarAttempt, callerVars, Become, At
<1>29. ASSUME RegistrarRegistered  PROVE RoleInv'
  BY <1>29, TaskFrame DEF RegistrarRegistered, callerVars, Become, At
<1>30. ASSUME RegistrarFailed  PROVE RoleInv'
  BY <1>30, TaskFrame DEF RegistrarFailed, callerVars, Become, At
<1>31. ASSUME SetRunningLoad  PROVE RoleInv'
  BY <1>31, TaskFrame DEF SetRunningLoad, callerVars, Become, At
<1>32. ASSUME SetRunningSwap  PROVE RoleInv'
  BY <1>32, TaskFrame DEF SetRunningSwap, callerVars, Become, At
<1>33. ASSUME RegistrarWatch  PROVE RoleInv'
  BY <1>33, TaskFrame DEF RegistrarWatch, callerVars, Become, At
<1>34. ASSUME WatchSucceeds  PROVE RoleInv'
  BY <1>34, TaskFrame DEF WatchSucceeds, callerVars, Become, At
<1>35. ASSUME WatchLost  PROVE RoleInv'
  BY <1>35, TaskFrame DEF WatchLost, callerVars, Become, At
<1>36. ASSUME WatchFails  PROVE RoleInv'
  BY <1>36, TaskFrame DEF WatchFails, callerVars, Become, At
<1>37. ASSUME SetDegradedLoad  PROVE RoleInv'
  BY <1>37, TaskFrame DEF SetDegradedLoad, callerVars, Become, At
<1>38. ASSUME SetDegradedSwap  PROVE RoleInv'
  BY <1>38, TaskFrame DEF SetDegradedSwap, callerVars, Become, At
<1>39. ASSUME ReportOutage  PROVE RoleInv'
  BY <1>39, TaskFrame DEF ReportOutage, callerVars, Become, At
<1>40. ASSUME HeartbeatExit  PROVE RoleInv'
  BY <1>40, TaskFrame DEF HeartbeatExit, callerVars, Become, At
<1>41. ASSUME HeartbeatSend  PROVE RoleInv'
  BY <1>41, TaskFrame DEF HeartbeatSend, callerVars, Become, At
<1>42. ASSUME HeartbeatDone  PROVE RoleInv'
  BY <1>42, TaskFrame DEF HeartbeatDone, callerVars, Become, At
<1>43. ASSUME AgentStep \/ ReadErrors \/ UNCHANGED vars  PROVE RoleInv'
  BY <1>43, AgentFrame DEF RoleInv
<1>. QED
  BY <1>1, <1>2, <1>3, <1>4, <1>5, <1>6, <1>7, <1>8, <1>9, <1>10, <1>11,
     <1>12, <1>13, <1>14, <1>15, <1>16, <1>17, <1>18, <1>19, <1>20, <1>21,
     <1>22, <1>23, <1>24, <1>25, <1>26, <1>27, <1>28, <1>29, <1>30, <1>31,
     <1>32, <1>33, <1>34, <1>35, <1>36, <1>37, <1>38, <1>39, <1>40, <1>41,
     <1>42, <1>43 DEF Next, StartProgress, RunStep, StopProgress, FinishStep,
     UserStep, UserAnswered, RegistrarStep, HeartbeatStep

\* opMu is taken on entry, held throughout, and released on return.
LEMMA LockStep ==
  ASSUME TypeOK, TypeOK', RoleInv, LockInv, [Next]_vars
  PROVE  LockInv'
<1>. USE ActorsAssumption, ActorSets DEF TypeOK, RoleInv, LockInv, InOperation,
         StartSteps, StopSteps, UserSteps, CanStart, CanStop, Callers, Go,
         lifecycleVars
<1>1. ASSUME NEW c \in CanStart, StartEnter(c)  PROVE LockInv'
  BY <1>1 DEF StartEnter, Return
<1>2. ASSUME NEW c \in CanStart, StartBegin(c)  PROVE LockInv'
  BY <1>2 DEF StartBegin
<1>3. ASSUME NEW c \in CanStart, StartAttempt(c)  PROVE LockInv'
  BY <1>3 DEF StartAttempt
<1>4. ASSUME NEW c \in CanStart, StartRegistered(c)  PROVE LockInv'
  BY <1>4 DEF StartRegistered
<1>5. ASSUME NEW c \in CanStart, StartRetry(c)  PROVE LockInv'
  BY <1>5 DEF StartRetry
<1>6. ASSUME NEW c \in CanStart, StartDegraded(c)  PROVE LockInv'
  BY <1>6 DEF StartDegraded
<1>7. ASSUME NEW c \in CanStart, StartLaunch(c)  PROVE LockInv'
  BY <1>7 DEF StartLaunch, Become
<1>8. ASSUME NEW c \in CanStart, StartLaunchHeartbeat(c)  PROVE LockInv'
  BY <1>8 DEF StartLaunchHeartbeat, Become
<1>9. ASSUME NEW c \in CanStart, StartSettle(c)  PROVE LockInv'
  BY <1>9 DEF StartSettle, Return, StartReturns
<1>10. ASSUME NEW c \in CanStart, StartSettleSwap(c)  PROVE LockInv'
  BY <1>10 DEF StartSettleSwap, Return, StartReturns
<1>11. ASSUME NEW c \in CanStart, StartFailed(c)  PROVE LockInv'
  BY <1>11 DEF StartFailed
<1>12. ASSUME NEW c \in Runners, RunContextDone(c)  PROVE LockInv'
  BY <1>12 DEF RunContextDone
<1>13. ASSUME NEW c \in Runners, RunObservesDone(c)  PROVE LockInv'
  BY <1>13 DEF RunObservesDone, Return
<1>14. ASSUME NEW c \in CanStop, StopEnter(c)  PROVE LockInv'
  BY <1>14 DEF StopEnter, Return
<1>15. ASSUME NEW c \in CanStop, StopCancel(c)  PROVE LockInv'
  BY <1>15 DEF StopCancel
<1>16. ASSUME NEW c \in CanStop, StopJoined(c)  PROVE LockInv'
  BY <1>16 DEF StopJoined
<1>17. ASSUME NEW c \in CanStop, StopDeregistered(c)  PROVE LockInv'
  BY <1>17 DEF StopDeregistered
<1>18. ASSUME NEW c \in CanStop, StopDeregisterFails(c)  PROVE LockInv'
  BY <1>18 DEF StopDeregisterFails
<1>19. ASSUME NEW c \in CanStart \union CanStop, FinishState(c)  PROVE LockInv'
  BY <1>19 DEF FinishState
<1>20. ASSUME NEW c \in CanStart \union CanStop, FinishClose(c)  PROVE LockInv'
  BY <1>20 DEF FinishClose
<1>21. ASSUME NEW u \in Users, UserRegister(u)  PROVE LockInv'
  BY <1>21 DEF UserRegister
<1>22. ASSUME NEW u \in Users, UserDeregister(u)  PROVE LockInv'
  BY <1>22 DEF UserDeregister
<1>23. ASSUME NEW u \in Users, UserRegistered(u)  PROVE LockInv'
  BY <1>23 DEF UserRegistered
<1>24. ASSUME NEW u \in Users, UserDeregistered(u)  PROVE LockInv'
  BY <1>24 DEF UserDeregistered
<1>25. ASSUME NEW u \in Users, UserCallFails(u)  PROVE LockInv'
  BY <1>25 DEF UserCallFails
<1>26. ASSUME RegistrarStep \/ HeartbeatStep  PROVE LockInv'
  BY <1>26, TaskFrame
<1>27. ASSUME AgentStep \/ ReadErrors \/ UNCHANGED vars  PROVE LockInv'
  BY <1>27, AgentFrame DEF LockInv, InOperation
<1>. QED
  BY <1>1, <1>2, <1>3, <1>4, <1>5, <1>6, <1>7, <1>8, <1>9, <1>10, <1>11,
     <1>12, <1>13, <1>14, <1>15, <1>16, <1>17, <1>18, <1>19, <1>20, <1>21,
     <1>22, <1>23, <1>24, <1>25, <1>26, <1>27 DEF Next, StartProgress,
     RunStep, StopProgress, FinishStep, UserStep, UserAnswered

\* The agent only changes the phase of a request, or breaks its connection.
LEMMA AgentCalls ==
  ASSUME TypeOK, AgentStep \/ ReadErrors \/ UNCHANGED vars
  PROVE  \A a \in Actors :
           /\ call'[a] # NoCall => call[a] # NoCall
           /\ call'[a] = NoCall \/ call'[a].kind = call[a].kind
<1>1. ASSUME NEW a \in Actors, AgentProcesses(a) \/ AgentRefuses(a)
      PROVE  /\ call[a] # NoCall
             /\ \E p : call' = [call EXCEPT ![a] = [call[a] EXCEPT !.phase = p]]
  BY <1>1 DEF AgentProcesses, AgentRefuses, NoCall
<1>2. ASSUME NEW a \in Actors, AgentProcesses(a) \/ AgentRefuses(a)
      PROVE  call'[a].kind = call[a].kind /\ \A b \in Actors \ {a} : call'[b] = call[b]
  <2>1. call[a] \in [kind: Kinds, phase: Phases]
    BY <1>1, <1>2 DEF TypeOK, Calls
  <2>. QED  BY <1>1, <1>2, <2>1 DEF TypeOK
<1>3. CASE AgentStops
  <2>1. \A a \in Actors : call[a] # NoCall => call[a] \in [kind: Kinds, phase: Phases]
    BY DEF TypeOK, Calls
  <2>. QED  BY <1>3, <2>1 DEF AgentStops
<1>4. CASE UNCHANGED call
  BY <1>4
<1>. QED
  BY <1>1, <1>2, <1>3, <1>4 DEF AgentStep, AgentProcessesStray, AgentStarts,
     AgentReaps, ReadErrors, netVars, vars

\* A caller waits where its request is outstanding, and nowhere else.
LEMMA CallStep ==
  ASSUME TypeOK, TypeOK', RoleInv, CallInv, StepInv, [Next]_vars
  PROVE  CallInv'
<1>. USE ActorsAssumption, ActorSets DEF TypeOK, RoleInv, CallInv, StartSteps,
         StopSteps, UserSteps, CanStart, CanStop, taskVars, netVars
<1>1. ASSUME NEW c \in CanStart, StartEnter(c)  PROVE CallInv'
  BY <1>1 DEF StartEnter, Go, Return
<1>2. ASSUME NEW c \in CanStart, StartBegin(c)  PROVE CallInv'
  BY <1>2 DEF StartBegin, InvalidDefinition, Go
<1>3. ASSUME NEW c \in CanStart, StartAttempt(c)  PROVE CallInv'
  BY <1>3 DEF StartAttempt, Send, InvalidDefinition, Go
<1>4. ASSUME NEW c \in CanStart, StartRegistered(c)  PROVE CallInv'
  BY <1>4 DEF StartRegistered, Receive, Go
<1>5. ASSUME NEW c \in CanStart, StartRetry(c)  PROVE CallInv'
  BY <1>5 DEF StartRetry, Receive, GiveUp, CallFails
<1>6. ASSUME NEW c \in CanStart, StartDegraded(c)  PROVE CallInv'
  BY <1>6 DEF StartDegraded, Receive, GiveUp, CallFails, Go
<1>7. ASSUME NEW c \in CanStart, StartLaunch(c)  PROVE CallInv'
  BY <1>7 DEF StepInv, Tasks, StartLaunch, Go, Become
<1>8. ASSUME NEW c \in CanStart, StartLaunchHeartbeat(c)  PROVE CallInv'
  BY <1>8 DEF StepInv, Tasks, StartLaunchHeartbeat, Go, Become
<1>9. ASSUME NEW c \in CanStart, StartSettle(c)  PROVE CallInv'
  BY <1>9 DEF StartSettle, Go, Return, StartReturns
<1>10. ASSUME NEW c \in CanStart, StartSettleSwap(c)  PROVE CallInv'
  BY <1>10 DEF StartSettleSwap, Go, Return, StartReturns
<1>11. ASSUME NEW c \in CanStart, StartFailed(c)  PROVE CallInv'
  BY <1>11 DEF StartFailed
<1>12. ASSUME NEW c \in Runners, RunContextDone(c)  PROVE CallInv'
  BY <1>12 DEF RunContextDone, Go
<1>13. ASSUME NEW c \in Runners, RunObservesDone(c)  PROVE CallInv'
  BY <1>13 DEF RunObservesDone, Return
<1>14. ASSUME NEW c \in CanStop, StopEnter(c)  PROVE CallInv'
  BY <1>14 DEF StopEnter, Go, Return
<1>15. ASSUME NEW c \in CanStop, StopCancel(c)  PROVE CallInv'
  BY <1>15 DEF StopCancel, Go
<1>16. ASSUME NEW c \in CanStop, StopJoined(c)  PROVE CallInv'
  BY <1>16 DEF StopJoined, Send, Go
<1>17. ASSUME NEW c \in CanStop, StopDeregistered(c)  PROVE CallInv'
  BY <1>17 DEF StopDeregistered, Receive
<1>18. ASSUME NEW c \in CanStop, StopDeregisterFails(c)  PROVE CallInv'
  BY <1>18 DEF StopDeregisterFails, Receive, GiveUp, CallFails
<1>19. ASSUME NEW c \in CanStart \union CanStop, FinishState(c)  PROVE CallInv'
  BY <1>19 DEF FinishState, Go
<1>20. ASSUME NEW c \in CanStart \union CanStop, FinishClose(c)  PROVE CallInv'
  BY <1>20 DEF FinishClose, Go
<1>21. ASSUME NEW u \in Users, UserRegister(u)  PROVE CallInv'
  BY <1>21 DEF UserRegister, Send, Go
<1>22. ASSUME NEW u \in Users, UserDeregister(u)  PROVE CallInv'
  BY <1>22 DEF UserDeregister, Send, Go
<1>23. ASSUME NEW u \in Users, UserRegistered(u)  PROVE CallInv'
  BY <1>23 DEF UserRegistered, Receive, Go
<1>24. ASSUME NEW u \in Users, UserDeregistered(u)  PROVE CallInv'
  BY <1>24 DEF UserDeregistered, Receive, Go
<1>25. ASSUME NEW u \in Users, UserCallFails(u)  PROVE CallInv'
  BY <1>25 DEF UserCallFails, Receive, GiveUp, CallFails, Go
<1>26. ASSUME RegistrarExit  PROVE CallInv'
  BY <1>26, TaskFrame DEF RegistrarSteps, HeartbeatSteps, RegistrarExit, callerVars,
     Become
<1>27. ASSUME RegistrarLoop  PROVE CallInv'
  BY <1>27, TaskFrame DEF RegistrarSteps, HeartbeatSteps, RegistrarLoop, callerVars,
     Become, At
<1>28. ASSUME RegistrarAttempt  PROVE CallInv'
  BY <1>28, TaskFrame DEF RegistrarSteps, HeartbeatSteps, RegistrarAttempt,
     callerVars, Send, Become, At
<1>29. ASSUME RegistrarRegistered  PROVE CallInv'
  BY <1>29, TaskFrame DEF RegistrarSteps, HeartbeatSteps, RegistrarRegistered,
     callerVars, Receive, Become, At
<1>30. ASSUME RegistrarFailed  PROVE CallInv'
  BY <1>30, TaskFrame DEF RegistrarSteps, HeartbeatSteps, RegistrarFailed,
     callerVars, Receive, GiveUp, CallFails, InvalidDefinition, Become, At
<1>31. ASSUME SetRunningLoad  PROVE CallInv'
  BY <1>31, TaskFrame DEF RegistrarSteps, HeartbeatSteps, SetRunningLoad,
     callerVars, Become, At
<1>32. ASSUME SetRunningSwap  PROVE CallInv'
  BY <1>32, TaskFrame DEF RegistrarSteps, HeartbeatSteps, SetRunningSwap,
     callerVars, Become, At
<1>33. ASSUME RegistrarWatch  PROVE CallInv'
  BY <1>33, TaskFrame DEF RegistrarSteps, HeartbeatSteps, RegistrarWatch,
     callerVars, Send, Become, At
<1>34. ASSUME WatchSucceeds  PROVE CallInv'
  BY <1>34, TaskFrame DEF RegistrarSteps, HeartbeatSteps, WatchSucceeds, callerVars,
     Receive, Become, At
<1>35. ASSUME WatchLost  PROVE CallInv'
  BY <1>35, TaskFrame DEF RegistrarSteps, HeartbeatSteps, WatchLost, callerVars,
     Receive, Become, At
<1>36. ASSUME WatchFails  PROVE CallInv'
  BY <1>36, TaskFrame DEF RegistrarSteps, HeartbeatSteps, WatchFails, callerVars,
     Receive, GiveUp, CallFails, Become, At
<1>37. ASSUME SetDegradedLoad  PROVE CallInv'
  BY <1>37, TaskFrame DEF RegistrarSteps, HeartbeatSteps, SetDegradedLoad,
     callerVars, Become, At
<1>38. ASSUME SetDegradedSwap  PROVE CallInv'
  BY <1>38, TaskFrame DEF RegistrarSteps, HeartbeatSteps, SetDegradedSwap,
     callerVars, Become, At
<1>39. ASSUME ReportOutage  PROVE CallInv'
  BY <1>39, TaskFrame DEF RegistrarSteps, HeartbeatSteps, ReportOutage, callerVars,
     Become, At
<1>40. ASSUME HeartbeatExit  PROVE CallInv'
  BY <1>40, TaskFrame DEF RegistrarSteps, HeartbeatSteps, HeartbeatExit, callerVars,
     Become, At
<1>41. ASSUME HeartbeatSend  PROVE CallInv'
  BY <1>41, TaskFrame DEF RegistrarSteps, HeartbeatSteps, HeartbeatSend, callerVars,
     Send, Become, At
<1>42. ASSUME HeartbeatDone  PROVE CallInv'
  BY <1>42, TaskFrame DEF RegistrarSteps, HeartbeatSteps, HeartbeatDone, callerVars,
     Receive, GiveUp, CallFails, Become, At
<1>43. ASSUME AgentStep \/ ReadErrors \/ UNCHANGED vars  PROVE CallInv'
  BY <1>43, AgentCalls, AgentFrame, ActorSets DEF CallInv
<1>. QED
  BY <1>1, <1>2, <1>3, <1>4, <1>5, <1>6, <1>7, <1>8, <1>9, <1>10, <1>11,
     <1>12, <1>13, <1>14, <1>15, <1>16, <1>17, <1>18, <1>19, <1>20, <1>21,
     <1>22, <1>23, <1>24, <1>25, <1>26, <1>27, <1>28, <1>29, <1>30, <1>31,
     <1>32, <1>33, <1>34, <1>35, <1>36, <1>37, <1>38, <1>39, <1>40, <1>41,
     <1>42, <1>43 DEF Next, StartProgress, RunStep, StopProgress, FinishStep,
     UserStep, UserAnswered, RegistrarStep, HeartbeatStep

\* Where a call is inside Start or Stop tells how far the runtime has got.
LEMMA StepStep ==
  ASSUME TypeOK, TypeOK', RoleInv, LockInv, StateInv, StepInv, [Next]_vars
  PROVE  StepInv'
<1>. USE ActorsAssumption, ActorSets DEF TypeOK, RoleInv, LockInv, StateInv,
         StepInv, InOperation, TasksEnded, Tasks, StartSteps, StopSteps, UserSteps,
         CanStart, CanStop, Callers, taskVars, lifecycleVars
<1>1. ASSUME NEW c \in CanStart, StartEnter(c)  PROVE StepInv'
  BY <1>1 DEF StartEnter, Go, Return
<1>2. ASSUME NEW c \in CanStart, StartBegin(c)  PROVE StepInv'
  BY <1>2 DEF StartBegin, Go
<1>3. ASSUME NEW c \in CanStart, StartAttempt(c)  PROVE StepInv'
  BY <1>3 DEF StartAttempt, Go
<1>4. ASSUME NEW c \in CanStart, StartRegistered(c)  PROVE StepInv'
  BY <1>4 DEF StartRegistered, Go
<1>5. ASSUME NEW c \in CanStart, StartRetry(c)  PROVE StepInv'
  BY <1>5 DEF StartRetry
<1>6. ASSUME NEW c \in CanStart, StartDegraded(c)  PROVE StepInv'
  BY <1>6 DEF StartDegraded, Go
<1>7. ASSUME NEW c \in CanStart, StartLaunch(c)  PROVE StepInv'
  BY <1>7 DEF StartLaunch, Go, Become
<1>8. ASSUME NEW c \in CanStart, StartLaunchHeartbeat(c)  PROVE StepInv'
  BY <1>8 DEF StartLaunchHeartbeat, Go, Become
<1>9. ASSUME NEW c \in CanStart, StartSettle(c)  PROVE StepInv'
  BY <1>9 DEF StartSettle, Go, Return, StartReturns
<1>10. ASSUME NEW c \in CanStart, StartSettleSwap(c)  PROVE StepInv'
  BY <1>10 DEF StartSettleSwap, Go, Return, StartReturns
<1>11. ASSUME NEW c \in CanStart, StartFailed(c)  PROVE StepInv'
  BY <1>11 DEF StartFailed
<1>12. ASSUME NEW c \in Runners, RunContextDone(c)  PROVE StepInv'
  BY <1>12 DEF RunContextDone, Go
<1>13. ASSUME NEW c \in Runners, RunObservesDone(c)  PROVE StepInv'
  BY <1>13 DEF RunObservesDone, Return
<1>14. ASSUME NEW c \in CanStop, StopEnter(c)  PROVE StepInv'
  BY <1>14 DEF StopEnter, Go, Return
<1>15. ASSUME NEW c \in CanStop, StopCancel(c)  PROVE StepInv'
  BY <1>15 DEF StopCancel, Go
<1>16. ASSUME NEW c \in CanStop, StopJoined(c)  PROVE StepInv'
  BY <1>16 DEF StopJoined, Go
<1>17. ASSUME NEW c \in CanStop, StopDeregistered(c)  PROVE StepInv'
  BY <1>17 DEF StopDeregistered
<1>18. ASSUME NEW c \in CanStop, StopDeregisterFails(c)  PROVE StepInv'
  BY <1>18 DEF StopDeregisterFails
<1>19. ASSUME NEW c \in CanStart \union CanStop, FinishState(c)  PROVE StepInv'
  BY <1>19 DEF FinishState, Go
<1>20. ASSUME NEW c \in CanStart \union CanStop, FinishClose(c)  PROVE StepInv'
  BY <1>20 DEF FinishClose, Go
<1>21. ASSUME NEW u \in Users, UserRegister(u)  PROVE StepInv'
  BY <1>21 DEF UserRegister, Go
<1>22. ASSUME NEW u \in Users, UserDeregister(u)  PROVE StepInv'
  BY <1>22 DEF UserDeregister, Go
<1>23. ASSUME NEW u \in Users, UserRegistered(u)  PROVE StepInv'
  BY <1>23 DEF UserRegistered, Go
<1>24. ASSUME NEW u \in Users, UserDeregistered(u)  PROVE StepInv'
  BY <1>24 DEF UserDeregistered, Go
<1>25. ASSUME NEW u \in Users, UserCallFails(u)  PROVE StepInv'
  BY <1>25 DEF UserCallFails, Go
<1>26. ASSUME RegistrarExit  PROVE StepInv'
  BY <1>26, TaskFrame DEF RegistrarSteps, HeartbeatSteps, RegistrarExit, callerVars,
     Become
<1>27. ASSUME RegistrarLoop  PROVE StepInv'
  BY <1>27, TaskFrame DEF RegistrarSteps, HeartbeatSteps, RegistrarLoop, callerVars,
     Become, At
<1>28. ASSUME RegistrarAttempt  PROVE StepInv'
  BY <1>28, TaskFrame DEF RegistrarSteps, HeartbeatSteps, RegistrarAttempt,
     callerVars, Become, At
<1>29. ASSUME RegistrarRegistered  PROVE StepInv'
  BY <1>29, TaskFrame DEF RegistrarSteps, HeartbeatSteps, RegistrarRegistered,
     callerVars, Become, At
<1>30. ASSUME RegistrarFailed  PROVE StepInv'
  BY <1>30, TaskFrame DEF RegistrarSteps, HeartbeatSteps, RegistrarFailed,
     callerVars, Become, At
<1>31. ASSUME SetRunningLoad  PROVE StepInv'
  BY <1>31, TaskFrame DEF RegistrarSteps, HeartbeatSteps, SetRunningLoad,
     callerVars, Become, At
<1>32. ASSUME SetRunningSwap  PROVE StepInv'
  BY <1>32, TaskFrame DEF RegistrarSteps, HeartbeatSteps, SetRunningSwap,
     callerVars, Become, At
<1>33. ASSUME RegistrarWatch  PROVE StepInv'
  BY <1>33, TaskFrame DEF RegistrarSteps, HeartbeatSteps, RegistrarWatch,
     callerVars, Become, At
<1>34. ASSUME WatchSucceeds  PROVE StepInv'
  BY <1>34, TaskFrame DEF RegistrarSteps, HeartbeatSteps, WatchSucceeds, callerVars,
     Become, At
<1>35. ASSUME WatchLost  PROVE StepInv'
  BY <1>35, TaskFrame DEF RegistrarSteps, HeartbeatSteps, WatchLost, callerVars,
     Become, At
<1>36. ASSUME WatchFails  PROVE StepInv'
  BY <1>36, TaskFrame DEF RegistrarSteps, HeartbeatSteps, WatchFails, callerVars,
     Become, At
<1>37. ASSUME SetDegradedLoad  PROVE StepInv'
  BY <1>37, TaskFrame DEF RegistrarSteps, HeartbeatSteps, SetDegradedLoad,
     callerVars, Become, At
<1>38. ASSUME SetDegradedSwap  PROVE StepInv'
  BY <1>38, TaskFrame DEF RegistrarSteps, HeartbeatSteps, SetDegradedSwap,
     callerVars, Become, At
<1>39. ASSUME ReportOutage  PROVE StepInv'
  BY <1>39, TaskFrame DEF RegistrarSteps, HeartbeatSteps, ReportOutage, callerVars,
     Become, At
<1>40. ASSUME HeartbeatExit  PROVE StepInv'
  BY <1>40, TaskFrame DEF RegistrarSteps, HeartbeatSteps, HeartbeatExit, callerVars,
     Become, At
<1>41. ASSUME HeartbeatSend  PROVE StepInv'
  BY <1>41, TaskFrame DEF RegistrarSteps, HeartbeatSteps, HeartbeatSend, callerVars,
     Become, At
<1>42. ASSUME HeartbeatDone  PROVE StepInv'
  BY <1>42, TaskFrame DEF RegistrarSteps, HeartbeatSteps, HeartbeatDone, callerVars,
     Become, At
<1>43. ASSUME AgentStep \/ ReadErrors \/ UNCHANGED vars  PROVE StepInv'
  BY <1>43, AgentFrame DEF StepInv, TasksEnded
<1>. QED
  BY <1>1, <1>2, <1>3, <1>4, <1>5, <1>6, <1>7, <1>8, <1>9, <1>10, <1>11,
     <1>12, <1>13, <1>14, <1>15, <1>16, <1>17, <1>18, <1>19, <1>20, <1>21,
     <1>22, <1>23, <1>24, <1>25, <1>26, <1>27, <1>28, <1>29, <1>30, <1>31,
     <1>32, <1>33, <1>34, <1>35, <1>36, <1>37, <1>38, <1>39, <1>40, <1>41,
     <1>42, <1>43 DEF Next, StartProgress, RunStep, StopProgress, FinishStep,
     UserStep, UserAnswered, RegistrarStep, HeartbeatStep

\* What the idle and stopped states and a closed Done say about the runtime.
LEMMA StateStep ==
  ASSUME TypeOK, TypeOK', RoleInv, LockInv, StateInv, StepInv, [Next]_vars
  PROVE  StateInv'
<1>. USE ActorsAssumption, ActorSets DEF TypeOK, RoleInv, LockInv, StateInv,
         StepInv, InOperation, TasksEnded, Tasks, Started, StartSteps, StopSteps,
         UserSteps, CanStart, CanStop, Callers, taskVars, lifecycleVars
<1>1. ASSUME NEW c \in CanStart, StartEnter(c)  PROVE StateInv'
  BY <1>1 DEF StartEnter, Go, Return
<1>2. ASSUME NEW c \in CanStart, StartBegin(c)  PROVE StateInv'
  BY <1>2 DEF StartBegin, Go
<1>3. ASSUME NEW c \in CanStart, StartAttempt(c)  PROVE StateInv'
  BY <1>3 DEF StartAttempt, Go
<1>4. ASSUME NEW c \in CanStart, StartRegistered(c)  PROVE StateInv'
  BY <1>4 DEF StartRegistered, Go
<1>5. ASSUME NEW c \in CanStart, StartRetry(c)  PROVE StateInv'
  BY <1>5 DEF StartRetry
<1>6. ASSUME NEW c \in CanStart, StartDegraded(c)  PROVE StateInv'
  BY <1>6 DEF StartDegraded, Go
<1>7. ASSUME NEW c \in CanStart, StartLaunch(c)  PROVE StateInv'
  BY <1>7 DEF StartLaunch, Go, Become
<1>8. ASSUME NEW c \in CanStart, StartLaunchHeartbeat(c)  PROVE StateInv'
  BY <1>8 DEF StartLaunchHeartbeat, Go, Become
<1>9. ASSUME NEW c \in CanStart, StartSettle(c)  PROVE StateInv'
  BY <1>9 DEF StartSettle, Go, Return, StartReturns
<1>10. ASSUME NEW c \in CanStart, StartSettleSwap(c)  PROVE StateInv'
  BY <1>10 DEF StartSettleSwap, Go, Return, StartReturns
<1>11. ASSUME NEW c \in CanStart, StartFailed(c)  PROVE StateInv'
  BY <1>11 DEF StartFailed
<1>12. ASSUME NEW c \in Runners, RunContextDone(c)  PROVE StateInv'
  BY <1>12 DEF RunContextDone, Go
<1>13. ASSUME NEW c \in Runners, RunObservesDone(c)  PROVE StateInv'
  BY <1>13 DEF RunObservesDone, Return
<1>14. ASSUME NEW c \in CanStop, StopEnter(c)  PROVE StateInv'
  BY <1>14 DEF StopEnter, Go, Return
<1>15. ASSUME NEW c \in CanStop, StopCancel(c)  PROVE StateInv'
  BY <1>15 DEF StopCancel, Go
<1>16. ASSUME NEW c \in CanStop, StopJoined(c)  PROVE StateInv'
  BY <1>16 DEF StopJoined, Go
<1>17. ASSUME NEW c \in CanStop, StopDeregistered(c)  PROVE StateInv'
  BY <1>17 DEF StopDeregistered
<1>18. ASSUME NEW c \in CanStop, StopDeregisterFails(c)  PROVE StateInv'
  BY <1>18 DEF StopDeregisterFails
<1>19. ASSUME NEW c \in CanStart \union CanStop, FinishState(c)  PROVE StateInv'
  BY <1>19 DEF FinishState, Go
<1>20. ASSUME NEW c \in CanStart \union CanStop, FinishClose(c)  PROVE StateInv'
  BY <1>20 DEF FinishClose, Go
<1>21. ASSUME NEW u \in Users, UserRegister(u)  PROVE StateInv'
  BY <1>21 DEF UserRegister, Go
<1>22. ASSUME NEW u \in Users, UserDeregister(u)  PROVE StateInv'
  BY <1>22 DEF UserDeregister, Go
<1>23. ASSUME NEW u \in Users, UserRegistered(u)  PROVE StateInv'
  BY <1>23 DEF UserRegistered, Go
<1>24. ASSUME NEW u \in Users, UserDeregistered(u)  PROVE StateInv'
  BY <1>24 DEF UserDeregistered, Go
<1>25. ASSUME NEW u \in Users, UserCallFails(u)  PROVE StateInv'
  BY <1>25 DEF UserCallFails, Go
<1>26. ASSUME RegistrarExit  PROVE StateInv'
  BY <1>26, TaskFrame DEF RegistrarSteps, HeartbeatSteps, RegistrarExit, callerVars,
     Become
<1>27. ASSUME RegistrarLoop  PROVE StateInv'
  BY <1>27, TaskFrame DEF RegistrarSteps, HeartbeatSteps, RegistrarLoop, callerVars,
     Become, At
<1>28. ASSUME RegistrarAttempt  PROVE StateInv'
  BY <1>28, TaskFrame DEF RegistrarSteps, HeartbeatSteps, RegistrarAttempt,
     callerVars, Become, At
<1>29. ASSUME RegistrarRegistered  PROVE StateInv'
  BY <1>29, TaskFrame DEF RegistrarSteps, HeartbeatSteps, RegistrarRegistered,
     callerVars, Become, At
<1>30. ASSUME RegistrarFailed  PROVE StateInv'
  BY <1>30, TaskFrame DEF RegistrarSteps, HeartbeatSteps, RegistrarFailed,
     callerVars, Become, At
<1>31. ASSUME SetRunningLoad  PROVE StateInv'
  BY <1>31, TaskFrame DEF RegistrarSteps, HeartbeatSteps, SetRunningLoad,
     callerVars, Become, At
<1>32. ASSUME SetRunningSwap  PROVE StateInv'
  BY <1>32, TaskFrame DEF RegistrarSteps, HeartbeatSteps, SetRunningSwap,
     callerVars, Become, At
<1>33. ASSUME RegistrarWatch  PROVE StateInv'
  BY <1>33, TaskFrame DEF RegistrarSteps, HeartbeatSteps, RegistrarWatch,
     callerVars, Become, At
<1>34. ASSUME WatchSucceeds  PROVE StateInv'
  BY <1>34, TaskFrame DEF RegistrarSteps, HeartbeatSteps, WatchSucceeds, callerVars,
     Become, At
<1>35. ASSUME WatchLost  PROVE StateInv'
  BY <1>35, TaskFrame DEF RegistrarSteps, HeartbeatSteps, WatchLost, callerVars,
     Become, At
<1>36. ASSUME WatchFails  PROVE StateInv'
  BY <1>36, TaskFrame DEF RegistrarSteps, HeartbeatSteps, WatchFails, callerVars,
     Become, At
<1>37. ASSUME SetDegradedLoad  PROVE StateInv'
  BY <1>37, TaskFrame DEF RegistrarSteps, HeartbeatSteps, SetDegradedLoad,
     callerVars, Become, At
<1>38. ASSUME SetDegradedSwap  PROVE StateInv'
  BY <1>38, TaskFrame DEF RegistrarSteps, HeartbeatSteps, SetDegradedSwap,
     callerVars, Become, At
<1>39. ASSUME ReportOutage  PROVE StateInv'
  BY <1>39, TaskFrame DEF RegistrarSteps, HeartbeatSteps, ReportOutage, callerVars,
     Become, At
<1>40. ASSUME HeartbeatExit  PROVE StateInv'
  BY <1>40, TaskFrame DEF RegistrarSteps, HeartbeatSteps, HeartbeatExit, callerVars,
     Become, At
<1>41. ASSUME HeartbeatSend  PROVE StateInv'
  BY <1>41, TaskFrame DEF RegistrarSteps, HeartbeatSteps, HeartbeatSend, callerVars,
     Become, At
<1>42. ASSUME HeartbeatDone  PROVE StateInv'
  BY <1>42, TaskFrame DEF RegistrarSteps, HeartbeatSteps, HeartbeatDone, callerVars,
     Become, At
<1>43. ASSUME AgentStep \/ ReadErrors \/ UNCHANGED vars  PROVE StateInv'
  BY <1>43, AgentFrame DEF StateInv, TasksEnded, Started, TypeOK
<1>. QED
  BY <1>1, <1>2, <1>3, <1>4, <1>5, <1>6, <1>7, <1>8, <1>9, <1>10, <1>11,
     <1>12, <1>13, <1>14, <1>15, <1>16, <1>17, <1>18, <1>19, <1>20, <1>21,
     <1>22, <1>23, <1>24, <1>25, <1>26, <1>27, <1>28, <1>29, <1>30, <1>31,
     <1>32, <1>33, <1>34, <1>35, <1>36, <1>37, <1>38, <1>39, <1>40, <1>41,
     <1>42, <1>43 DEF Next, StartProgress, RunStep, StopProgress, FinishStep,
     UserStep, UserAnswered, RegistrarStep, HeartbeatStep

\* The ServiceID, once known, stays known, and the registrar watches only then.
LEMMA KnownStep ==
  ASSUME TypeOK, TypeOK', RoleInv, KnownInv, StepInv, [Next]_vars
  PROVE  KnownInv'
<1>. USE ActorsAssumption, ActorSets DEF TypeOK, KnownInv, RoleInv,
         WatchedServiceIsKnown, StepInv, CanStart, CanStop, taskVars, netVars
<1>1. ASSUME NEW c \in CanStart, StartEnter(c)  PROVE KnownInv'
  BY <1>1 DEF StartEnter, Go, Return
<1>2. ASSUME NEW c \in CanStart, StartBegin(c)  PROVE KnownInv'
  BY <1>2 DEF StartBegin, InvalidDefinition, Go
<1>3. ASSUME NEW c \in CanStart, StartAttempt(c)  PROVE KnownInv'
  <2>1. \A t \in Tasks : call'[t] = call[t]
    BY <1>3, ActorsAssumption, ActorSets
    DEF StartAttempt, Send, InvalidDefinition, TypeOK, Tasks, CanStart
  <2>. QED
    BY <1>3, <2>1, ActorSets
    DEF StartAttempt, KnownInv, WatchedServiceIsKnown, taskVars, Go
<1>4. ASSUME NEW c \in CanStart, StartRegistered(c)  PROVE KnownInv'
  BY <1>4 DEF StartRegistered, NoCall, Receive, MarkRegistered, Go
<1>5. ASSUME NEW c \in CanStart, StartRetry(c)  PROVE KnownInv'
  BY <1>5 DEF StartRetry, Tasks, NoCall, Receive, GiveUp, CallFails
<1>6. ASSUME NEW c \in CanStart, StartDegraded(c)  PROVE KnownInv'
  BY <1>6 DEF StartDegraded, Tasks, NoCall, Receive, GiveUp, CallFails, Go
<1>7. ASSUME NEW c \in CanStart, StartLaunch(c)  PROVE KnownInv'
  BY <1>7 DEF StartLaunch, Go, Become
<1>8. ASSUME NEW c \in CanStart, StartLaunchHeartbeat(c)  PROVE KnownInv'
  BY <1>8 DEF StartLaunchHeartbeat, Go, Become
<1>9. ASSUME NEW c \in CanStart, StartSettle(c)  PROVE KnownInv'
  BY <1>9 DEF StartSettle, Go, Return, StartReturns
<1>10. ASSUME NEW c \in CanStart, StartSettleSwap(c)  PROVE KnownInv'
  BY <1>10 DEF StartSettleSwap, Go, Return, StartReturns
<1>11. ASSUME NEW c \in CanStart, StartFailed(c)  PROVE KnownInv'
  BY <1>11 DEF StartFailed, Tasks
<1>12. ASSUME NEW c \in Runners, RunContextDone(c)  PROVE KnownInv'
  BY <1>12 DEF RunContextDone, Go
<1>13. ASSUME NEW c \in Runners, RunObservesDone(c)  PROVE KnownInv'
  BY <1>13 DEF RunObservesDone, Return
<1>14. ASSUME NEW c \in CanStop, StopEnter(c)  PROVE KnownInv'
  BY <1>14 DEF StopEnter, Go, Return
<1>15. ASSUME NEW c \in CanStop, StopCancel(c)  PROVE KnownInv'
  BY <1>15 DEF StopCancel, Go
<1>16. ASSUME NEW c \in CanStop, StopJoined(c)  PROVE KnownInv'
  BY <1>16 DEF StopJoined, Tasks, Send, Go
<1>17. ASSUME NEW c \in CanStop, StopDeregistered(c)  PROVE KnownInv'
  <2>1. \A t \in Tasks : call'[t] = call[t]
    BY <1>17, ActorsAssumption, ActorSets DEF StopDeregistered, Receive, TypeOK, Tasks, CanStop
  <2>2. reg' = [reg EXCEPT !.registered = FALSE] /\ task' = task
    BY <1>17 DEF StopDeregistered, MarkLost, taskVars
  <2>3. reg \in [id: BOOLEAN, registered: BOOLEAN]
    BY DEF TypeOK
  <2>4. reg'.id = reg.id /\ ~reg'.registered
    BY <2>2, <2>3
  <2>. QED  BY <2>1, <2>2, <2>4 DEF KnownInv, WatchedServiceIsKnown
<1>18. ASSUME NEW c \in CanStop, StopDeregisterFails(c)  PROVE KnownInv'
  BY <1>18 DEF StopDeregisterFails, Tasks, NoCall, Receive, GiveUp, CallFails
<1>19. ASSUME NEW c \in CanStart \union CanStop, FinishState(c)  PROVE KnownInv'
  BY <1>19 DEF FinishState, Go
<1>20. ASSUME NEW c \in CanStart \union CanStop, FinishClose(c)  PROVE KnownInv'
  BY <1>20 DEF FinishClose, Go
<1>21. ASSUME NEW u \in Users, UserRegister(u)  PROVE KnownInv'
  BY <1>21 DEF UserRegister, Send, Go
<1>22. ASSUME NEW u \in Users, UserDeregister(u)  PROVE KnownInv'
  BY <1>22 DEF UserDeregister, Send, Go
<1>23. ASSUME NEW u \in Users, UserRegistered(u)  PROVE KnownInv'
  BY <1>23 DEF UserRegistered, NoCall, Receive, MarkRegistered, Go
<1>24. ASSUME NEW u \in Users, UserDeregistered(u)  PROVE KnownInv'
  <2>1. \A t \in Tasks : call'[t] = call[t]
    BY <1>24, ActorsAssumption, ActorSets DEF UserDeregistered, Receive, TypeOK, Tasks, CanStop
  <2>2. reg' = [reg EXCEPT !.registered = FALSE] /\ task' = task
    BY <1>24 DEF UserDeregistered, MarkLost, taskVars
  <2>3. reg \in [id: BOOLEAN, registered: BOOLEAN]
    BY DEF TypeOK
  <2>4. reg'.id = reg.id /\ ~reg'.registered
    BY <2>2, <2>3
  <2>. QED  BY <2>1, <2>2, <2>4 DEF KnownInv, WatchedServiceIsKnown
<1>25. ASSUME NEW u \in Users, UserCallFails(u)  PROVE KnownInv'
  BY <1>25 DEF UserCallFails, Tasks, NoCall, Receive, GiveUp, CallFails, Go
<1>26. ASSUME RegistrarExit  PROVE KnownInv'
  BY <1>26 DEF RegistrarSteps, HeartbeatSteps, RegistrarExit, Become
<1>27. ASSUME RegistrarLoop  PROVE KnownInv'
  BY <1>27 DEF RegistrarSteps, HeartbeatSteps, RegistrarLoop, Become, At
<1>28. ASSUME RegistrarAttempt  PROVE KnownInv'
  BY <1>28 DEF RegistrarSteps, HeartbeatSteps, RegistrarAttempt, Send, Become, At
<1>29. ASSUME RegistrarRegistered  PROVE KnownInv'
  BY <1>29 DEF RegistrarSteps, HeartbeatSteps, RegistrarRegistered, NoCall, Receive,
     MarkRegistered, Become, At
<1>30. ASSUME RegistrarFailed  PROVE KnownInv'
  BY <1>30 DEF RegistrarSteps, HeartbeatSteps, RegistrarFailed, Tasks, NoCall,
     Receive, GiveUp, CallFails, InvalidDefinition, Become, At
<1>31. ASSUME SetRunningLoad  PROVE KnownInv'
  BY <1>31 DEF RegistrarSteps, HeartbeatSteps, SetRunningLoad, Become, At
<1>32. ASSUME SetRunningSwap  PROVE KnownInv'
  BY <1>32 DEF RegistrarSteps, HeartbeatSteps, SetRunningSwap, Become, At
<1>33. ASSUME RegistrarWatch  PROVE KnownInv'
  BY <1>33 DEF RegistrarSteps, HeartbeatSteps, RegistrarWatch, Send, Become, At
<1>34. ASSUME WatchSucceeds  PROVE KnownInv'
  BY <1>34 DEF RegistrarSteps, HeartbeatSteps, WatchSucceeds, NoCall, Receive,
     Become, At
<1>35. ASSUME WatchLost  PROVE KnownInv'
  BY <1>35 DEF RegistrarSteps, HeartbeatSteps, WatchLost, NoCall, Receive, MarkLost,
     Become, At
<1>36. ASSUME WatchFails  PROVE KnownInv'
  BY <1>36 DEF RegistrarSteps, HeartbeatSteps, WatchFails, Tasks, NoCall, Receive,
     GiveUp, CallFails, Become, At
<1>37. ASSUME SetDegradedLoad  PROVE KnownInv'
  BY <1>37 DEF RegistrarSteps, HeartbeatSteps, SetDegradedLoad, Become, At
<1>38. ASSUME SetDegradedSwap  PROVE KnownInv'
  BY <1>38 DEF RegistrarSteps, HeartbeatSteps, SetDegradedSwap, Become, At
<1>39. ASSUME ReportOutage  PROVE KnownInv'
  BY <1>39 DEF RegistrarSteps, HeartbeatSteps, ReportOutage, Become, At
<1>40. ASSUME HeartbeatExit  PROVE KnownInv'
  BY <1>40 DEF RegistrarSteps, HeartbeatSteps, HeartbeatExit, Become, At
<1>41. ASSUME HeartbeatSend  PROVE KnownInv'
  BY <1>41 DEF RegistrarSteps, HeartbeatSteps, HeartbeatSend, Send, Become, At
<1>42. ASSUME HeartbeatDone  PROVE KnownInv'
  BY <1>42 DEF RegistrarSteps, HeartbeatSteps, HeartbeatDone, Tasks, NoCall,
     Receive, GiveUp, CallFails, Become, At
<1>43. ASSUME AgentStep \/ ReadErrors \/ UNCHANGED vars  PROVE KnownInv'
  <2>1. \A t \in Tasks : call'[t].kind = call[t].kind \/ call'[t] = NoCall
    BY <1>43, AgentCalls, ActorSets DEF Tasks
  <2>. QED  BY <1>43, <2>1, AgentFrame DEF KnownInv, WatchedServiceIsKnown, NoCall
<1>. QED
  BY <1>1, <1>2, <1>3, <1>4, <1>5, <1>6, <1>7, <1>8, <1>9, <1>10, <1>11,
     <1>12, <1>13, <1>14, <1>15, <1>16, <1>17, <1>18, <1>19, <1>20, <1>21,
     <1>22, <1>23, <1>24, <1>25, <1>26, <1>27, <1>28, <1>29, <1>30, <1>31,
     <1>32, <1>33, <1>34, <1>35, <1>36, <1>37, <1>38, <1>39, <1>40, <1>41,
     <1>42, <1>43 DEF Next, StartProgress, RunStep, StopProgress, FinishStep,
     UserStep, UserAnswered, RegistrarStep, HeartbeatStep

\* Only a Start that finds the Client idle starts it, and then nobody has.
LEMMA SingleUseStep ==
  ASSUME TypeOK, TypeOK', RoleInv, StateInv, SingleUse, [Next]_vars
  PROVE  SingleUse'
<1>. USE ActorsAssumption, ActorSets DEF TypeOK, RoleInv, StateInv, SingleUse,
         Started, StartSteps, StopSteps, UserSteps, CanStart, CanStop, Callers, Go
<1>1. ASSUME NEW c \in CanStart, StartEnter(c)  PROVE SingleUse'
  BY <1>1 DEF StartEnter, Return
<1>2. ASSUME NEW c \in CanStart, StartBegin(c)  PROVE SingleUse'
  BY <1>2 DEF StartBegin
<1>3. ASSUME NEW c \in CanStart, StartAttempt(c)  PROVE SingleUse'
  BY <1>3 DEF StartAttempt
<1>4. ASSUME NEW c \in CanStart, StartRegistered(c)  PROVE SingleUse'
  BY <1>4 DEF StartRegistered
<1>5. ASSUME NEW c \in CanStart, StartRetry(c)  PROVE SingleUse'
  BY <1>5 DEF StartRetry
<1>6. ASSUME NEW c \in CanStart, StartDegraded(c)  PROVE SingleUse'
  BY <1>6 DEF StartDegraded
<1>7. ASSUME NEW c \in CanStart, StartLaunch(c)  PROVE SingleUse'
  BY <1>7 DEF StartLaunch, Become
<1>8. ASSUME NEW c \in CanStart, StartLaunchHeartbeat(c)  PROVE SingleUse'
  BY <1>8 DEF StartLaunchHeartbeat, Become
<1>9. ASSUME NEW c \in CanStart, StartSettle(c)  PROVE SingleUse'
  BY <1>9 DEF StartSettle, Return, StartReturns
<1>10. ASSUME NEW c \in CanStart, StartSettleSwap(c)  PROVE SingleUse'
  BY <1>10 DEF StartSettleSwap, Return, StartReturns
<1>11. ASSUME NEW c \in CanStart, StartFailed(c)  PROVE SingleUse'
  BY <1>11 DEF StartFailed
<1>12. ASSUME NEW c \in Runners, RunContextDone(c)  PROVE SingleUse'
  BY <1>12 DEF RunContextDone
<1>13. ASSUME NEW c \in Runners, RunObservesDone(c)  PROVE SingleUse'
  BY <1>13 DEF RunObservesDone, Return
<1>14. ASSUME NEW c \in CanStop, StopEnter(c)  PROVE SingleUse'
  BY <1>14 DEF StopEnter, Return
<1>15. ASSUME NEW c \in CanStop, StopCancel(c)  PROVE SingleUse'
  BY <1>15 DEF StopCancel
<1>16. ASSUME NEW c \in CanStop, StopJoined(c)  PROVE SingleUse'
  BY <1>16 DEF StopJoined
<1>17. ASSUME NEW c \in CanStop, StopDeregistered(c)  PROVE SingleUse'
  BY <1>17 DEF StopDeregistered
<1>18. ASSUME NEW c \in CanStop, StopDeregisterFails(c)  PROVE SingleUse'
  BY <1>18 DEF StopDeregisterFails
<1>19. ASSUME NEW c \in CanStart \union CanStop, FinishState(c)  PROVE SingleUse'
  BY <1>19 DEF FinishState
<1>20. ASSUME NEW c \in CanStart \union CanStop, FinishClose(c)  PROVE SingleUse'
  BY <1>20 DEF FinishClose
<1>21. ASSUME NEW u \in Users, UserRegister(u)  PROVE SingleUse'
  BY <1>21 DEF UserRegister
<1>22. ASSUME NEW u \in Users, UserDeregister(u)  PROVE SingleUse'
  BY <1>22 DEF UserDeregister
<1>23. ASSUME NEW u \in Users, UserRegistered(u)  PROVE SingleUse'
  BY <1>23 DEF UserRegistered
<1>24. ASSUME NEW u \in Users, UserDeregistered(u)  PROVE SingleUse'
  BY <1>24 DEF UserDeregistered
<1>25. ASSUME NEW u \in Users, UserCallFails(u)  PROVE SingleUse'
  BY <1>25 DEF UserCallFails
<1>26. ASSUME RegistrarStep \/ HeartbeatStep  PROVE SingleUse'
  BY <1>26, TaskFrame
<1>27. ASSUME AgentStep \/ ReadErrors \/ UNCHANGED vars  PROVE SingleUse'
  BY <1>27, AgentFrame DEF SingleUse, Started
<1>. QED
  BY <1>1, <1>2, <1>3, <1>4, <1>5, <1>6, <1>7, <1>8, <1>9, <1>10, <1>11,
     <1>12, <1>13, <1>14, <1>15, <1>16, <1>17, <1>18, <1>19, <1>20, <1>21,
     <1>22, <1>23, <1>24, <1>25, <1>26, <1>27 DEF Next, StartProgress,
     RunStep, StopProgress, FinishStep, UserStep, UserAnswered

-----------------------------------------------------------------------------
(***************************************************************************)
(* The invariant, and the theorems about Start, Stop and Done.             *)
(***************************************************************************)

\* A Client fresh from New is idle and quiet.
LEMMA InvInit == Init => RuntimeInv
<1>. SUFFICES ASSUME Init PROVE RuntimeInv
  OBVIOUS
<1>1. /\ \A c \in Callers : pc[c] = "ready" /\ result[c] = "none"
      /\ \A t \in Tasks : task[t] = "off"
      /\ \A a \in Actors : call[a] = NoCall
      /\ opMu = NoOne /\ state = "idle"
      /\ ~cancelled /\ ~done
  BY DEF Init
<1>2. ~reg.registered
  BY DEF Init
<1>3. RoleInv
  BY <1>1, ActorSets DEF RoleInv, StartSteps, StopSteps, UserSteps, CanStart, CanStop, Callers
<1>4. LockInv
  BY <1>1, ActorsAssumption, ActorSets DEF LockInv, InOperation, StartSteps, StopSteps
<1>5. CallInv
  BY <1>1, ActorSets DEF CallInv
<1>6. \A c \in CanStart : ~Started(c)
  BY <1>1, ActorSets DEF Started, StartSteps, StopSteps
<1>7. StateInv /\ StepInv /\ SingleUse
  BY <1>1, <1>6 DEF StateInv, StepInv, SingleUse
<1>8. KnownInv
  BY <1>1, <1>2, ActorSets DEF KnownInv, Tasks, WatchedServiceIsKnown, NoCall
<1>. QED  BY <1>3, <1>4, <1>5, <1>7, <1>8 DEF RuntimeInv

\* Every step keeps the invariant.
LEMMA InvStep == TypeOK /\ TypeOK' /\ RuntimeInv /\ [Next]_vars => RuntimeInv'
  BY RoleStep, LockStep, CallStep, StateStep, StepStep, KnownStep, SingleUseStep
  DEF RuntimeInv

\* The inductive invariant of the runtime holds in every reachable state.
THEOREM Invariance == Spec => []RuntimeInv
<1>1. Init => RuntimeInv
  BY InvInit
<1>2. TypeOK /\ TypeOK' /\ RuntimeInv /\ [Next]_vars => RuntimeInv'
  BY InvStep
<1>. QED  BY <1>1, <1>2, TypeCorrect, PTL DEF Spec

\* At most one of all concurrent Start and Run calls owns the start-up.
THEOREM StartedOnce == Spec => []SingleUse
<1>1. RuntimeInv => SingleUse
  BY DEF RuntimeInv
<1>. QED  BY <1>1, Invariance, PTL

\* Once Done is closed, the state is Stopped, Errors is closed, and no runtime
\* goroutine nor any request of one is left.
THEOREM DoneIsQuiet == Spec => []QuietAfterDone
<1>1. RuntimeInv => QuietAfterDone
  BY DEF RuntimeInv, StateInv, CallInv, TasksEnded, QuietAfterDone, Tasks
<1>. QED  BY <1>1, Invariance, PTL

\* While Stop deregisters, readiness is DOWN and no runtime task is left that
\* could register again.
THEOREM DeregistersLast == Spec => []DeregistrationIsLast
<1>1. RuntimeInv => DeregistrationIsLast
  BY ActorSets DEF RuntimeInv, StepInv, CallInv, TasksEnded, DeregistrationIsLast, Tasks
<1>. QED  BY <1>1, Invariance, PTL

\* The lifecycle state of a call inside Start or Stop is never Stopped before
\* that call has finished, and never Idle.
LEMMA InsideNotIdle ==
  ASSUME RuntimeInv, NEW c \in Callers, InOperation(c)
  PROVE  /\ opMu = c /\ state # "idle" /\ ~done
         /\ pc[c] # "closing" => state # "stopped"
<1>1. opMu = c /\ opMu # NoOne
  BY ActorsAssumption, ActorSets DEF RuntimeInv, LockInv
<1>2. \A d \in Callers : pc[d] = "closing" => d = c
  BY <1>1 DEF RuntimeInv, LockInv, InOperation, StopSteps
<1>. QED  BY <1>1, <1>2 DEF RuntimeInv, StateInv

\* Stopped is final: no caller and no task still holds a swap it could apply.
LEMMA TerminalStep ==
  ASSUME TypeOK, RuntimeInv, [Next]_vars
  PROVE  /\ state = "stopped" => state' = "stopped"
         /\ state' = "starting" => state \in {"idle", "starting"}
         /\ state' # "idle" \/ state = "idle"
<1>. DEFINE Terminal ==
       /\ state = "stopped" => state' = "stopped"
       /\ state' = "starting" => state \in {"idle", "starting"}
       /\ state' # "idle" \/ state = "idle"
<1>1. ASSUME NEW c \in CanStart, StartEnter(c) \/ StartProgress(c)  PROVE Terminal
  <2>1. CASE StartSettleSwap(c)
    <3>1. InOperation(c) /\ pc[c] # "closing" /\ c \in Callers
      BY <2>1, ActorSets DEF StartSettleSwap, InOperation, StartSteps
    <3>. QED  BY <2>1, <3>1, InsideNotIdle DEF StartSettleSwap
  <2>2. CASE ~StartSettleSwap(c)
    BY <1>1, <2>2 DEF StartProgress, StartEnter, StartBegin, StartAttempt, StartRegistered,
       StartRetry, StartDegraded, StartLaunch, StartLaunchHeartbeat, StartSettle,
       StartFailed, lifecycleVars
  <2>. QED  BY <2>1, <2>2
<1>2. ASSUME NEW c \in Runners, RunStep(c)  PROVE Terminal
  BY <1>2 DEF RunStep, RunContextDone, RunObservesDone, lifecycleVars
<1>3. ASSUME NEW c \in CanStop, StopEnter(c) \/ StopProgress(c)  PROVE Terminal
  BY <1>3 DEF StopEnter, StopProgress, StopCancel, StopJoined, StopDeregistered,
     StopDeregisterFails, lifecycleVars
<1>4. ASSUME NEW c \in CanStart \union CanStop, FinishStep(c)  PROVE Terminal
  BY <1>4 DEF FinishStep, FinishState, FinishClose
<1>5. ASSUME NEW u \in Users, UserStep(u)  PROVE Terminal
  BY <1>5 DEF UserStep, UserAnswered, UserRegister, UserDeregister, UserRegistered,
     UserDeregistered, UserCallFails, lifecycleVars
<1>6. ASSUME RegistrarStep \/ HeartbeatStep  PROVE Terminal
  <2>1. CASE SetRunningSwap \/ SetDegradedSwap
    <3>1. ~TasksEnded
      BY <2>1, ActorSets DEF SetRunningSwap, SetDegradedSwap, At, TasksEnded
    <3>2. state # "stopped"
      BY <3>1 DEF RuntimeInv, StateInv, StepInv
    <3>. QED  BY <2>1, <3>2 DEF SetRunningSwap, SetDegradedSwap
  <2>2. CASE ~(SetRunningSwap \/ SetDegradedSwap)
    BY <1>6, <2>2 DEF RegistrarStep, HeartbeatStep, RegistrarExit, RegistrarLoop,
       RegistrarAttempt, RegistrarRegistered, RegistrarFailed, SetRunningLoad,
       RegistrarWatch, WatchSucceeds, WatchLost, WatchFails, SetDegradedLoad,
       ReportOutage, HeartbeatExit, HeartbeatSend, HeartbeatDone, lifecycleVars
  <2>. QED  BY <2>1, <2>2
<1>7. ASSUME AgentStep \/ ReadErrors \/ UNCHANGED vars  PROVE Terminal
  BY <1>7, AgentFrame
<1>. QED  BY <1>1, <1>2, <1>3, <1>4, <1>5, <1>6, <1>7 DEF Next

\* Stopped is terminal and a Client is never idle again.
THEOREM StoppedForGood == Spec => StoppedIsTerminal
<1>1. TypeOK /\ RuntimeInv /\ [Next]_vars =>
        [ /\ state = "stopped" => state' = "stopped"
          /\ state' = "starting" => state \in {"idle", "starting"}
          /\ state' # "idle" \/ state = "idle" ]_vars
  BY TerminalStep
<1>. QED  BY <1>1, TypeCorrect, Invariance, PTL DEF Spec, StoppedIsTerminal

\* Once Stop has begun to deregister, no live request registers the service:
\* the tasks have none, and the lock keeps every Start out.
LEMMA LateRegistration ==
  ASSUME TypeOK, RuntimeInv, [Next]_vars, ~hasService, hasService',
         done \/ \E c \in CanStop : pc[c] \in {"deregistering", "finishing", "closing"}
  PROVE  \/ stray'["register"] < stray["register"]
         \/ \E u \in Users : call[u].kind = "register"
<1>1. \/ \E a \in Actors : AgentProcesses(a)
      \/ \E k \in DOMAIN stray : AgentProcessesStray(k)
  <2>1. ASSUME NEW c \in Callers,
               \/ c \in CanStart /\ (StartEnter(c) \/ StartProgress(c))
               \/ c \in Runners /\ RunStep(c)
               \/ c \in CanStop /\ (StopEnter(c) \/ StopProgress(c))
               \/ c \in CanStart \union CanStop /\ FinishStep(c)
               \/ c \in Users /\ UserStep(c)
        PROVE  FALSE
    BY <2>1, CallerFrame
  <2>2. ASSUME RegistrarStep \/ HeartbeatStep  PROVE FALSE
    BY <2>2, TaskFrame
  <2>3. ASSUME ReadErrors \/ UNCHANGED vars  PROVE FALSE
    BY <2>3 DEF ReadErrors, agentVars, vars
  <2>4. AgentStep
    BY <2>1, <2>2, <2>3, ActorSets DEF Next
  <2>. QED  BY <2>4 DEF AgentStep, AgentRefuses, AgentStops, AgentStarts, AgentReaps, agentVars
<1>2. ASSUME NEW a \in Actors, AgentProcesses(a)
      PROVE  \E u \in Users : call[u].kind = "register"
  <2>1. call[a].kind = "register" /\ call[a] # NoCall
    <3>1. hasService' = (call[a].kind = "register" \/ (call[a].kind # "deregister" /\ hasService))
      BY <1>2 DEF AgentProcesses, Apply
    <3>2. call[a].kind = "register"
      BY <3>1, Zenon
    <3>3. call[a] # NoCall
      BY <1>2 DEF AgentProcesses, NoCall
    <3>. QED  BY <3>2, <3>3
  <2>2. TasksEnded
    BY ActorSets DEF RuntimeInv, StateInv, StepInv
  <2>3. a \notin Tasks
    BY <2>1, <2>2 DEF Tasks, TasksEnded, RuntimeInv, CallInv
  <2>4. a \notin CanStart \union CanStop
    <3>1. SUFFICES ASSUME a \in CanStart \union CanStop PROVE FALSE
      OBVIOUS
    <3>2. pc[a] = "registering"
      BY <2>1, <3>1 DEF RuntimeInv, CallInv
    <3>3. InOperation(a) /\ a \in Callers
      BY <3>1, <3>2, ActorSets DEF InOperation, StartSteps
    <3>4. ~done /\ opMu = a
      BY <3>3, InsideNotIdle
    <3>5. PICK c \in CanStop : pc[c] \in {"deregistering", "finishing", "closing"}
      BY <3>4
    <3>6. InOperation(c) /\ c \in Callers
      BY <3>5, ActorSets DEF InOperation, StopSteps
    <3>. QED  BY <3>2, <3>4, <3>5, <3>6, InsideNotIdle
  <2>. QED  BY <2>1, <2>3, <2>4 DEF Actors, Callers
<1>3. ASSUME NEW k \in DOMAIN stray, AgentProcessesStray(k)
      PROVE  stray'["register"] < stray["register"]
  <2>1. k = "register"
    <3>1. hasService' = (k = "register" \/ (k # "deregister" /\ hasService))
      BY <1>3 DEF AgentProcessesStray, Apply
    <3>. QED  BY <3>1, Zenon
  <2>. QED  BY <1>3, <2>1 DEF AgentProcessesStray, TypeOK
<1>. QED  BY <1>1, <1>2, <1>3

\* Nothing but an abandoned request, or the application itself, can register
\* the service behind the back of Stop.
THEOREM NoLateRegistration == Spec => OnlyAbandonedRegistersAfterStop
<1>1. TypeOK /\ RuntimeInv /\ [Next]_vars =>
        [ (done \/ \E c \in CanStop : pc[c] \in {"deregistering", "finishing", "closing"})
            /\ ~hasService /\ hasService'
          => \/ stray'["register"] < stray["register"]
             \/ \E u \in Users : call[u].kind = "register" ]_vars
  BY LateRegistration
<1>. QED  BY <1>1, TypeCorrect, Invariance, PTL DEF Spec, OnlyAbandonedRegistersAfterStop

(***************************************************************************)
(* ClientRuntime implements RuntimeContract: every step of the runtime is  *)
(* a step of the contract, or leaves the contract's variables alone.       *)
(***************************************************************************)

ContractStep == [Contract!ContractNext]_(Contract!contractVars)

\* A step that moves no task, closes nothing and keeps the Client out of Idle,
\* or in it, does not show in the contract.
LEMMA ContractStutter ==
  ASSUME UNCHANGED <<task, cancelled, done>>, (state = "idle") <=> (state' = "idle")
  PROVE  ContractStep
  BY DEF ContractStep, Contract!contractVars, ContractPhase, LaunchedTasks, AliveTasks

\* A launch is the contract's Launch.
LEMMA ContractLaunch ==
  ASSUME TypeOK, RuntimeInv, NEW c \in CanStart, StartLaunch(c) \/ StartLaunchHeartbeat(c)
  PROVE  ContractStep
<1>1. ~cancelled /\ state # "idle" /\ ~done
  <2>1. c \in Callers /\ InOperation(c) /\ pc[c] \in {"launch", "launchHeartbeat"}
    BY ActorSets DEF StartLaunch, StartLaunchHeartbeat, InOperation, StartSteps
  <2>. QED  BY <2>1, InsideNotIdle DEF RuntimeInv, StepInv
<1>2. PICK t \in Tasks, s \in {"loop", "select"} :
        task[t] = "off" /\ task' = [task EXCEPT ![t] = s]
  BY ActorSets DEF StartLaunch, StartLaunchHeartbeat, Become, RuntimeInv, StepInv
<1>3. UNCHANGED <<state, cancelled, done>>
  BY DEF StartLaunch, StartLaunchHeartbeat, lifecycleVars
<1>4. ContractPhase = "open" /\ ContractPhase' = "open"
  BY <1>1, <1>3 DEF ContractPhase
<1>5. t \notin LaunchedTasks /\ LaunchedTasks' = LaunchedTasks \union {t}
       /\ AliveTasks' = AliveTasks \union {t}
  BY <1>2 DEF LaunchedTasks, AliveTasks, TypeOK
<1>6. Contract!Launch(t)
  BY <1>4, <1>5 DEF Contract!Launch
<1>. QED  BY <1>6 DEF ContractStep, Contract!ContractNext

\* Cancelling the runtime context is the contract's EndRuntime.
LEMMA ContractEnd ==
  ASSUME TypeOK, RuntimeInv,
         \/ \E c \in CanStart : StartFailed(c)
         \/ \E c \in CanStop : StopCancel(c)
  PROVE  ContractStep
<1>1. PICK c \in Callers : InOperation(c)
  BY ActorSets DEF StartFailed, StopCancel, InOperation, StartSteps, StopSteps
<1>2. state # "idle" /\ ~done
  BY <1>1, InsideNotIdle
<1>3. cancelled' /\ UNCHANGED <<task, state, done>>
  BY DEF StartFailed, StopCancel, taskVars
<1>4. UNCHANGED <<LaunchedTasks, AliveTasks>>
  BY <1>3 DEF LaunchedTasks, AliveTasks
<1>5. ContractPhase \in {"open", "ending"} /\ ContractPhase' = "ending"
  BY <1>2, <1>3 DEF ContractPhase
<1>. QED
  BY <1>4, <1>5 DEF ContractStep, Contract!ContractNext, Contract!EndRuntime,
     Contract!contractVars

\* Closing Done is the contract's Close.
LEMMA ContractClose ==
  ASSUME TypeOK, RuntimeInv, NEW c \in CanStart \union CanStop, FinishClose(c)
  PROVE  ContractStep
<1>1. c \in Callers /\ InOperation(c)
  BY ActorSets DEF FinishClose, InOperation, StopSteps
<1>2. ~done /\ cancelled /\ TasksEnded
  BY <1>1, InsideNotIdle DEF FinishClose, RuntimeInv, StepInv
<1>3. done' /\ UNCHANGED <<task, state, cancelled>>
  BY DEF FinishClose, taskVars
<1>4. AliveTasks = {} /\ UNCHANGED <<LaunchedTasks, AliveTasks>>
  BY <1>2, <1>3 DEF LaunchedTasks, AliveTasks, TasksEnded
<1>5. ContractPhase = "ending" /\ ContractPhase' = "closed"
  BY <1>2, <1>3 DEF ContractPhase
<1>. QED
  BY <1>4, <1>5 DEF ContractStep, Contract!ContractNext, Contract!Close

\* A step of a task is its return, or does not show in the contract.
LEMMA ContractTask ==
  ASSUME TypeOK, RuntimeInv, RegistrarStep \/ HeartbeatStep
  PROVE  ContractStep
<1>1. PICK t \in Tasks, s \in {"exited"} \union RegistrarSteps \union HeartbeatSteps :
        task[t] \notin {"off", "exited"} /\ task' = [task EXCEPT ![t] = s]
  <2>1. CASE HeartbeatStep
    BY <2>1, ActorSets DEF HeartbeatStep, HeartbeatExit, HeartbeatSend, HeartbeatDone, At,
       Become, HeartbeatSteps
  <2>2. CASE RegistrarExit \/ RegistrarLoop \/ RegistrarAttempt \/ RegistrarRegistered
    BY <2>2, ActorSets DEF RegistrarExit, RegistrarLoop, RegistrarAttempt,
       RegistrarRegistered, At, Become, RegistrarSteps
  <2>3. CASE RegistrarFailed \/ WatchLost \/ WatchFails \/ ReportOutage
    BY <2>3, ActorSets DEF RegistrarFailed, WatchLost, WatchFails, ReportOutage, At, Become,
       RegistrarSteps
  <2>4. CASE \/ SetRunningLoad \/ SetRunningSwap \/ RegistrarWatch \/ WatchSucceeds
             \/ SetDegradedLoad \/ SetDegradedSwap
    BY <2>4, ActorSets DEF SetRunningLoad, SetRunningSwap, RegistrarWatch, WatchSucceeds,
       SetDegradedLoad, SetDegradedSwap, At, Become, RegistrarSteps, TypeOK
  <2>. QED  BY <2>1, <2>2, <2>3, <2>4 DEF RegistrarStep
<1>2. s # "off"
  BY DEF RegistrarSteps, HeartbeatSteps
<1>3. UNCHANGED <<cancelled, done>>
  BY TaskFrame
<1>4. state # "idle"
  BY <1>1 DEF RuntimeInv, StateInv
<1>5. state' # "idle"
  BY <1>4, TerminalStep DEF Next
<1>6. UNCHANGED ContractPhase
  BY <1>3, <1>4, <1>5 DEF ContractPhase
<1>7. UNCHANGED LaunchedTasks
  BY <1>1, <1>2 DEF LaunchedTasks, TypeOK
<1>8. CASE s = "exited"
  <2>1. t \in AliveTasks /\ AliveTasks' = AliveTasks \ {t}
    BY <1>1, <1>8 DEF AliveTasks, TypeOK
  <2>2. Contract!ReturnOf(t)
    BY <1>6, <1>7, <2>1 DEF Contract!ReturnOf
  <2>. QED  BY <2>2 DEF ContractStep, Contract!ContractNext
<1>9. CASE s # "exited"
  <2>1. UNCHANGED AliveTasks
    BY <1>1, <1>2, <1>9 DEF AliveTasks, TypeOK
  <2>. QED  BY <1>6, <1>7, <2>1 DEF ContractStep, Contract!contractVars
<1>. QED  BY <1>8, <1>9

\* Entering Start on an idle Client is the contract's Open.
LEMMA ContractOpen ==
  ASSUME TypeOK, RuntimeInv, NEW c \in CanStart, StartEnter(c)
  PROVE  ContractStep
<1>1. UNCHANGED <<task, cancelled, done>>
  BY DEF StartEnter, taskVars
<1>2. CASE state = "idle" /\ state' = "starting"
  <2>1. ContractPhase = "idle" /\ ContractPhase' = "open"
    BY <1>1, <1>2 DEF ContractPhase, RuntimeInv, StateInv
  <2>2. UNCHANGED <<LaunchedTasks, AliveTasks>>
    BY <1>1 DEF LaunchedTasks, AliveTasks
  <2>. QED  BY <2>1, <2>2 DEF ContractStep, Contract!ContractNext, Contract!Open
<1>3. CASE UNCHANGED state
  BY <1>1, <1>3, ContractStutter
<1>. QED  BY <1>2, <1>3 DEF StartEnter

\* Every step of the runtime is a step of the contract or a stutter.
LEMMA ContractSimulated == TypeOK /\ RuntimeInv /\ [Next]_vars => ContractStep
<1>. SUFFICES ASSUME TypeOK, RuntimeInv, [Next]_vars  PROVE ContractStep
  OBVIOUS
<1>1. ASSUME NEW c \in CanStart, StartProgress(c)  PROVE ContractStep
  <2>1. CASE StartLaunch(c) \/ StartLaunchHeartbeat(c)
    BY <2>1, ContractLaunch
  <2>2. CASE StartFailed(c)
    BY <2>2, ContractEnd
  <2>3. CASE \/ StartBegin(c) \/ StartAttempt(c) \/ StartRegistered(c) \/ StartRetry(c)
             \/ StartDegraded(c) \/ StartSettle(c) \/ StartSettleSwap(c)
    <3>1. c \in Callers /\ InOperation(c)
      BY <2>3, ActorSets DEF StartBegin, StartAttempt, StartRegistered, StartRetry,
         StartDegraded, StartSettle, StartSettleSwap, InOperation, StartSteps
    <3>2. state # "idle" /\ state' # "idle"
      BY <3>1, InsideNotIdle, TerminalStep
    <3>3. UNCHANGED <<task, cancelled, done>>
      BY <2>3 DEF StartBegin, StartAttempt, StartRegistered, StartRetry, StartDegraded,
         StartSettle, StartSettleSwap, lifecycleVars, taskVars
    <3>. QED  BY <3>2, <3>3, ContractStutter
  <2>. QED  BY <1>1, <2>1, <2>2, <2>3 DEF StartProgress
<1>2. ASSUME NEW c \in Runners, RunStep(c)  PROVE ContractStep
  BY <1>2, ContractStutter DEF RunStep, RunContextDone, RunObservesDone, lifecycleVars,
     taskVars
<1>3. ASSUME NEW c \in CanStop, StopEnter(c)  PROVE ContractStep
  BY <1>3, ContractStutter DEF StopEnter, taskVars
<1>4. ASSUME NEW c \in CanStop, StopProgress(c)  PROVE ContractStep
  <2>1. CASE StopCancel(c)
    BY <2>1, ContractEnd
  <2>2. CASE StopJoined(c) \/ StopDeregistered(c) \/ StopDeregisterFails(c)
    BY <2>2, ContractStutter DEF StopJoined, StopDeregistered, StopDeregisterFails,
       lifecycleVars, taskVars
  <2>. QED  BY <1>4, <2>1, <2>2 DEF StopProgress
<1>5. ASSUME NEW c \in CanStart \union CanStop, FinishStep(c)  PROVE ContractStep
  <2>1. CASE FinishState(c)
    <3>1. c \in Callers /\ InOperation(c)
      BY <2>1, ActorSets DEF FinishState, InOperation, StopSteps
    <3>2. state # "idle" /\ state' # "idle"
      BY <3>1, InsideNotIdle, TerminalStep
    <3>. QED  BY <2>1, <3>2, ContractStutter DEF FinishState, taskVars
  <2>2. CASE FinishClose(c)
    BY <2>2, ContractClose
  <2>. QED  BY <1>5, <2>1, <2>2 DEF FinishStep
<1>6. ASSUME NEW u \in Users, UserStep(u)  PROVE ContractStep
  BY <1>6, ContractStutter DEF UserStep, UserAnswered, UserRegister, UserDeregister,
     UserRegistered, UserDeregistered, UserCallFails, lifecycleVars, taskVars
<1>7. ASSUME AgentStep \/ ReadErrors \/ UNCHANGED vars  PROVE ContractStep
  BY <1>7, AgentFrame, ContractStutter
<1>. QED
  BY <1>1, <1>2, <1>3, <1>4, <1>5, <1>6, <1>7, ContractOpen, ContractTask DEF Next

\* The runtime of a Client implements the contract: goroutines start once,
\* between Start and the cancellation, and Done is closed after the last one.
THEOREM ContractImplemented == Spec => ImplementsContract
<1>1. Init => Contract!ContractInit
  BY DEF Init, Contract!ContractInit, ContractPhase, LaunchedTasks, AliveTasks
<1>2. TypeOK /\ RuntimeInv /\ [Next]_vars => [Contract!ContractNext]_(Contract!contractVars)
  BY ContractSimulated DEF ContractStep
<1>. QED
  BY <1>1, <1>2, TypeCorrect, Invariance, PTL DEF Spec, ImplementsContract,
     Contract!ContractSpec

=============================================================================
