------------------------ MODULE HealthReportingProofs ------------------------
(***************************************************************************)
(* Executions of the Checker do not pile up, no probe shares one that has  *)
(* answered, and no push is forgotten, for any number of probes.           *)
(* HealthReporting implements SharedCall.                                  *)
(***************************************************************************)
EXTENDS HealthReporting, FiniteSetTheorems, TLAPS

\* A waiting probe has an execution.
WaitInv == \A p \in Callers : probe[p].step = "waiting" => probe[p].call # NoCall

\* TypeOK and what it needs to be inductive.
TypeInv == TypeOK /\ WaitInv

\* The worse of two statuses is a status.
LEMMA WorseTyped ==
  ASSUME NEW s \in Statuses, NEW t \in Statuses
  PROVE  Worse(s, t) \in Statuses
  BY DEF Worse

\* When there is room, FreeCall is an execution that is not in use.
LEMMA FreeCallIsFree == ASSUME Free # {} PROVE FreeCall \in Free
  BY DEF FreeCall

\* Sweeping keeps the executions that run, and the types.
LEMMA SweptFacts ==
  ASSUME NEW calls \in [Calls -> CallType], NEW probes
  PROVE  /\ Swept(calls, probes) \in [Calls -> CallType]
         /\ \A i \in Calls :
              Swept(calls, probes)[i].step = "running" <=> calls[i].step = "running"
<1>1. NoExecution \in CallType
  BY HealthAssumption DEF NoExecution, CallType, Up, Down
<1>. QED  BY <1>1 DEF Swept, NoExecution

\* The initial state is typed.
LEMMA TypeInit == Init => TypeInv
<1>. SUFFICES ASSUME Init PROVE TypeInv
  OBVIOUS
<1>1. NoExecution \in CallType /\ NoProbe \in ProbeType
  BY HealthAssumption DEF NoExecution, CallType, NoProbe, ProbeType, Up, Down
<1>2. Up \in Statuses /\ Down \in Statuses /\ 0 \in 0..MaxChanges /\ 0 \in 0..MaxFaults
  BY HealthAssumption
<1>3. call \in [Calls -> CallType] /\ probe \in [Callers -> ProbeType]
  BY <1>1 DEF Init
<1>4. WaitInv
  BY DEF Init, WaitInv, NoProbe
<1>. QED
  BY <1>2, <1>3, <1>4 DEF Init, TypeInv, TypeOK, CallType, ProbeType

\* One probe changes, to a state of a probe.
LEMMA ProbeSet ==
  ASSUME TypeInv, NEW p \in Callers, NEW r \in ProbeType, r.step = "waiting" => r.call # NoCall,
         probe' = [probe EXCEPT ![p] = r]
  PROVE  probe' \in [Callers -> ProbeType] /\ WaitInv'
  BY DEF TypeInv, TypeOK, WaitInv

\* A probe that is not waiting.
LEMMA Resting ==
  ASSUME NEW r \in ProbeType,
         NEW step \in {"idle", "start", "listed", "collected", "ready"}, NEW s \in Statuses
  PROVE  /\ [r EXCEPT !.step = step] \in ProbeType
         /\ [r EXCEPT !.step = step].step # "waiting"
         /\ [r EXCEPT !.step = step, !.pushed = s] \in ProbeType
         /\ [r EXCEPT !.step = step, !.pushed = s].step # "waiting"
         /\ [r EXCEPT !.step = step, !.status = s] \in ProbeType
         /\ [r EXCEPT !.step = step, !.status = s].step # "waiting"
  BY DEF ProbeType

LEMMA Idle == NoProbe \in ProbeType /\ NoProbe.step = "idle"
  BY HealthAssumption DEF NoProbe, ProbeType, Down

\* The steps of Registry.Ready leave the application, the client and the agent alone.
LEMMA RegistryFrame ==
  ASSUME TypeInv, UNCHANGED <<appVars, woken, clientVars, agentVars>>,
         owed' \in BOOLEAN, faults' \in 0..MaxFaults,
         probe' \in [Callers -> ProbeType], WaitInv',
         call' \in [Calls -> CallType], inflight' \in Calls \union {NoCall}
  PROVE  TypeInv'
  BY DEF TypeInv, TypeOK, appVars, clientVars, agentVars

\* The steps of a probe keep the types.
LEMMA ProbeTyped ==
  ASSUME TypeInv, NEW p \in Callers, Ready(p) \/ (p \in Probes /\ Responds(p))
  PROVE  TypeInv'
<1>. DEFINE r == probe[p]
<1>0. /\ r \in ProbeType /\ pushed \in Statuses /\ Up \in Statuses /\ Down \in Statuses
      /\ probe \in [Callers -> ProbeType] /\ call \in [Calls -> CallType]
      /\ inflight \in Calls \union {NoCall} /\ faults \in 0..MaxFaults /\ owed \in BOOLEAN
      /\ NoCall \notin Calls
  BY HealthAssumption DEF TypeInv, TypeOK
<1>1. CASE List(p)
  <2>1. probe' = [probe EXCEPT ![p] = [r EXCEPT !.step = "listed", !.pushed = pushed]]
    BY <1>0, <1>1 DEF List
  <2>2. probe' \in [Callers -> ProbeType] /\ WaitInv'
    BY <1>0, <2>1, Resting, ProbeSet
  <2>3. owed' \in BOOLEAN /\ UNCHANGED <<appVars, registryVars, woken, clientVars, agentVars, faults>>
    BY <1>0, <1>1 DEF List
  <2>. QED  BY <1>0, <2>2, <2>3, RegistryFrame DEF registryVars
<1>2. CASE Begin(p)
  <2>. DEFINE w(i) == [r EXCEPT !.step = "waiting", !.call = i]
  <2>1. ASSUME NEW i \in Calls
        PROVE  w(i) \in ProbeType /\ w(i).call # NoCall
    BY <1>0 DEF ProbeType
  <2>2. UNCHANGED <<appVars, woken, clientVars, agentVars, owed, faults>>
    BY <1>2 DEF Begin
  <2>3. CASE inflight # NoCall
    <3>1. inflight \in Calls /\ UNCHANGED <<call, inflight>>
          /\ probe' = [probe EXCEPT ![p] = w(inflight)]
      BY <1>0, <1>2, <2>3 DEF Begin
    <3>. HIDE DEF w
    <3>2. probe' \in [Callers -> ProbeType] /\ WaitInv'
      BY <2>1, <3>1, ProbeSet
    <3>. QED  BY <1>0, <2>2, <3>1, <3>2, RegistryFrame
  <2>4. CASE inflight = NoCall /\ Free # {}
    <3>1. FreeCall \in Calls
      BY <2>4, FreeCallIsFree DEF Free
    <3>2. [NoExecution EXCEPT !.step = "running"] \in CallType
      BY <1>0 DEF NoExecution, CallType
    <3>3. /\ call' = [call EXCEPT ![FreeCall] = [NoExecution EXCEPT !.step = "running"]]
          /\ inflight' = FreeCall /\ probe' = [probe EXCEPT ![p] = w(FreeCall)]
      BY <1>0, <1>2, <2>4 DEF Begin
    <3>4. call' \in [Calls -> CallType]
      BY <1>0, <3>1, <3>2, <3>3
    <3>. HIDE DEF w
    <3>5. probe' \in [Callers -> ProbeType] /\ WaitInv'
      BY <2>1, <3>1, <3>3, ProbeSet
    <3>. QED  BY <1>0, <2>2, <3>1, <3>3, <3>4, <3>5, RegistryFrame
  <2>. QED  BY <1>2, <2>3, <2>4 DEF Begin
<1>3. CASE Wait(p)
  <2>1. r.step = "waiting" /\ r.call \in Calls
    BY <1>0, <1>3 DEF Wait, TypeInv, WaitInv, ProbeType
  <2>2. call[r.call].res \in Statuses
    BY <1>0, <2>1 DEF CallType
  <2>3. PICK res \in Statuses : Collected(p, res)
    BY <1>0, <1>3, <2>2 DEF Wait
  <2>. DEFINE status == Worse(r.pushed, res)
  <2>4. status \in Statuses
    BY <1>0, WorseTyped DEF ProbeType
  <2>5. probe' = [probe EXCEPT ![p] = [NoProbe EXCEPT !.step = "collected", !.status = status]]
    BY <2>3 DEF Collected
  <2>. HIDE DEF status
  <2>6. probe' \in [Callers -> ProbeType] /\ WaitInv'
    BY <2>4, <2>5, Idle, Resting, ProbeSet
  <2>7. call' \in [Calls -> CallType]
    BY <1>0, <2>3, SweptFacts DEF Collected
  <2>8. UNCHANGED <<appVars, inflight, woken, clientVars, agentVars, owed, faults>>
    BY <1>3 DEF Wait
  <2>. QED  BY <1>0, <2>6, <2>7, <2>8, RegistryFrame
<1>4. CASE ReadDraining(p)
  <2>1. PICK s \in Statuses :
          probe' = [probe EXCEPT ![p] = [r EXCEPT !.step = "ready", !.status = s]]
    <3>. DEFINE s == IF draining THEN Down ELSE r.status
    <3>1. s \in Statuses
      BY <1>0 DEF ProbeType
    <3>2. probe' = [probe EXCEPT ![p] = [r EXCEPT !.step = "ready", !.status = s]]
      BY <1>0, <1>4 DEF ReadDraining
    <3>. QED  BY <3>1, <3>2
  <2>2. probe' \in [Callers -> ProbeType] /\ WaitInv'
    BY <1>0, <2>1, Resting, ProbeSet
  <2>3. UNCHANGED <<appVars, registryVars, woken, clientVars, agentVars, owed, faults>>
    BY <1>4 DEF ReadDraining
  <2>. QED  BY <1>0, <2>2, <2>3, RegistryFrame DEF registryVars
<1>5. CASE Responds(p)
  <2>1. probe' \in [Callers -> ProbeType] /\ WaitInv'
    BY <1>5, Idle, ProbeSet DEF Responds
  <2>2. UNCHANGED <<appVars, registryVars, woken, clientVars, agentVars, owed, faults>>
    BY <1>5 DEF Responds
  <2>. QED  BY <1>0, <2>1, <2>2, RegistryFrame DEF registryVars
<1>. QED  BY <1>1, <1>2, <1>3, <1>4, <1>5 DEF Ready, Runs

\* The steps of an execution keep the types.
LEMMA ExecutionTyped ==
  ASSUME TypeInv, NEW i \in Calls, Execution(i)
  PROVE  TypeInv'
<1>0. /\ probe \in [Callers -> ProbeType] /\ call \in [Calls -> CallType] /\ WaitInv
      /\ inflight \in Calls \union {NoCall} /\ faults \in 0..MaxFaults /\ owed \in BOOLEAN
      /\ Down \in Statuses /\ MaxFaults \in Nat
      /\ checked \in Statuses \union {Hung}
  BY HealthAssumption DEF TypeInv, TypeOK
<1>1. UNCHANGED <<appVars, probe, woken, clientVars, agentVars, owed>>
  BY DEF Execution, DeadlinePasses, Returns, ClosesDone
<1>2. probe' \in [Callers -> ProbeType] /\ WaitInv' /\ owed' \in BOOLEAN
  BY <1>0, <1>1 DEF WaitInv
<1>3. CASE DeadlinePasses(i)
  <2>1. faults' \in 0..MaxFaults /\ inflight' = inflight
    BY <1>0, <1>3 DEF DeadlinePasses
  <2>2. [call[i] EXCEPT !.late = TRUE] \in CallType
    BY <1>0 DEF CallType
  <2>3. call' = [call EXCEPT ![i] = [call[i] EXCEPT !.late = TRUE]]
    BY <1>3 DEF DeadlinePasses
  <2>4. call' \in [Calls -> CallType]
    BY <1>0, <2>2, <2>3
  <2>. QED  BY <1>0, <1>1, <1>2, <2>1, <2>4, RegistryFrame
<1>4. CASE Returns(i)
  <2>. DEFINE res == IF call[i].late THEN Down ELSE checked
  <2>1. res \in Statuses
    BY <1>0, <1>4 DEF Returns
  <2>2. inflight' = NoCall /\ faults' = faults
        /\ call' = [call EXCEPT ![i] = [call[i] EXCEPT !.step = "published", !.res = res]]
    BY <1>4 DEF Returns
  <2>. HIDE DEF res
  <2>3. [call[i] EXCEPT !.step = "published", !.res = res] \in CallType
    BY <1>0, <2>1 DEF CallType
  <2>4. call' \in [Calls -> CallType]
    BY <1>0, <2>2, <2>3
  <2>. QED  BY <1>0, <1>1, <1>2, <2>2, <2>4, RegistryFrame
<1>5. CASE ClosesDone(i)
  <2>1. [call[i] EXCEPT !.step = "done"] \in CallType
    BY <1>0 DEF CallType
  <2>2. [call EXCEPT ![i].step = "done"] \in [Calls -> CallType]
    BY <1>0, <2>1
  <2>3. call' \in [Calls -> CallType] /\ inflight' = inflight /\ faults' = faults
    BY <1>5, <2>2, SweptFacts DEF ClosesDone
  <2>. QED  BY <1>0, <1>1, <1>2, <2>3, RegistryFrame
<1>. QED  BY <1>3, <1>4, <1>5 DEF Execution

\* Every step keeps the types.
LEMMA TypeStep == TypeInv /\ [Next]_vars => TypeInv'
<1>. SUFFICES ASSUME TypeInv, [Next]_vars
             PROVE  TypeInv'
  OBVIOUS
<1>0. /\ Heartbeat \in Callers /\ Registrar \in Callers
      /\ \A p \in Callers : /\ probe[p] \in ProbeType /\ probe[p].status \in Statuses
                            /\ [probe[p] EXCEPT !.step = "start"] \in ProbeType
                            /\ [probe[p] EXCEPT !.step = "start"].step # "waiting"
      /\ Up \in Statuses /\ Down \in Statuses /\ MaxFaults \in Nat /\ faults \in 0..MaxFaults
      /\ changes < MaxChanges => changes + 1 \in 0..MaxChanges
  <2>1. \A p \in Callers : probe[p] \in ProbeType /\ probe[p].status \in Statuses
    BY DEF TypeInv, TypeOK, ProbeType
  <2>2. /\ changes \in 0..MaxChanges /\ MaxChanges \in Nat /\ faults \in 0..MaxFaults
        /\ MaxFaults \in Nat /\ Up \in Statuses /\ Down \in Statuses
    BY HealthAssumption DEF TypeInv, TypeOK
  <2>3. changes < MaxChanges => changes + 1 \in 0..MaxChanges
    BY <2>2
  <2>4. \A p \in Callers : /\ [probe[p] EXCEPT !.step = "start"] \in ProbeType
                           /\ [probe[p] EXCEPT !.step = "start"].step # "waiting"
    BY <2>1, Resting
  <2>. QED  BY <2>1, <2>2, <2>3, <2>4 DEF Callers
<1>. USE DEF TypeInv, TypeOK, WaitInv
<1>1. CASE Set
  BY <1>0, <1>1 DEF Set, registryVars, clientVars, agentVars
<1>2. CASE Notify
  BY <1>2 DEF Notify, registryVars, clientVars, agentVars
<1>3. CASE CheckedChanges
  BY <1>0, <1>3 DEF CheckedChanges, registryVars, clientVars, agentVars
<1>4. CASE SetDraining
  BY <1>0, <1>4 DEF SetDraining, registryVars, clientVars, agentVars
<1>5. CASE HeartbeatStep
  <2>1. CASE Beats
    BY <2>1 DEF Beats, appVars, registryVars, agentVars
  <2>2. CASE SkipsBeat
    BY <2>2 DEF SkipsBeat, appVars, registryVars, agentVars
  <2>3. CASE ProbesForBeat
    <3>1. probe' = [probe EXCEPT ![Heartbeat] = [probe[Heartbeat] EXCEPT !.step = "start"]]
      BY <2>3 DEF ProbesForBeat
    <3>2. probe' \in [Callers -> ProbeType] /\ WaitInv'
      BY <1>0, <3>1, ProbeSet
    <3>. QED  BY <2>3, <3>2 DEF ProbesForBeat, appVars, registryVars, agentVars
  <2>4. CASE SendsBeat
    <3>1. probe' \in [Callers -> ProbeType] /\ WaitInv'
      BY <1>0, <2>4, Idle, ProbeSet DEF SendsBeat
    <3>2. check' \in Statuses
      BY <1>0, <2>4 DEF SendsBeat
    <3>3. faults' \in 0..MaxFaults
      BY <1>0, <2>4 DEF SendsBeat
    <3>4. /\ UNCHANGED <<appVars, registryVars, woken, registering, registered, known, owed>>
          /\ beat' = "select"
      BY <2>4 DEF SendsBeat
    <3>. QED  BY <3>1, <3>2, <3>3, <3>4 DEF appVars, registryVars
  <2>. QED  BY <1>5, <2>1, <2>2, <2>3, <2>4 DEF HeartbeatStep
<1>6. CASE RegistrarStep
  <2>1. CASE Registers
    <3>1. probe' = [probe EXCEPT ![Registrar] = [probe[Registrar] EXCEPT !.step = "start"]]
      BY <2>1 DEF Registers
    <3>2. probe' \in [Callers -> ProbeType] /\ WaitInv'
      BY <1>0, <3>1, ProbeSet
    <3>. QED  BY <2>1, <3>2 DEF Registers, appVars, registryVars, agentVars
  <2>2. CASE SendsDefinition
    <3>1. probe' \in [Callers -> ProbeType] /\ WaitInv'
      BY <1>0, <2>2, Idle, ProbeSet DEF SendsDefinition
    <3>2. check' \in Statuses
      BY <1>0, <2>2 DEF SendsDefinition
    <3>. QED  BY <2>2, <3>1, <3>2 DEF SendsDefinition, appVars, registryVars
  <2>3. CASE Records
    BY <2>3 DEF Records, appVars, registryVars, agentVars
  <2>. QED  BY <1>6, <2>1, <2>2, <2>3 DEF RegistrarStep
<1>7. CASE AgentForgets
  <2>1. faults' \in 0..MaxFaults
    BY <1>0, <1>7 DEF AgentForgets
  <2>. QED  BY <1>7, <2>1 DEF AgentForgets, appVars, registryVars, clientVars
<1>8. CASE UNCHANGED vars
  BY <1>8 DEF vars, appVars, registryVars, clientVars, agentVars
<1>. QED
  BY <1>1, <1>2, <1>3, <1>4, <1>5, <1>6, <1>7, <1>8, ProbeTyped, ExecutionTyped
     DEF Next, Callers

\* Every variable keeps its type, for any number of probes.
THEOREM TypeCorrect == Spec => []TypeOK
<1>1. Spec => []TypeInv
  BY TypeInit, TypeStep, PTL DEF Spec
<1>. QED  BY <1>1, PTL DEF TypeInv

-----------------------------------------------------------------------------

\* The execution in flight is the one that runs.
ExecutionInv == \A i \in Calls : call[i].step = "running" <=> inflight = i

\* No execution runs at the start,
LEMMA ExecutionInit == Init => ExecutionInv
  BY HealthAssumption DEF Init, ExecutionInv, NoExecution

\* and every step keeps it so; a probe gets the execution in flight.
LEMMA ExecutionStep ==
  TypeInv /\ ExecutionInv /\ [Next]_vars => ExecutionInv'
<1>. SUFFICES ASSUME TypeInv, ExecutionInv, [Next]_vars
             PROVE  ExecutionInv'
  OBVIOUS
<1>. USE HealthAssumption DEF ExecutionInv
<1>1. call \in [Calls -> CallType]
  BY DEF TypeInv, TypeOK, CallType
<1>2. CASE UNCHANGED registryVars
  BY <1>2 DEF registryVars
<1>3. ASSUME NEW i \in Calls, Execution(i)
      PROVE  ExecutionInv'
  <2>1. CASE DeadlinePasses(i)
    BY <1>1, <2>1 DEF DeadlinePasses, CallType
  <2>2. CASE Returns(i)
    BY <1>1, <2>2 DEF Returns, CallType
  <2>3. CASE ClosesDone(i)
    <3>. DEFINE calls == [call EXCEPT ![i].step = "done"]
    <3>1. calls \in [Calls -> CallType]
      BY <1>1 DEF CallType
    <3>2. \A j \in Calls : calls[j].step = "running" <=> call[j].step = "running"
      BY <1>1, <2>3 DEF ClosesDone, CallType
    <3>3. call' = Swept(calls, probe) /\ inflight' = inflight
      BY <2>3 DEF ClosesDone
    <3>. HIDE DEF calls
    <3>4. \A j \in Calls : call'[j].step = "running" <=> calls[j].step = "running"
      BY <3>1, <3>3, SweptFacts
    <3>. QED  BY <3>2, <3>3, <3>4
  <2>. QED  BY <1>3, <2>1, <2>2, <2>3 DEF Execution
<1>4. ASSUME NEW p \in Callers, Ready(p)
      PROVE  ExecutionInv'
  <2>1. CASE List(p) \/ ReadDraining(p)
    BY <2>1, <1>2 DEF List, ReadDraining
  <2>2. CASE Begin(p)
    <3>1. CASE inflight # NoCall
      BY <2>2, <3>1 DEF Begin
    <3>2. CASE inflight = NoCall /\ Free # {}
      <4>1. FreeCall \in Calls /\ call[FreeCall].step = "none"
        BY <3>2, FreeCallIsFree DEF Free
      <4>2. [NoExecution EXCEPT !.step = "running"].step = "running"
        BY DEF NoExecution
      <4>3. call' = [call EXCEPT ![FreeCall] = [NoExecution EXCEPT !.step = "running"]]
            /\ inflight' = FreeCall
        BY <2>2, <3>2 DEF Begin
      <4>. QED  BY <1>1, <3>2, <4>1, <4>2, <4>3 DEF CallType
    <3>. QED  BY <2>2, <3>1, <3>2 DEF Begin
  <2>3. CASE Wait(p)
    <3>1. call' = Swept(call, probe') /\ inflight' = inflight
      BY <2>3 DEF Wait, Collected
    <3>. QED  BY <1>1, <3>1, SweptFacts
  <2>. QED  BY <1>4, <2>1, <2>2, <2>3 DEF Ready, Runs
<1>. QED
  BY <1>2, <1>3, <1>4
     DEF Next, vars, Set, Notify, CheckedChanges, SetDraining, Responds, HeartbeatStep,
         Beats, SkipsBeat, ProbesForBeat, SendsBeat, RegistrarStep, Registers,
         SendsDefinition, Records, AgentForgets

\* The inductive invariant of the executions.
THEOREM ExecutionInvariance == Spec => [](TypeInv /\ ExecutionInv)
  BY TypeInit, TypeStep, ExecutionInit, ExecutionStep, PTL DEF Spec

\* No more than one execution of the Checker is running, for any number of
\* probes.
THEOREM NoPileUp == Spec => []OneExecution
<1>1. ExecutionInv => OneExecution
  <2>. SUFFICES ASSUME ExecutionInv PROVE OneExecution
    OBVIOUS
  <2>1. Executing \subseteq {inflight}
    BY DEF Executing, ExecutionInv
  <2>2. Cardinality(Executing) <= Cardinality({inflight})
    BY <2>1, FS_Singleton, FS_Subset
  <2>. QED  BY <2>2, FS_Singleton DEF OneExecution
<1>. QED  BY <1>1, ExecutionInvariance, PTL

\* A probe shares only executions that have not answered, for any number of
\* probes.
THEOREM FreshAnswers == Spec => SharesOnlyRunning
<1>1. ASSUME TypeInv, ExecutionInv, ExecutionInv', TypeInv', [Next]_vars, NEW p \in Callers,
             probe[p].step = "listed", probe'[p].step = "waiting"
      PROVE  call'[probe'[p].call].step = "running"
  <2>. USE DEF TypeInv, TypeOK, CallType, ProbeType
  <2>1. Begin(p)
    <3>1. probe' # probe
      BY <1>1
    <3>2. ASSUME NEW q \in Callers, Begin(q) PROVE q = p
      BY <1>1, <3>2 DEF Begin
    <3>3. ASSUME NEW q \in Callers, List(q) \/ ReadDraining(q) PROVE FALSE
      BY <1>1, <3>3 DEF List, ReadDraining
    <3>4. ASSUME NEW q \in Callers, Wait(q) PROVE FALSE
      <4>1. PICK s : probe' = [probe EXCEPT ![q] = [NoProbe EXCEPT !.step = "collected",
                                                               !.status = s]]
        BY <3>4 DEF Wait, Collected
      <4>2. [NoProbe EXCEPT !.step = "collected", !.status = s].step = "collected"
        BY DEF NoProbe
      <4>3. probe'[p] \in {probe[p], [NoProbe EXCEPT !.step = "collected", !.status = s]}
        BY <1>1, <4>1
      <4>. QED  BY <1>1, <4>2, <4>3
    <3>5. ASSUME NEW q \in Probes, Responds(q) PROVE FALSE
      BY <1>1, <3>5 DEF Responds, NoProbe
    <3>6. ~HeartbeatStep /\ ~RegistrarStep
      <4>1. ~Beats /\ ~SkipsBeat /\ ~Records
        BY <3>1 DEF Beats, SkipsBeat, Records
      <4>2. ~ProbesForBeat /\ ~Registers
        BY <1>1 DEF ProbesForBeat, Registers
      <4>3. ~SendsBeat /\ ~SendsDefinition
        <5>1. NoProbe.step = "idle"
          BY DEF NoProbe
        <5>2. ASSUME NEW q \in Callers, probe' = [probe EXCEPT ![q] = NoProbe] PROVE FALSE
          BY <1>1, <5>1, <5>2
        <5>. QED  BY <5>2 DEF SendsBeat, SendsDefinition, Callers
      <4>. QED  BY <4>1, <4>2, <4>3 DEF HeartbeatStep, RegistrarStep
    <3>. QED
      BY <1>1, <3>1, <3>2, <3>3, <3>4, <3>5, <3>6
         DEF Next, vars, Ready, Runs, Execution, Set, Notify, CheckedChanges, SetDraining,
             DeadlinePasses, Returns, ClosesDone, AgentForgets
  <2>2. probe'[p].call = inflight' /\ inflight' # NoCall
    BY <1>1, <2>1, HealthAssumption, FreeCallIsFree DEF Begin, Free
  <2>. QED  BY <1>1, <2>2 DEF ExecutionInv
<1>2. TypeInv /\ ExecutionInv /\ TypeInv' /\ ExecutionInv' /\ [Next]_vars
        => [\A p \in Callers : probe[p].step = "listed" /\ probe'[p].step = "waiting"
              => call'[probe'[p].call].step = "running"]_vars
  BY <1>1
<1>. QED  BY <1>2, ExecutionInvariance, PTL DEF Spec, SharesOnlyRunning

-----------------------------------------------------------------------------

\* A push that is owed goes out with a heartbeat or with a registration; it is
\* not owed by a heartbeat that is skipped.
PushInv ==
  /\ PushIsReported
  /\ owed => registered \/ probe[Registrar].step = "start"

\* Nothing is owed at the start, and no step loses what is owed.
LEMMA PushStep == TypeInv /\ PushInv /\ [Next]_vars => PushInv'
<1>. SUFFICES ASSUME TypeInv, PushInv, [Next]_vars
             PROVE  PushInv'
  OBVIOUS
<1>. USE HealthAssumption DEF PushInv, PushIsReported
<1>0. probe \in [Callers -> ProbeType] /\ {Heartbeat, Registrar} \subseteq Callers
  BY DEF TypeInv, TypeOK, ProbeType, Callers
<1>1. CASE UNCHANGED <<owed, woken, beat, probe, registered>>
  BY <1>1
<1>2. CASE Notify
  BY <1>2 DEF Notify, clientVars
<1>3. ASSUME NEW p \in Callers, Ready(p)
      PROVE  PushInv'
  <2>1. CASE List(p)
    BY <1>0, <2>1 DEF List, clientVars, ProbeType, Callers
  <2>2. CASE Begin(p)
    BY <1>0, <2>2 DEF Begin, clientVars, ProbeType
  <2>3. CASE Wait(p)
    <3>1. PICK r : probe' = [probe EXCEPT ![p] = r]
      BY <2>3 DEF Wait, Collected
    <3>. QED  BY <1>0, <2>3, <3>1 DEF Wait, clientVars
  <2>4. CASE ReadDraining(p)
    BY <1>0, <2>4 DEF ReadDraining, clientVars, ProbeType
  <2>. QED  BY <1>3, <2>1, <2>2, <2>3, <2>4 DEF Ready, Runs
<1>4. ASSUME NEW p \in Probes, Responds(p)
      PROVE  PushInv'
  BY <1>0, <1>4 DEF Responds, clientVars
<1>5. CASE HeartbeatStep
  <2>1. CASE Beats
    BY <2>1 DEF Beats
  <2>2. CASE SkipsBeat
    BY <2>2 DEF SkipsBeat
  <2>3. CASE ProbesForBeat
    BY <1>0, <2>3 DEF ProbesForBeat, ProbeType
  <2>4. CASE SendsBeat
    BY <1>0, <2>4 DEF SendsBeat
  <2>. QED  BY <1>5, <2>1, <2>2, <2>3, <2>4 DEF HeartbeatStep
<1>6. CASE RegistrarStep
  <2>1. CASE Registers
    BY <1>0, <2>1 DEF Registers, ProbeType
  <2>2. CASE SendsDefinition
    BY <1>0, <2>2 DEF SendsDefinition
  <2>3. CASE Records
    BY <2>3 DEF Records
  <2>. QED  BY <1>6, <2>1, <2>2, <2>3 DEF RegistrarStep
<1>. QED
  BY <1>1, <1>2, <1>3, <1>4, <1>5, <1>6
     DEF Next, vars, clientVars, Set, CheckedChanges, SetDraining, Execution,
         DeadlinePasses, Returns, ClosesDone, AgentForgets

\* A pushed state does not wait for a tick, for any number of probes.
THEOREM NoPushWaits == Spec => []PushIsReported
<1>1. Init => PushInv
  BY DEF Init, PushInv, PushIsReported
<1>2. Spec => [](TypeInv /\ PushInv)
  BY <1>1, TypeInit, TypeStep, PushStep, PTL DEF Spec
<1>. QED  BY <1>2, PTL DEF PushInv

-----------------------------------------------------------------------------

(***************************************************************************)
(* HealthReporting implements SharedCall: every step is a step of a caller *)
(* or of the Checker there, or does not show.                              *)
(***************************************************************************)

\* An execution that a probe refers to is in use, and the heartbeat and the
\* registrar leave their probes idle when they are not probing.
UseInv ==
  /\ \A p \in Callers : probe[p].step = "waiting" => call[probe[p].call].step # "none"
  /\ beat # "probing" => probe[Heartbeat].step = "idle"
  /\ registering # "probing" => probe[Registrar].step = "idle"

\* Sweeping takes nothing away that a probe refers to.
LEMMA SweptInUse ==
  ASSUME NEW calls, NEW probes, NEW p \in Callers, probes[p].call \in Calls
  PROVE  Swept(calls, probes)[probes[p].call] = calls[probes[p].call]
  BY DEF Swept

\* What a waiting probe refers to after each step of Registry.Ready and of an
\* execution.
LEMMA InUse ==
  ASSUME TypeInv, UseInv, NEW q \in Callers, probe[q].step = "waiting"
  PROVE  /\ probe[q].call \in Calls
         /\ call[probe[q].call] \in CallType
         /\ call[probe[q].call].step \in {"running", "published", "done"}
  BY DEF TypeInv, TypeOK, WaitInv, UseInv, ProbeType, CallType

\* What a probe does when it waits no more.
LEMMA Collects ==
  ASSUME TypeInv, NEW p \in Callers, NEW res, Collected(p, res)
  PROVE  /\ probe'[p].step = "collected"
         /\ probe'[p].status = Worse(probe[p].pushed, res)
         /\ \A q \in Callers \ {p} : probe'[q] = probe[q]
         /\ call' = Swept(call, probe')
<1>1. probe \in [Callers -> ProbeType]
  BY DEF TypeInv, TypeOK
<1>2. probe' = [probe EXCEPT ![p] = [NoProbe EXCEPT
                  !.step = "collected", !.status = Worse(probe[p].pushed, res)]]
      /\ call' = Swept(call, probe')
  BY DEF Collected
<1>3. /\ [NoProbe EXCEPT !.step = "collected", !.status = Worse(probe[p].pushed, res)].step
           = "collected"
      /\ [NoProbe EXCEPT !.step = "collected", !.status = Worse(probe[p].pushed, res)].status
           = Worse(probe[p].pushed, res)
  BY DEF NoProbe
<1>. QED  BY <1>1, <1>2, <1>3

\* A probe that begins refers to an execution that runs; the other executions in
\* use are as they were.
LEMMA Begins ==
  ASSUME TypeInv, ExecutionInv, UseInv, NEW p \in Callers, Begin(p)
  PROVE  /\ probe[p].step = "listed"
         /\ probe'[p].step = "waiting" /\ probe'[p].call \in Calls
         /\ call'[probe'[p].call].step = "running"
         /\ \A q \in Callers \ {p} : probe'[q] = probe[q]
         /\ \A i \in Calls : call[i].step # "none" => call'[i] = call[i]
<1>1. probe \in [Callers -> ProbeType] /\ call \in [Calls -> CallType]
      /\ inflight \in Calls \union {NoCall}
  BY DEF TypeInv, TypeOK
<1>2. probe[p].step = "listed"
  BY DEF Begin
<1>3. CASE inflight # NoCall
  <2>1. probe' = [probe EXCEPT ![p].step = "waiting", ![p].call = inflight] /\ call' = call
    BY <1>3 DEF Begin
  <2>2. call[inflight].step = "running" /\ inflight \in Calls
    BY <1>1, <1>3 DEF ExecutionInv
  <2>. QED  BY <1>1, <1>2, <2>1, <2>2 DEF ProbeType
<1>4. CASE inflight = NoCall /\ Free # {}
  <2>1. FreeCall \in Calls /\ call[FreeCall].step = "none"
    BY <1>4, FreeCallIsFree DEF Free
  <2>2. [NoExecution EXCEPT !.step = "running"].step = "running"
    BY DEF NoExecution
  <2>3. /\ call' = [call EXCEPT ![FreeCall] = [NoExecution EXCEPT !.step = "running"]]
        /\ probe' = [probe EXCEPT ![p].step = "waiting", ![p].call = FreeCall]
    BY <1>4, HealthAssumption DEF Begin
  <2>4. probe'[p].step = "waiting" /\ probe'[p].call = FreeCall
        /\ \A q \in Callers \ {p} : probe'[q] = probe[q]
    BY <1>1, <2>3 DEF ProbeType
  <2>5. call'[FreeCall].step = "running" /\ \A i \in Calls \ {FreeCall} : call'[i] = call[i]
    BY <1>1, <2>1, <2>2, <2>3
  <2>. QED  BY <1>2, <2>1, <2>4, <2>5
<1>. QED  BY <1>3, <1>4 DEF Begin

\* An execution's own steps keep what is in use in use.
LEMMA ExecutionKeepsUse ==
  ASSUME TypeInv, UseInv, NEW i \in Calls, Execution(i), NEW q \in Callers,
         probe[q].step = "waiting"
  PROVE  call'[probe[q].call].step # "none"
<1>1. probe[q].call \in Calls /\ call[probe[q].call].step # "none"
  BY InUse
<1>2. call \in [Calls -> CallType]
  BY DEF TypeInv, TypeOK
<1>3. CASE DeadlinePasses(i) \/ Returns(i)
  BY <1>1, <1>2, <1>3 DEF DeadlinePasses, Returns, CallType
<1>4. CASE ClosesDone(i)
  <2>. DEFINE calls == [call EXCEPT ![i].step = "done"]
  <2>1. calls[probe[q].call].step # "none"
    BY <1>1, <1>2 DEF CallType
  <2>2. call' = Swept(calls, probe)
    BY <1>4 DEF ClosesDone
  <2>. HIDE DEF calls
  <2>3. Swept(calls, probe)[probe[q].call] = calls[probe[q].call]
    BY <1>1, SweptInUse
  <2>. QED  BY <2>1, <2>2, <2>3
<1>. QED  BY <1>3, <1>4 DEF Execution

\* Every step keeps what is in use in use.
LEMMA UseStep == TypeInv /\ ExecutionInv /\ UseInv /\ [Next]_vars => UseInv'
<1>. SUFFICES ASSUME TypeInv, ExecutionInv, UseInv, [Next]_vars
             PROVE  UseInv'
  OBVIOUS
<1>0. /\ probe \in [Callers -> ProbeType] /\ {Heartbeat, Registrar} \subseteq Callers
      /\ Heartbeat # Registrar /\ {Heartbeat, Registrar} \intersect Probes = {}
  BY HealthAssumption DEF TypeInv, TypeOK, Callers
<1>1. CASE UNCHANGED <<probe, call, beat, registering>>
  BY <1>1 DEF UseInv
<1>2. ASSUME NEW i \in Calls, Execution(i)
      PROVE  UseInv'
  <2>1. UNCHANGED <<probe, beat, registering>>
    BY <1>2 DEF Execution, DeadlinePasses, Returns, ClosesDone, clientVars
  <2>. QED  BY <1>2, <2>1, ExecutionKeepsUse DEF UseInv
<1>3. ASSUME NEW p \in Callers, Ready(p)
      PROVE  UseInv'
  <2>0. UNCHANGED <<beat, registering>>
    BY <1>3 DEF Ready, Runs, List, Begin, Wait, ReadDraining, clientVars
  <2>1. /\ p = Heartbeat => beat = "probing"
        /\ p = Registrar => registering = "probing"
    BY <1>0, <1>3 DEF UseInv, Ready, Runs, List, Begin, Wait, ReadDraining
  <2>2. CASE List(p) \/ ReadDraining(p)
    <3>1. /\ probe'[p].step # "waiting" /\ call' = call
          /\ \A q \in Callers \ {p} : probe'[q] = probe[q]
      BY <1>0, <2>2 DEF List, ReadDraining, registryVars, ProbeType
    <3>. QED  BY <1>0, <2>0, <2>1, <3>1 DEF UseInv
  <2>3. CASE Begin(p)
    <3>1. \A q \in Callers : probe[q].step = "waiting" =>
            probe[q].call \in Calls /\ call[probe[q].call].step # "none"
      BY InUse
    <3>. QED  BY <1>0, <2>0, <2>1, <2>3, <3>1, Begins DEF UseInv
  <2>4. CASE Wait(p)
    <3>1. PICK res : Collected(p, res)
      BY <2>4 DEF Wait
    <3>2. ASSUME NEW q \in Callers, probe'[q].step = "waiting"
          PROVE  call'[probe'[q].call].step # "none"
      <4>1. probe'[q] = probe[q] /\ call' = Swept(call, probe')
        BY <3>1, <3>2, Collects
      <4>2. probe[q].call \in Calls /\ call[probe[q].call].step # "none"
        BY <3>2, <4>1, InUse
      <4>. QED  BY <4>1, <4>2, SweptInUse
    <3>. QED  BY <1>0, <2>0, <2>1, <3>1, <3>2, Collects DEF UseInv
  <2>. QED  BY <1>3, <2>2, <2>3, <2>4 DEF Ready, Runs
<1>4. ASSUME NEW p \in Probes, Responds(p)
      PROVE  UseInv'
  BY <1>0, <1>4, Idle DEF Responds, registryVars, clientVars, UseInv, Callers
<1>5. CASE HeartbeatStep
  <2>1. CASE Beats \/ SkipsBeat
    BY <2>1 DEF Beats, SkipsBeat, registryVars, UseInv
  <2>2. CASE ProbesForBeat
    BY <1>0, <2>2 DEF ProbesForBeat, registryVars, UseInv, ProbeType
  <2>3. CASE SendsBeat
    BY <1>0, <2>3, Idle DEF SendsBeat, registryVars, UseInv
  <2>. QED  BY <1>5, <2>1, <2>2, <2>3 DEF HeartbeatStep
<1>6. CASE RegistrarStep
  <2>1. CASE Registers
    BY <1>0, <2>1 DEF Registers, registryVars, UseInv, ProbeType
  <2>2. CASE SendsDefinition
    BY <1>0, <2>2, Idle DEF SendsDefinition, registryVars, UseInv
  <2>3. CASE Records
    BY <2>3 DEF Records, registryVars, UseInv
  <2>. QED  BY <1>6, <2>1, <2>2, <2>3 DEF RegistrarStep
<1>. QED
  BY <1>1, <1>2, <1>3, <1>4, <1>5, <1>6
     DEF Next, vars, registryVars, clientVars, Set, Notify, CheckedChanges, SetDraining,
         AgentForgets

ShareStep == [Shared!SharedCallNext]_(Shared!sharedCallVars)

\* The Checker runs, to its callers, as long as one of its executions does.
Running == Executing # {}

\* A caller that waits for an execution sees what it is at.
LEMMA Seen ==
  ASSUME NEW p \in Callers
  PROVE  /\ probe[p].step \notin {"waiting", "collected"} =>
              Asking(p) = "away" /\ Told(p) = Down
         /\ probe[p].step = "collected" =>
              Asking(p) = "reported" /\ Told(p) = probe[p].status
         /\ probe[p].step = "waiting" =>
              LET c == call[probe[p].call]
              IN  /\ c.step = "running" => Asking(p) = "waiting" /\ Told(p) = Down
                  /\ c.step # "running" => Asking(p) = "answered" /\ Told(p) = c.res
  BY DEF Asking, Told

\* The same after a step.
LEMMA SeenNext ==
  ASSUME NEW p \in Callers
  PROVE  /\ probe'[p].step \notin {"waiting", "collected"} =>
              Asking(p)' = "away" /\ Told(p)' = Down
         /\ probe'[p].step = "collected" =>
              Asking(p)' = "reported" /\ Told(p)' = probe'[p].status
         /\ probe'[p].step = "waiting" =>
              LET c == call'[probe'[p].call]
              IN  /\ c.step = "running" => Asking(p)' = "waiting" /\ Told(p)' = Down
                  /\ c.step # "running" => Asking(p)' = "answered" /\ Told(p)' = c.res
  BY DEF Asking, Told

\* A caller sees nothing of a step that leaves its probe alone, and the
\* execution that it waits for.
LEMMA Unseen ==
  ASSUME NEW q \in Callers,
         \/ probe'[q] = probe[q]
         \/ {probe[q].step, probe'[q].step} \intersect {"waiting", "collected"} = {},
         probe[q].step = "waiting" =>
           LET i == probe[q].call
           IN  /\ call'[i].step = "running" <=> call[i].step = "running"
               /\ call'[i].res = call[i].res
  PROVE  Asking(q)' = Asking(q) /\ Told(q)' = Told(q)
  BY Seen, SeenNext

\* A step that no caller sees is a stutter.
LEMMA ShareStutter ==
  ASSUME Running' = Running,
         \A q \in Callers : Asking(q)' = Asking(q) /\ Told(q)' = Told(q)
  PROVE  ShareStep
  BY DEF ShareStep, Running, Shared!sharedCallVars

\* A step that a single caller sees moves it.
LEMMA ShareMove ==
  ASSUME NEW p \in Callers,
         \A q \in Callers \ {p} : Asking(q)' = Asking(q) /\ Told(q)' = Told(q)
  PROVE  Shared!Moves(p, Asking(p)', Told(p)')
  BY DEF Shared!Moves

\* With the same executions running, the Checker runs as before.
LEMMA SameRunning ==
  ASSUME \A i \in Calls : call'[i].step = "running" <=> call[i].step = "running"
  PROVE  Running' = Running
  BY DEF Running, Executing

\* A deadline that passes shows to nobody, and neither does done when it closes.
LEMMA ExecutionUnseen ==
  ASSUME TypeInv, UseInv, NEW i \in Calls, DeadlinePasses(i) \/ ClosesDone(i)
  PROVE  ShareStep
<1>1. call \in [Calls -> CallType] /\ UNCHANGED probe
  BY DEF TypeInv, TypeOK, DeadlinePasses, ClosesDone
<1>2. CASE DeadlinePasses(i)
  <2>1. \A j \in Calls : /\ call'[j].step = call[j].step
                         /\ call'[j].res = call[j].res
    BY <1>1, <1>2 DEF DeadlinePasses, CallType
  <2>2. Running' = Running
    BY <2>1, SameRunning
  <2>3. \A q \in Callers : Asking(q)' = Asking(q) /\ Told(q)' = Told(q)
    BY <1>1, <2>1, InUse, Unseen
  <2>. QED  BY <2>2, <2>3, ShareStutter
<1>3. CASE ClosesDone(i)
  <2>. DEFINE calls == [call EXCEPT ![i].step = "done"]
  <2>1. /\ calls \in [Calls -> CallType]
        /\ \A j \in Calls : /\ calls[j].step = "running" <=> call[j].step = "running"
                            /\ calls[j].res = call[j].res
    BY <1>1, <1>3 DEF ClosesDone, CallType
  <2>2. call' = Swept(calls, probe)
    BY <1>3 DEF ClosesDone
  <2>. HIDE DEF calls
  <2>3. \A j \in Calls : call'[j].step = "running" <=> call[j].step = "running"
    BY <2>1, <2>2, SweptFacts
  <2>4. ASSUME NEW q \in Callers, probe[q].step = "waiting"
        PROVE  call'[probe[q].call] = calls[probe[q].call] /\ probe[q].call \in Calls
    BY <2>2, <2>4, InUse, SweptInUse
  <2>5. \A q \in Callers : Asking(q)' = Asking(q) /\ Told(q)' = Told(q)
    BY <1>1, <2>1, <2>4, Unseen
  <2>. QED  BY <2>3, <2>5, SameRunning, ShareStutter
<1>. QED  BY <1>2, <1>3

\* The execution that returns is the one that runs: everybody who waits for it
\* is answered, and nobody else is.
LEMMA ReturnAnswers ==
  ASSUME TypeInv, ExecutionInv, UseInv, NEW i \in Calls, Returns(i)
  PROVE  ShareStep
<1>. DEFINE res == IF call[i].late THEN Down ELSE checked
<1>1. /\ call \in [Calls -> CallType] /\ UNCHANGED probe
      /\ checked \in Statuses \union {Hung} /\ Down \in Statuses
  BY HealthAssumption DEF TypeInv, TypeOK, Returns
<1>2. res \in Statuses
  BY <1>1 DEF Returns
<1>3. /\ call[i].step = "running"
      /\ call'[i].step = "published" /\ call'[i].res = res
      /\ \A j \in Calls \ {i} : call'[j] = call[j] /\ call[j].step # "running"
  BY <1>1 DEF Returns, CallType, ExecutionInv
<1>. HIDE DEF res
<1>4. Running /\ Running' = FALSE
  BY <1>3 DEF Running, Executing
<1>5. ASSUME NEW q \in Callers
      PROVE  /\ Asking(q)' = IF Asking(q) = "waiting" THEN "answered" ELSE Asking(q)
             /\ Told(q)' = IF Asking(q) = "waiting" THEN res ELSE Told(q)
  <2>1. CASE probe[q].step = "waiting" /\ probe[q].call = i
    <3>1. Asking(q) = "waiting"
      BY <1>3, <2>1, Seen
    <3>2. Asking(q)' = "answered" /\ Told(q)' = res
      BY <1>1, <1>3, <2>1, SeenNext
    <3>. QED  BY <3>1, <3>2
  <2>2. CASE probe[q].step = "waiting" /\ probe[q].call # i
    <3>1. call'[probe[q].call] = call[probe[q].call] /\ call[probe[q].call].step # "running"
      BY <1>3, <2>2, InUse
    <3>2. Asking(q) = "answered"
      BY <2>2, <3>1, Seen
    <3>. QED  BY <1>1, <3>1, <3>2, Unseen
  <2>3. CASE probe[q].step # "waiting"
    <3>1. Asking(q) # "waiting"
      BY <2>3, Seen
    <3>. QED  BY <1>1, <2>3, <3>1, Unseen
  <2>. QED  BY <2>1, <2>2, <2>3
<1>6. Shared!Answer(res)
  BY <1>4, <1>5 DEF Shared!Answer, Running
<1>. QED  BY <1>2, <1>6 DEF ShareStep, Shared!SharedCallNext

\* A probe that begins asks.
LEMMA BeginAsks ==
  ASSUME TypeInv, ExecutionInv, UseInv, NEW p \in Callers, Begin(p)
  PROVE  ShareStep
<1>1. Asking(p) = "away" /\ Asking(p)' = "waiting" /\ Told(p)' = Down
  BY Begins, Seen, SeenNext
<1>2. ASSUME NEW q \in Callers \ {p}
      PROVE  Asking(q)' = Asking(q) /\ Told(q)' = Told(q)
  <2>1. probe'[q] = probe[q]
    BY Begins
  <2>2. probe[q].step = "waiting" => call'[probe[q].call] = call[probe[q].call]
    BY Begins, InUse
  <2>. QED  BY <2>1, <2>2, Unseen
<1>3. Running'
  <2>1. probe'[p].call \in Executing'
    BY Begins DEF Executing
  <2>. QED  BY <2>1 DEF Running
<1>4. Shared!Ask(p)
  BY <1>1, <1>2, <1>3, ShareMove DEF Shared!Ask, Running
<1>. QED  BY <1>4 DEF ShareStep, Shared!SharedCallNext

\* A probe that waits no more reports the answer or worse; it reports DOWN if
\* there is none.
LEMMA WaitReports ==
  ASSUME TypeInv, ExecutionInv, UseInv, NEW p \in Callers, Wait(p)
  PROVE  ShareStep
<1>. DEFINE c == call[probe[p].call]
<1>1. /\ probe[p].step = "waiting" /\ probe[p].pushed \in Statuses
      /\ c \in CallType /\ c.res \in Statuses
      /\ Statuses \subseteq 0..2 /\ Down = 2 /\ Down \in Statuses
      /\ call \in [Calls -> CallType]
  <2>1. probe[p].step = "waiting"
    BY DEF Wait
  <2>. QED  BY <2>1, InUse, HealthAssumption DEF TypeInv, TypeOK, ProbeType, CallType, Down
<1>2. PICK res \in Statuses :
        /\ Collected(p, res)
        /\ (c.step = "done" /\ res = c.res) \/ (c.step # "done" /\ res = Down)
  BY <1>1 DEF Wait
<1>. DEFINE s == Worse(probe[p].pushed, res)
<1>3. s \in Statuses /\ s >= res /\ (res = Down => s = Down)
  BY <1>1, WorseTyped DEF Worse
<1>. HIDE DEF s, c
<1>4. /\ probe'[p].step = "collected" /\ probe'[p].status = s
      /\ \A q \in Callers \ {p} : probe'[q] = probe[q]
      /\ call' = Swept(call, probe')
  BY <1>2, Collects DEF s
<1>5. Asking(p)' = "reported" /\ Told(p)' = s
  BY <1>4, SeenNext
<1>6. ASSUME NEW q \in Callers \ {p}
      PROVE  Asking(q)' = Asking(q) /\ Told(q)' = Told(q)
  <2>1. probe'[q] = probe[q]
    BY <1>4
  <2>2. probe[q].step = "waiting" => call'[probe[q].call] = call[probe[q].call]
    BY <1>4, <2>1, InUse, SweptInUse
  <2>. QED  BY <2>1, <2>2, Unseen
<1>7. Running' = Running
  <2>1. \A i \in Calls : call'[i].step = "running" <=> call[i].step = "running"
    BY <1>1, <1>4, SweptFacts
  <2>. QED  BY <2>1, SameRunning
<1>8. \/ Asking(p) = "answered" /\ s >= Told(p)
      \/ Asking(p) = "waiting" /\ s = Down
  <2>1. CASE c.step = "running"
    <3>1. Asking(p) = "waiting"
      BY <1>1, <2>1, Seen DEF c
    <3>. QED  BY <1>2, <1>3, <2>1, <3>1
  <2>2. CASE c.step # "running"
    <3>1. Asking(p) = "answered" /\ Told(p) = c.res
      BY <1>1, <2>2, Seen DEF c
    <3>2. s >= c.res
      <4>1. c.res \in 0..2 /\ s \in 0..2
        BY <1>1, <1>3
      <4>2. CASE res = c.res
        BY <1>3, <4>2
      <4>3. CASE res = Down
        <5>1. s = 2
          BY <1>1, <1>3, <4>3
        <5>. QED  BY <4>1, <5>1
      <4>. QED  BY <1>2, <4>2, <4>3
    <3>. QED  BY <3>1, <3>2
  <2>. QED  BY <2>1, <2>2
<1>9. Shared!Report(p, s)
  BY <1>5, <1>6, <1>7, <1>8, ShareMove DEF Shared!Report, Running
<1>. QED  BY <1>3, <1>9 DEF ShareStep, Shared!SharedCallNext

\* A probe that goes on to read draining has reported and leaves.
LEMMA DrainingLeaves ==
  ASSUME TypeInv, NEW p \in Callers, ReadDraining(p)
  PROVE  ShareStep
<1>1. /\ probe[p].step = "collected" /\ probe'[p].step = "ready"
      /\ \A q \in Callers \ {p} : probe'[q] = probe[q]
      /\ UNCHANGED call
  BY DEF ReadDraining, TypeInv, TypeOK, ProbeType, registryVars
<1>2. Asking(p) = "reported" /\ Asking(p)' = "away" /\ Told(p)' = Down
  BY <1>1, Seen, SeenNext
<1>3. \A q \in Callers \ {p} : Asking(q)' = Asking(q) /\ Told(q)' = Told(q)
  BY <1>1, Unseen
<1>4. Running' = Running
  BY <1>1, SameRunning
<1>5. Shared!Leave(p)
  BY <1>2, <1>3, <1>4, ShareMove DEF Shared!Leave, Running
<1>. QED  BY <1>5 DEF ShareStep, Shared!SharedCallNext

\* The Checker's callers see nothing of a step that keeps the executions, of a
\* probe that is neither waiting nor has reported, before and after it.
LEMMA ProbeUnseen ==
  ASSUME UNCHANGED call, NEW p \in Callers,
         \A q \in Callers \ {p} : probe'[q] = probe[q],
         {probe[p].step, probe'[p].step} \intersect {"waiting", "collected"} = {}
  PROVE  ShareStep
<1>1. \A q \in Callers : Asking(q)' = Asking(q) /\ Told(q)' = Told(q)
  BY Unseen
<1>. QED  BY <1>1, SameRunning, ShareStutter

\* Every step is a step of SharedCall or a stutter.
LEMMA ShareSimulated ==
  TypeInv /\ ExecutionInv /\ UseInv /\ [Next]_vars => ShareStep
<1>. SUFFICES ASSUME TypeInv, ExecutionInv, UseInv, [Next]_vars
             PROVE  ShareStep
  OBVIOUS
<1>0. probe \in [Callers -> ProbeType] /\ {Heartbeat, Registrar} \subseteq Callers
  BY DEF TypeInv, TypeOK, Callers
<1>1. CASE UNCHANGED <<probe, call>>
  <2>1. \A q \in Callers : Asking(q)' = Asking(q) /\ Told(q)' = Told(q)
    BY <1>1, Unseen
  <2>. QED  BY <1>1, <2>1, SameRunning, ShareStutter
<1>2. ASSUME NEW i \in Calls, Execution(i)
      PROVE  ShareStep
  BY <1>2, ExecutionUnseen, ReturnAnswers DEF Execution
<1>3. ASSUME NEW p \in Callers, List(p)
      PROVE  ShareStep
  <2>1. /\ probe[p].step \in {"idle", "start"} /\ probe'[p].step = "listed"
        /\ \A q \in Callers \ {p} : probe'[q] = probe[q]
        /\ UNCHANGED call
    BY <1>0, <1>3 DEF List, ProbeType, registryVars
  <2>. QED  BY <2>1, ProbeUnseen
<1>4. ASSUME NEW p \in Callers, Ready(p)
      PROVE  ShareStep
  BY <1>3, <1>4, BeginAsks, WaitReports, DrainingLeaves DEF Ready, Runs
<1>5. ASSUME NEW p \in Callers, probe[p].step = "ready",
             probe' = [probe EXCEPT ![p] = NoProbe], UNCHANGED call
      PROVE  ShareStep
  <2>1. /\ probe'[p].step = "idle"
        /\ \A q \in Callers \ {p} : probe'[q] = probe[q]
    BY <1>0, <1>5, Idle
  <2>. QED  BY <1>5, <2>1, ProbeUnseen
<1>6. ASSUME NEW p \in Callers, probe[p].step = "idle",
             probe' = [probe EXCEPT ![p].step = "start"], UNCHANGED call
      PROVE  ShareStep
  <2>1. /\ probe'[p].step = "start"
        /\ \A q \in Callers \ {p} : probe'[q] = probe[q]
    BY <1>0, <1>6 DEF ProbeType
  <2>. QED  BY <1>6, <2>1, ProbeUnseen
<1>7. ASSUME NEW p \in Probes, Responds(p)
      PROVE  ShareStep
  BY <1>5, <1>7 DEF Responds, registryVars, Callers
<1>8. CASE HeartbeatStep
  <2>1. CASE Beats \/ SkipsBeat
    BY <1>1, <2>1 DEF Beats, SkipsBeat, registryVars
  <2>2. CASE ProbesForBeat
    BY <1>0, <1>6, <2>2 DEF ProbesForBeat, registryVars, UseInv
  <2>3. CASE SendsBeat
    BY <1>0, <1>5, <2>3 DEF SendsBeat, registryVars
  <2>. QED  BY <1>8, <2>1, <2>2, <2>3 DEF HeartbeatStep
<1>9. CASE RegistrarStep
  <2>1. CASE Registers
    BY <1>0, <1>6, <2>1 DEF Registers, registryVars, UseInv
  <2>2. CASE SendsDefinition
    BY <1>0, <1>5, <2>2 DEF SendsDefinition, registryVars
  <2>3. CASE Records
    BY <1>1, <2>3 DEF Records, registryVars
  <2>. QED  BY <1>9, <2>1, <2>2, <2>3 DEF RegistrarStep
<1>. QED
  BY <1>1, <1>2, <1>4, <1>7, <1>8, <1>9
     DEF Next, vars, registryVars, Set, Notify, CheckedChanges, SetDraining, AgentForgets

\* Probes share the Checker as they are promised, however many there are: an
\* answer is for those who asked before it was found, and nobody reports better
\* than it was told.
THEOREM SharedCallImplemented == Spec => ImplementsSharedCall
<1>1. Init => UseInv
  BY DEF Init, UseInv, NoProbe, Callers
<1>2. Spec => [](TypeInv /\ ExecutionInv /\ UseInv)
  BY <1>1, TypeInit, TypeStep, ExecutionInit, ExecutionStep, UseStep, PTL DEF Spec
<1>3. Init => Shared!SharedCallInit
  <2>. SUFFICES ASSUME Init PROVE Shared!SharedCallInit
    OBVIOUS
  <2>1. Executing = {}
    BY DEF Init, Executing, NoExecution
  <2>2. \A p \in Callers : Asking(p) = "away" /\ Told(p) = Down
    BY Seen DEF Init, NoProbe
  <2>. QED  BY <2>1, <2>2 DEF Shared!SharedCallInit
<1>4. TypeInv /\ ExecutionInv /\ UseInv /\ [Next]_vars
        => [Shared!SharedCallNext]_(Shared!sharedCallVars)
  BY ShareSimulated DEF ShareStep
<1>. QED
  BY <1>2, <1>3, <1>4, PTL DEF Spec, ImplementsSharedCall, Shared!SharedCallSpec

=============================================================================
