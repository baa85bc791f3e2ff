--------------------------- MODULE HealthReporting ---------------------------
(***************************************************************************)
(* health.Registry with the readiness probes that run against it, and the  *)
(* TTL check that the client keeps up to date from them.                   *)
(*                                                                         *)
(* The registry holds one component that the application pushes and one    *)
(* that a Checker answers for.  Concurrent probes share the execution of   *)
(* the Checker.  Three kinds of caller run Registry.Ready: HTTP probes,    *)
(* the heartbeat, which sends the status to the TTL check, and the         *)
(* registrar, which registers the check with the status of the moment      *)
(* (the rest of the registrar is in ClientRuntime).  The Checker's deadline *)
(* is taken to be shorter than that of the registration request, as it is  *)
(* by default, so the registrar's probe ends before its request does.      *)
(*                                                                         *)
(* A status is its severity: 0 is UP, 1 is DEGRADED and 2 is DOWN.         *)
(***************************************************************************)
EXTENDS Naturals, FiniteSets

CONSTANTS
  Statuses,     \* the statuses that components take
  Probes,       \* HTTP probes that may run at the same time
  Heartbeat,    \* Client.runHeartbeat
  Registrar,    \* Client.runRegistrar
  Hung,         \* the Checker does not return
  NoCall,       \* no execution of the Checker
  NumCalls,     \* bound: executions and results alive at the same time, enough
                \* for one per caller and one that closes done
  MaxChanges,   \* bound: changes of the components, and of draining
  MaxFaults     \* bound: late answers, lost heartbeats and forgetful agents

Up   == 0
Down == 2

Callers == Probes \union {Heartbeat, Registrar}
Calls   == 1..NumCalls

ASSUME HealthAssumption ==
  /\ {Up, Down} \subseteq Statuses /\ Statuses \subseteq 0..2
  /\ Heartbeat # Registrar /\ {Heartbeat, Registrar} \intersect Probes = {}
  /\ Hung \notin Statuses /\ NoCall \notin Calls
  /\ NumCalls \in Nat /\ NumCalls > Cardinality(Callers)
  /\ MaxChanges \in Nat /\ MaxFaults \in Nat

VARIABLES
  \* the application
  pushed,      \* the state of the pushed component
  checked,     \* what the Checker would answer
  draining,    \* Registry.draining
  pushing,     \* Registry.Set has stored the state and calls the listeners
  \* executions of the Checker
  call,        \* checkCall: where each is, its result, whether its deadline passed
  inflight,    \* component.inflight
  \* Registry.Ready, for each caller
  probe,       \* where it is, the pushed state it copied, its execution, its result
  \* the client
  woken,       \* a token is in the healthChanged channel
  beat,        \* where runHeartbeat is
  registering, \* where the registrar is
  registered,  \* Registration.Registered
  \* the agent
  known,       \* it has the service and its check
  check,       \* the status of the check
  \* history and bounds
  owed,        \* a push that was notified is in no heartbeat or registration yet
  changes, faults

appVars      == <<pushed, checked, draining, pushing, changes>>
registryVars == <<call, inflight>>
clientVars   == <<beat, registering, registered>>
agentVars    == <<known, check>>

vars == <<appVars, registryVars, probe, woken, clientVars, agentVars, owed, faults>>

Worse(s, t) == IF t > s THEN t ELSE s

NoExecution == [step |-> "none", res |-> Down, late |-> FALSE]
NoProbe     == [step |-> "idle", pushed |-> Down, call |-> NoCall, status |-> Down]

\* Start has launched the tasks, and its own attempt to register has failed.
Init ==
  /\ pushed = Up /\ checked = Up
  /\ draining = FALSE
  /\ pushing = FALSE
  /\ call = [i \in Calls |-> NoExecution]
  /\ inflight = NoCall
  /\ probe = [p \in Callers |-> NoProbe]
  /\ woken = FALSE
  /\ beat = "select"
  /\ registering = "idle"
  /\ registered = FALSE
  /\ known = FALSE
  /\ check = Down
  /\ owed = FALSE
  /\ changes = 0 /\ faults = 0

-----------------------------------------------------------------------------
(***************************************************************************)
(* The application.                                                        *)
(***************************************************************************)

\* Registry.Set stores the state, and then calls the listeners.
Set ==
  /\ ~pushing
  /\ changes < MaxChanges
  /\ changes' = changes + 1
  /\ pushed' \in Statuses \ {pushed}
  /\ pushing' = TRUE
  /\ UNCHANGED <<checked, draining, registryVars, probe, woken, clientVars, agentVars,
                 owed, faults>>

\* Client.notifyHealthChanged.
Notify ==
  /\ pushing
  /\ pushing' = FALSE
  /\ woken' = TRUE
  /\ owed' = (owed \/ registered)
  /\ UNCHANGED <<pushed, checked, draining, changes, registryVars, probe, clientVars,
                 agentVars, faults>>

\* What the Checker looks at changes, or makes it hang.
CheckedChanges ==
  /\ changes < MaxChanges
  /\ changes' = changes + 1
  /\ checked' \in (Statuses \union {Hung}) \ {checked}
  /\ UNCHANGED <<pushed, draining, pushing, registryVars, probe, woken, clientVars,
                 agentVars, owed, faults>>

SetDraining ==
  /\ changes < MaxChanges
  /\ changes' = changes + 1
  /\ draining' = ~draining
  /\ UNCHANGED <<pushed, checked, pushing, registryVars, probe, woken, clientVars,
                 agentVars, owed, faults>>

-----------------------------------------------------------------------------
(***************************************************************************)
(* An execution of the Checker, in its own goroutine.                      *)
(***************************************************************************)

Executing == {i \in Calls : call[i].step = "running"}

\* The execution's own context reaches its deadline.
DeadlinePasses(i) ==
  /\ call[i].step = "running"
  /\ ~call[i].late
  /\ \/ /\ checked = Hung
        /\ UNCHANGED faults
     \/ /\ checked # Hung
        /\ faults < MaxFaults
        /\ faults' = faults + 1
  /\ call' = [call EXCEPT ![i].late = TRUE]
  /\ UNCHANGED <<appVars, inflight, probe, woken, clientVars, agentVars, owed>>

\* Bound: one execution at a time is between its result and closing done.
Publishing == \E i \in Calls : call[i].step = "published"

\* Variant of Returns that leaves the execution in flight until it has closed done.
ReturnsInflight(i) ==
  /\ call[i].step = "running"
  /\ checked # Hung /\ ~Publishing
  /\ call' = [call EXCEPT ![i].step = "published",
                          ![i].res = IF call[i].late THEN Down ELSE checked]
  /\ UNCHANGED <<appVars, inflight, probe, woken, clientVars, agentVars, owed, faults>>

\* Variant of Returns that publishes what it has without the Checker's answer.
ReturnsUnanswered(i) ==
  /\ call[i].step = "running"
  /\ ~Publishing
  /\ call' = [call EXCEPT ![i].step = "published",
                          ![i].res = IF call[i].late THEN Down ELSE checked]
  /\ inflight' = NoCall
  /\ UNCHANGED <<appVars, probe, woken, clientVars, agentVars, owed, faults>>

\* The Checker returns (a panic returns Down); a late answer is Down. The result
\* is stored and the execution is in flight no more.
Returns(i) ==
  /\ call[i].step = "running"
  /\ checked # Hung /\ ~Publishing
  /\ call' = [call EXCEPT ![i].step = "published",
                          ![i].res = IF call[i].late THEN Down ELSE checked]
  /\ inflight' = NoCall
  /\ UNCHANGED <<appVars, probe, woken, clientVars, agentVars, owed, faults>>

\* Executions are garbage when they have ended and no probe refers to them.
Swept(calls, probes) ==
  [i \in Calls |-> IF calls[i].step = "done" /\ \A p \in Callers : probes[p].call # i
                   THEN NoExecution ELSE calls[i]]

\* done is closed, after the lock is released.
ClosesDone(i) ==
  /\ call[i].step = "published"
  /\ call' = Swept([call EXCEPT ![i].step = "done"], probe)
  /\ UNCHANGED <<appVars, inflight, probe, woken, clientVars, agentVars, owed, faults>>

-----------------------------------------------------------------------------
(***************************************************************************)
(* Registry.Ready.                                                         *)
(***************************************************************************)

\* The components are listed under the lock, with the pushed states.
List(p) ==
  /\ probe[p].step = IF p \in Probes THEN "idle" ELSE "start"
  /\ probe' = [probe EXCEPT ![p].step = "listed", ![p].pushed = pushed]
  /\ owed' = (owed /\ p \in Probes)
  /\ UNCHANGED <<appVars, registryVars, woken, clientVars, agentVars, faults>>

Free     == {i \in Calls : call[i].step = "none"}
FreeCall == CHOOSE i \in Free : TRUE

\* Variant of Begin in which every probe starts an execution.
BeginAnother(p) ==
  /\ probe[p].step = "listed"
  /\ Free # {}
  /\ call' = [call EXCEPT ![FreeCall] = [NoExecution EXCEPT !.step = "running"]]
  /\ inflight' = FreeCall
  /\ probe' = [probe EXCEPT ![p].step = "waiting", ![p].call = FreeCall]
  /\ UNCHANGED <<appVars, woken, clientVars, agentVars, owed, faults>>

\* The execution in flight is shared; if there is none, one is started.
Begin(p) ==
  /\ probe[p].step = "listed"
  /\ \/ /\ inflight # NoCall
        /\ probe' = [probe EXCEPT ![p].step = "waiting", ![p].call = inflight]
        /\ UNCHANGED <<call, inflight>>
     \/ /\ inflight = NoCall
        /\ Free # {}
        /\ call' = [call EXCEPT ![FreeCall] = [NoExecution EXCEPT !.step = "running"]]
        /\ inflight' = FreeCall
        /\ probe' = [probe EXCEPT ![p].step = "waiting", ![p].call = FreeCall]
  /\ UNCHANGED <<appVars, woken, clientVars, agentVars, owed, faults>>

\* The status of the report, from the result of the execution.
Collected(p, res) ==
  /\ probe' = [probe EXCEPT ![p] = [NoProbe EXCEPT
                 !.step = "collected", !.status = Worse(probe[p].pushed, res)]]
  /\ call' = Swept(call, probe')

\* Variant of Wait that waits for the execution, however long it takes.
WaitForDone(p) ==
  /\ probe[p].step = "waiting"
  /\ call[probe[p].call].step = "done"
  /\ Collected(p, call[probe[p].call].res)
  /\ UNCHANGED <<appVars, inflight, woken, clientVars, agentVars, owed, faults>>

\* checkCall.wait: a published result wins over a deadline that has passed; an
\* HTTP probe may also be cancelled by its client.
Wait(p) ==
  /\ probe[p].step = "waiting"
  /\ LET c == call[probe[p].call] IN
       \/ /\ c.step = "done"
          /\ Collected(p, c.res)
       \/ /\ c.step # "done"
          /\ c.late \/ p \in Probes
          /\ Collected(p, Down)
  /\ UNCHANGED <<appVars, inflight, woken, clientVars, agentVars, owed, faults>>

\* Variant of ReadDraining that only adds the shutdown component to the report.
IgnoreDraining(p) ==
  /\ probe[p].step = "collected"
  /\ probe' = [probe EXCEPT ![p].step = "ready"]
  /\ UNCHANGED <<appVars, registryVars, woken, clientVars, agentVars, owed, faults>>

\* Draining is read last.
ReadDraining(p) ==
  /\ probe[p].step = "collected"
  /\ probe' = [probe EXCEPT ![p].step = "ready",
                            ![p].status = IF draining THEN Down ELSE probe[p].status]
  /\ UNCHANGED <<appVars, registryVars, woken, clientVars, agentVars, owed, faults>>

\* An HTTP probe is answered.
Responds(p) ==
  /\ probe[p].step = "ready"
  /\ probe' = [probe EXCEPT ![p] = NoProbe]
  /\ UNCHANGED <<appVars, registryVars, woken, clientVars, agentVars, owed, faults>>

-----------------------------------------------------------------------------
(***************************************************************************)
(* The heartbeat.                                                          *)
(***************************************************************************)

\* Variant of Beats that waits for a push.
BeatsOnPush ==
  /\ beat = "select"
  /\ woken
  /\ woken' = FALSE
  /\ beat' = "beating"
  /\ UNCHANGED <<appVars, registryVars, probe, registering, registered, agentVars, owed,
                 faults>>

\* A tick, or a push.
Beats ==
  /\ beat = "select"
  /\ woken' \in {woken, FALSE}
  /\ beat' = "beating"
  /\ UNCHANGED <<appVars, registryVars, probe, registering, registered, agentVars, owed,
                 faults>>

\* Nothing is sent before the service is registered.
SkipsBeat ==
  /\ beat = "beating"
  /\ ~registered
  /\ beat' = "select"
  /\ UNCHANGED <<appVars, registryVars, probe, woken, registering, registered,
                 agentVars, owed, faults>>

ProbesForBeat ==
  /\ beat = "beating"
  /\ registered
  /\ beat' = "probing"
  /\ probe' = [probe EXCEPT ![Heartbeat].step = "start"]
  /\ UNCHANGED <<appVars, registryVars, woken, registering, registered, agentVars, owed,
                 faults>>

\* Variant of SendsBeat that empties healthChanged when it is done.
SendsBeatAndDrains ==
  /\ beat = "probing"
  /\ probe[Heartbeat].step = "ready"
  /\ \/ /\ known
        /\ check' = probe[Heartbeat].status
        /\ UNCHANGED faults
     \/ /\ ~known
        /\ UNCHANGED <<check, faults>>
     \/ /\ faults < MaxFaults
        /\ faults' = faults + 1
        /\ UNCHANGED check
  /\ beat' = "select"
  /\ woken' = FALSE
  /\ probe' = [probe EXCEPT ![Heartbeat] = NoProbe]
  /\ UNCHANGED <<appVars, registryVars, registering, registered, known, owed>>

\* UpdateTTL sets the check the agent has; without one, or when the request is
\* lost, the heartbeat only logs the failure.
SendsBeat ==
  /\ beat = "probing"
  /\ probe[Heartbeat].step = "ready"
  /\ \/ /\ known
        /\ check' = probe[Heartbeat].status
        /\ UNCHANGED faults
     \/ /\ ~known
        /\ UNCHANGED <<check, faults>>
     \/ /\ faults < MaxFaults
        /\ faults' = faults + 1
        /\ UNCHANGED check
  /\ beat' = "select"
  /\ probe' = [probe EXCEPT ![Heartbeat] = NoProbe]
  /\ UNCHANGED <<appVars, registryVars, woken, registering, registered, known, owed>>

-----------------------------------------------------------------------------
(***************************************************************************)
(* The registrar and the agent.                                            *)
(***************************************************************************)

\* A lost service is marked so and registered again: buildCheck reads the
\* readiness for the initial status of the check.
Registers ==
  /\ registering = "idle"
  /\ ~known
  /\ registered' = FALSE
  /\ registering' = "probing"
  /\ probe' = [probe EXCEPT ![Registrar].step = "start"]
  /\ UNCHANGED <<appVars, registryVars, woken, beat, agentVars, owed, faults>>

\* The agent has the service and its check as they were defined.
SendsDefinition ==
  /\ registering = "probing"
  /\ probe[Registrar].step = "ready"
  /\ known' = TRUE
  /\ check' = probe[Registrar].status
  /\ probe' = [probe EXCEPT ![Registrar] = NoProbe]
  /\ registering' = "recording"
  /\ UNCHANGED <<appVars, registryVars, woken, beat, registered, owed, faults>>

Records ==
  /\ registering = "recording"
  /\ registered' = TRUE
  /\ registering' = "idle"
  /\ UNCHANGED <<appVars, registryVars, probe, woken, beat, agentVars, owed, faults>>

\* The agent restarts without its state; the registrar notices.
AgentForgets ==
  /\ known
  /\ faults < MaxFaults
  /\ faults' = faults + 1
  /\ known' = FALSE
  /\ UNCHANGED <<appVars, registryVars, probe, woken, clientVars, check, owed>>

-----------------------------------------------------------------------------

Execution(i) == DeadlinePasses(i) \/ Returns(i) \/ ClosesDone(i)

Runs(p)  == Begin(p) \/ Wait(p) \/ ReadDraining(p)
Ready(p) == List(p) \/ Runs(p)

HeartbeatStep == Beats \/ SkipsBeat \/ ProbesForBeat \/ SendsBeat

RegistrarStep == Registers \/ SendsDefinition \/ Records

Next ==
  \/ Set \/ Notify \/ CheckedChanges \/ SetDraining
  \/ \E i \in Calls : Execution(i)
  \/ \E p \in Callers : Ready(p)
  \/ \E p \in Probes : Responds(p)
  \/ HeartbeatStep \/ RegistrarStep \/ AgentForgets

Spec == Init /\ [][Next]_vars

(***************************************************************************)
(* Fairness: the goroutines run, the ticker ticks, a deadline passes, and  *)
(* a Checker that does not hang returns.  Nothing makes the application    *)
(* push, or probes arrive.                                                 *)
(***************************************************************************)
FairSpec ==
  /\ Spec
  /\ WF_vars(Notify)
  /\ \A i \in Calls : WF_vars(Execution(i))
  /\ \A p \in Callers \ Probes : WF_vars(Ready(p))
  /\ \A p \in Probes : WF_vars(Runs(p) \/ Responds(p))
  /\ WF_vars(HeartbeatStep)
  /\ WF_vars(RegistrarStep)

-----------------------------------------------------------------------------
(***************************************************************************)
(* Properties.                                                             *)
(***************************************************************************)

CallType ==
  [step: {"none", "running", "published", "done"}, res: Statuses, late: BOOLEAN]

ProbeType ==
  [step: {"idle", "start", "listed", "waiting", "collected", "ready"},
   pushed: Statuses, call: Calls \union {NoCall}, status: Statuses]

\* Type correctness of every variable, within the named bounds.
TypeOK ==
  /\ pushed \in Statuses
  /\ checked \in Statuses \union {Hung}
  /\ {draining, pushing, woken, registered, known, owed} \subseteq BOOLEAN
  /\ call \in [Calls -> CallType]
  /\ inflight \in Calls \union {NoCall}
  /\ probe \in [Callers -> ProbeType]
  /\ beat \in {"select", "beating", "probing"}
  /\ registering \in {"idle", "probing", "recording"}
  /\ check \in Statuses
  /\ changes \in 0..MaxChanges /\ faults \in 0..MaxFaults

\* However many probes run, and however long the Checker hangs, no more than
\* one of its executions is running: stuck goroutines never pile up.
OneExecution == Cardinality(Executing) <= 1

\* A probe never shares an execution that has already answered: what it reports
\* of the Checker was found out while the probe was running.
SharesOnlyRunning ==
  [][\A p \in Callers :
       probe[p].step = "listed" /\ probe'[p].step = "waiting"
         => call'[probe'[p].call].step = "running"]_vars

\* How the callers of the Checker see it: a probe waits as long as the execution
\* that it refers to is running, and from then on it has the answer.
Asking(p) ==
  CASE probe[p].step = "collected" -> "reported"
    [] probe[p].step = "waiting" ->
         IF call[probe[p].call].step = "running" THEN "waiting" ELSE "answered"
    [] OTHER -> "away"

Told(p) ==
  CASE Asking(p) = "reported" -> probe[p].status
    [] Asking(p) = "answered" -> call[probe[p].call].res
    [] OTHER -> Down

Shared == INSTANCE SharedCall WITH
  Worst   <- Down,
  running <- Executing # {},
  asking  <- [p \in Callers |-> Asking(p)],
  status  <- [p \in Callers |-> Told(p)]

\* Probes share the Checker as they are promised: an answer is for those who have
\* asked before it was found, and nobody reports better than it was told.
ImplementsSharedCall == Shared!SharedCallSpec

\* A probe that has begun ends, also when the Checker hangs.
ProbesEnd == \A p \in Callers : probe[p].step = "listed" ~> probe[p].step = "ready"

\* A state pushed while the service is registered does not wait for a tick: it
\* goes out with the next heartbeat, or with the registration that comes first.
PushIsReported ==
  owed => \/ woken \/ beat = "beating"
          \/ \E p \in {Heartbeat, Registrar} : probe[p].step = "start"

\* What a probe that starts now would report, if nothing changes meanwhile.
Readiness ==
  IF draining \/ checked = Hung THEN Down ELSE Worse(pushed, checked)

\* Once the application has settled, the TTL check in Consul shows its
\* readiness: after stale registrations, lost heartbeats and forgetful agents.
CheckConverges == <>[](known /\ check = Readiness)

=============================================================================
