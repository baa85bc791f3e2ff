---------------------------- MODULE ClientSetup ----------------------------
(***************************************************************************)
(* New, and what follows from the configuration it has built: the          *)
(* registrar of Registration or the loads of ConfigTree.  These two share  *)
(* nothing but the configuration, which no longer changes, so a behavior   *)
(* goes on with one of them.                                               *)
(***************************************************************************)
EXTENDS Integers, FiniteSets, Sequences, Functions

CONSTANTS
  Environments, Arguments, MaxArguments, AppData,              \* see Settings
  Interfaces, HostVersions, MaxChanges,                        \* see Registration
  Contents, Schema, Numbers, NoText, Rejected, MaxLoads, MaxWrites  \* see ConfigTree

VARIABLES
  stage,  \* new, registering or loading
  env, args, cfg, mem, bad, phase,
  conf, network, agent, services, process, generated, cached, current, attempt, changes,
  contexts, store, seen, merged, dst, before, outcome, loads, writes

S == INSTANCE Settings
R == INSTANCE Registration
T == INSTANCE ConfigTree

ASSUME SetupAssumption == S!ArgumentsOK
ASSUME SourcesAssumption == S!SourcesTyped
ASSUME TextsAssumption == S!OwnTexts \subseteq STRING  \* the provers do not know it
ASSUME TreeAssumption == T!DataOK
ASSUME BoundsAssumption ==
  MaxArguments \in Nat /\ MaxChanges \in Nat /\ MaxLoads \in Nat /\ MaxWrites \in Nat

settingsVars == <<env, args, cfg, mem, bad, phase>>
clientVars == <<process, generated, cached, current, attempt>>
registrationVars == <<conf, network, agent, services, clientVars, changes>>
treeVars == <<contexts, store, seen, merged, dst, before, outcome, loads, writes>>

vars == <<stage, settingsVars, registrationVars, treeVars>>

\* What a client holds before New has returned.
NotYet == <<>>

Init ==
  /\ stage = "new"
  /\ S!Init
  /\ conf = NotYet /\ network = NotYet /\ agent = NotYet
  /\ R!Fresh
  /\ contexts = NotYet /\ store = NotYet
  /\ T!Fresh

\* The locals of newSettings go out of scope. The Client keeps cfg; conf and
\* contexts hold what is still read of it.
SettingsDone ==
  /\ stage = "new" /\ phase = "ready"
  /\ env' = NotYet /\ args' = <<>> /\ cfg' = S!Zero /\ mem' = NotYet
  /\ phase' = "done"
  /\ UNCHANGED bad

\* What registration reads of the configuration.
Registrant(c) ==
  [id |-> c.id, strategy |-> c.strategy, address |-> c.address, addressEnv |-> c.addressEnv,
   allowLoopback |-> c.allowLoopback, preferIPv6 |-> c.preferIPv6,
   fixedPort |-> c.port # 0 \/ c.ports, ports |-> c.ports]

\* Run, Start or Register: the first attempt finds some network and agent. The
\* route to an agent on this host is the loopback.
Registers ==
  /\ SettingsDone
  /\ cfg.name # ""
  /\ stage' = "registering"
  /\ conf' = Registrant(cfg)
  /\ network' \in [variable: {""}, route: {"127.0.0.1"}, interfaces: Interfaces]
  /\ agent' \in [version: HostVersions, readable: BOOLEAN, up: {TRUE}]
  /\ UNCHANGED <<services, clientVars, changes, treeVars>>

\* Config: the loader is made for the KV name or that of the service, and for
\* the environment as its profile.
Loads ==
  /\ SettingsDone
  /\ stage' = "loading"
  /\ contexts' = T!ContextsOf(S!Or(cfg.kvName, cfg.name, ""),
                              IF cfg.environment = "" THEN <<>> ELSE <<cfg.environment>>)
  /\ store' \in [Range(contexts') -> Contents]
  /\ UNCHANGED <<registrationVars, seen, merged, dst, before, outcome, loads, writes>>

Settle == stage = "new" /\ S!Next /\ UNCHANGED <<stage, registrationVars, treeVars>>

Register(step) == stage = "registering" /\ step /\ UNCHANGED <<stage, settingsVars, treeVars>>

Load == stage = "loading" /\ T!Next /\ UNCHANGED <<stage, settingsVars, registrationVars>>

Next ==
  \/ Settle \/ Registers \/ Loads
  \/ Register(R!RegistrarStep) \/ Register(R!Stop) \/ Register(R!WorldStep)
  \/ Load

(***************************************************************************)
(* Fairness: the registrar retries for as long as the process runs, see    *)
(* ClientRuntime.  Nothing makes the world change or the application stop. *)
(***************************************************************************)
Spec == Init /\ [][Next]_vars /\ WF_vars(Register(R!RegistrarStep))

-----------------------------------------------------------------------------
(***************************************************************************)
(* Properties.                                                             *)
(***************************************************************************)

\* Type correctness of the parts. What registration and the loader start from
\* has passed the validation: conf and contexts are of their types.
TypeOK ==
  /\ stage \in {"new", "registering", "loading"}
  /\ stage = "new" => S!TypeOK
  /\ stage = "registering" => R!TypeOK
  /\ stage = "loading" => T!TypeOK

\* See Settings: the last argument that sets a field decides it.
LastSetterWins == S!LastSetterWins

\* See Settings: the Client and the application share no memory.
SharesNothing == [][stage' = "new" => S!Separate]_vars

\* See Registration: no instance is registered twice or left as an orphan.
OneInstance == stage = "registering" => R!OneInstance

\* What keeps a running process from being registered (no address yet, an agent
\* too old for the definition, an agent that is down) can be mended without
\* restarting the process. The token must be able to read the agent's version:
\* otherwise the version of an earlier agent stays in the cache.
FixedWithoutRestart ==
  <>[](stage = "registering" /\ R!Registrable) => <>[]R!Served

\* See ConfigTree: the last context that gives a field a value decides it.
HighestContextWins == T!HighestContextWins

=============================================================================
