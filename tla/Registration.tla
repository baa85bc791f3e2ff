---------------------------- MODULE Registration ----------------------------
(***************************************************************************)
(* What an instance registers: the address it finds for itself, the ID it  *)
(* goes by, and whether the agent it talks to can take the definition.     *)
(* The network, the agent and the process itself change underneath: an     *)
(* interface comes up, the agent is upgraded or restarted, the process     *)
(* crashes between the request and its answer and is started again.        *)
(***************************************************************************)
EXTENDS Naturals, Sequences, Functions

CONSTANTS
  Interfaces,   \* possible lists of interface addresses, see Select
  HostVersions, \* versions of the agents: <<major, minor, patch>>
  MaxChanges    \* bound on the changes of the world

VARIABLES
  conf,      \* the configuration
  network,   \* what the address sources answer: variable, route, interfaces
  agent,     \* version, readable (agent:read), up
  services,  \* the agent's services: ID -> address and incarnation
  process,   \* incarnation of the process and the UUIDs it has drawn
  generated, \* Client.generatedID, <<>> before idOnce
  cached,    \* Client.agent.Version
  current,   \* Client.reg.current
  attempt,   \* the registration attempt: its step and its definition
  changes

vars == <<conf, network, agent, services, process, generated, cached, current,
          attempt, changes>>

worldVars  == <<network, agent>>
clientVars == <<process, generated, cached, current, attempt>>

Unknown == <<>>
NotFound == "none"

ConfigType ==
  [id: STRING, strategy: {"hostname-port", "random"}, address: STRING,
   addressEnv: BOOLEAN, allowLoopback: BOOLEAN, preferIPv6: BOOLEAN,
   fixedPort: BOOLEAN, ports: BOOLEAN]

-----------------------------------------------------------------------------
(***************************************************************************)
(* Addresses, by what netaddr tells apart.                                 *)
(***************************************************************************)

IsWildcard(addr) == addr \in {"", "0.0.0.0", "::"}
IsLoopback(addr) == addr \in {"127.0.0.1", "localhost"}
IsIPv6(addr)     == addr \in {"fd00::1", "::"}
IsPrivate(addr)  == addr \in {"10.0.0.1", "10.0.0.2", "fd00::1"}

\* checkServiceAddress
Usable(addr, allowLoopback) ==
  addr # NotFound /\ ~IsWildcard(addr) /\ (allowLoopback \/ ~IsLoopback(addr))

\* netaddr.Select: the first private address of an interface that is up and
\* is no bridge of a container runtime.
Select(addresses, ipv6) ==
  LET Matches(a) == a.up /\ ~a.virtual /\ IsIPv6(a.addr) = ipv6 /\ IsPrivate(a.addr)
      found == SelectSeq(addresses, Matches)
  IN  IF found = <<>> THEN NotFound ELSE Head(found).addr

\* The chain of resolveEndpoint, in order of precedence. The host of the HTTP
\* server and a custom resolver are sources like the variable.
Answers(c, n) ==
  (IF c.addressEnv THEN <<n.variable>> ELSE <<>>)
    \o <<n.route, Select(n.interfaces, c.preferIPv6)>>

\* resolveEndpoint: the configured address, or the first usable answer.
ResolveAddress(c, n) ==
  LET Good(addr) == Usable(addr, c.allowLoopback)
      found == SelectSeq(IF c.address # "" THEN <<c.address>> ELSE Answers(c, n), Good)
  IN  IF found = <<>> THEN NotFound ELSE Head(found)

\* The port is configured, or the one the listener got from the system.
ResolvePort == IF conf.fixedPort THEN 8080 ELSE 50000 + process.incarnation

-----------------------------------------------------------------------------
(***************************************************************************)
(* Features, and the agents that take them.                                *)
(***************************************************************************)

\* Version.AtLeast, on the parts of a version.
AtLeast(v, r) ==
  \/ v[1] > r[1]
  \/ v[1] = r[1] /\ v[2] > r[2]
  \/ v[1] = r[1] /\ v[2] = r[2] /\ v[3] >= r[3]

Requirement == [multiPort |-> <<1, 22, 0>>, ipv6 |-> <<1, 22, 0>>]

Features(def) ==
  {f \in {"multiPort"} : conf.ports} \union {f \in {"ipv6"} : IsIPv6(def.address)}

\* Version.Supports: an unknown version is given the benefit of the doubt.
Supports(v, f) == v = Unknown \/ AtLeast(v, Requirement[f])

CheckFeatures(def) == \A f \in Features(def) : Supports(cached, f)

\* The agent decodes strictly: a field it does not know is a 400.
AgentAccepts(def) == \A f \in Features(def) : AtLeast(agent.version, Requirement[f])

-----------------------------------------------------------------------------

None == [id |-> <<>>, registered |-> FALSE]
Idle == [step |-> "idle"]

\* A new Client, before its first attempt.
Fresh ==
  /\ services = <<>>
  /\ process = [incarnation |-> 1, uuids |-> 0, running |-> TRUE]
  /\ generated = <<>>
  /\ cached = Unknown
  /\ current = None
  /\ attempt = Idle
  /\ changes = 0

\* Variant of Detect that asks only once.
DetectOnce ==
  /\ attempt = Idle
  /\ process.running /\ ~current.registered
  /\ agent.up
  /\ cached' = IF agent.readable /\ cached = Unknown THEN agent.version ELSE cached
  /\ attempt' = [step |-> "detected"]
  /\ UNCHANGED <<conf, worldVars, services, process, generated, current, changes>>

\* register, first part: detectAgent refreshes the cached version. A token
\* that may not read it leaves the cache as it is.
Detect ==
  /\ attempt = Idle
  /\ process.running /\ ~current.registered
  /\ agent.up
  /\ cached' = IF agent.readable THEN agent.version ELSE cached
  /\ attempt' = [step |-> "detected"]
  /\ UNCHANGED <<conf, worldVars, services, process, generated, current, changes>>

\* Variant of ServiceID without idOnce: every build draws an ID.
ServiceIDEachTime ==
  IF conf.id # "" THEN <<conf.id>>
  ELSE IF conf.strategy = "random" THEN <<"uuid", process.uuids + 1>>
  ELSE <<"host", ResolvePort>>

\* serviceID: the configured one, or one that is generated once.
ServiceID ==
  IF conf.id # "" THEN <<conf.id>>
  ELSE IF generated # <<>> THEN generated
  ELSE IF conf.strategy = "random" THEN <<"uuid", process.uuids + 1>>
  ELSE <<"host", ResolvePort>>

\* register, second part: resolve, build and check the definition. A failure
\* ends the attempt; the registrar makes another.
Prepare ==
  /\ attempt.step = "detected"
  /\ LET def == [id |-> ServiceID, address |-> ResolveAddress(conf, network)]
     IN  IF def.address = NotFound
         THEN /\ attempt' = Idle
              /\ UNCHANGED <<generated, process>>
         ELSE /\ generated' = IF conf.id = "" THEN def.id ELSE <<>>
              /\ process' = [process EXCEPT !.uuids =
                               IF conf.id = "" /\ def.id[1] = "uuid" THEN def.id[2] ELSE @]
              /\ attempt' = IF CheckFeatures(def)
                            THEN [step |-> "sending", def |-> def] ELSE Idle
  /\ UNCHANGED <<conf, worldVars, services, cached, current, changes>>

\* The agent's services with the definition, which replaces one of its ID.
Registered(def) ==
  [id \in DOMAIN services \union {def.id} |->
     IF id = def.id THEN [address |-> def.address, by |-> process.incarnation]
     ELSE services[id]]

InFlight == attempt.step = "sending" /\ agent.up /\ AgentAccepts(attempt.def)

\* The agent takes the definition or refuses it, and the answer arrives.
Send ==
  /\ attempt.step = "sending"
  /\ agent.up
  /\ IF InFlight
     THEN /\ services' = Registered(attempt.def)
          /\ current' = [id |-> attempt.def.id, registered |-> TRUE]
     ELSE UNCHANGED <<services, current>>
  /\ attempt' = Idle
  /\ UNCHANGED <<conf, worldVars, process, generated, cached, changes>>

\* The request fails before it is processed.
SendFails ==
  /\ attempt.step = "sending"
  /\ ~agent.up
  /\ attempt' = Idle
  /\ UNCHANGED <<conf, worldVars, services, process, generated, cached, current, changes>>

\* watchRegistration's 404: the agent has lost the service.
LossNoticed ==
  /\ process.running /\ current.registered
  /\ agent.up
  /\ current.id \notin DOMAIN services
  /\ current' = [current EXCEPT !.registered = FALSE]
  /\ UNCHANGED <<conf, worldVars, services, process, generated, cached, attempt, changes>>

\* Stop: the service is deregistered under the ID it was registered with. With
\* an agent that is down it stays behind.
Stop ==
  /\ process.running /\ attempt = Idle
  /\ process' = [process EXCEPT !.running = FALSE]
  /\ IF agent.up
     THEN /\ services' = Restrict(services, DOMAIN services \ {current.id})
          /\ current' = [current EXCEPT !.registered = FALSE]
     ELSE UNCHANGED <<services, current>>
  /\ UNCHANGED <<conf, worldVars, generated, cached, attempt, changes>>

-----------------------------------------------------------------------------
(***************************************************************************)
(* The world.                                                              *)
(***************************************************************************)

Change == changes < MaxChanges /\ changes' = changes + 1

\* The agent processes the request and its answer is lost.
AnswerLost ==
  /\ Change
  /\ InFlight
  /\ services' = Registered(attempt.def)
  /\ attempt' = Idle
  /\ UNCHANGED <<conf, worldVars, process, generated, cached, current>>

\* A crash forgets everything, also that a request was on its way: the agent
\* may still process it. The process is started again.
Restart ==
  /\ Change
  /\ services' \in {services} \union (IF InFlight THEN {Registered(attempt.def)} ELSE {})
  /\ process' = [process EXCEPT !.incarnation = @ + 1, !.running = TRUE]
  /\ generated' = <<>>
  /\ cached' = Unknown
  /\ current' = None
  /\ attempt' = Idle
  /\ UNCHANGED <<conf, worldVars>>

NetworkChanges ==
  /\ Change
  /\ network' \in [variable: {"", "127.0.0.1", "10.0.0.2"}, route: {NotFound, "127.0.0.1", "10.0.0.1"},
                   interfaces: Interfaces]
  /\ UNCHANGED <<conf, agent, services, clientVars>>

\* The agent is replaced by one of another version, with or without its state,
\* its policies change, or it stops.
AgentChanges ==
  /\ Change
  /\ agent' \in [version: HostVersions, readable: BOOLEAN, up: BOOLEAN]
  /\ services' \in {services, <<>>}
  /\ UNCHANGED <<conf, network, clientVars>>

-----------------------------------------------------------------------------

RegistrarStep == Detect \/ Prepare \/ Send \/ SendFails \/ LossNoticed

WorldStep == AnswerLost \/ Restart \/ NetworkChanges \/ AgentChanges

Next == RegistrarStep \/ Stop \/ WorldStep

-----------------------------------------------------------------------------
(***************************************************************************)
(* Properties.                                                             *)
(***************************************************************************)

\* The configured ID, or those that can be generated.
IDs == IF conf.id # "" THEN {<<conf.id>>} ELSE {"host", "uuid"} \X (Nat \ {0})

\* Type correctness of every variable, within the named bounds.
TypeOK ==
  /\ conf \in ConfigType
  /\ DOMAIN network = {"variable", "route", "interfaces"}
  /\ agent \in [version: HostVersions, readable: BOOLEAN, up: BOOLEAN]
  /\ DOMAIN services \subseteq IDs
  /\ process \in [incarnation: 1..(MaxChanges + 1), uuids: 0..(MaxChanges + 1),
                  running: BOOLEAN]
  /\ generated \in IDs \union {<<>>}
  /\ cached \in HostVersions \union {Unknown}
  /\ current \in [id: IDs \union {<<>>}, registered: BOOLEAN]
  /\ attempt.step \in {"idle", "detected", "sending"}
  /\ changes \in 0..MaxChanges

\* A process never has two instances in the agent, whatever was lost, retried
\* or resolved differently in between; with an ID that does not depend on the
\* process (configured, or host name and a configured port) a restarted process
\* takes its old place instead of leaving an orphan beside the new instance.
OneInstance ==
  \A i, j \in DOMAIN services :
    (\/ services[i].by = services[j].by
     \/ conf.id # ""
     \/ conf.strategy = "hostname-port" /\ conf.fixedPort) => i = j

\* The world as it is lets the service be registered.
Registrable ==
  LET address == ResolveAddress(conf, network)
  IN  /\ process.running
      /\ agent.up /\ agent.readable
      /\ address # NotFound
      /\ AgentAccepts([address |-> address])

\* The service is registered, and the Client knows it.
Served == current.registered /\ current.id \in DOMAIN services

=============================================================================
