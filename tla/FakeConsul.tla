----------------------------- MODULE FakeConsul -----------------------------
(***************************************************************************)
(* The fake agent that the tests of the repository run against: requests   *)
(* that block until something has changed, and the failures that a test    *)
(* injects while they do.  Each locked section of a handler is a step.     *)
(*                                                                         *)
(* What health queries and KV reads answer with is left out, but for       *)
(* whether a KV prefix holds a key, and so are the agent's description of  *)
(* itself and the records kept for assertions.                             *)
(***************************************************************************)
EXTENDS Naturals, Functions

CONSTANTS
  Clients,      \* each makes one request at a time
  ServiceIDs,   \* IDs of the agent's own services
  Definitions,  \* what is registered for them
  MaxWrites,    \* bound on the writes of the test
  MaxFaults     \* bound on the failures it injects

ASSUME AgentAssumption == MaxWrites \in Nat /\ MaxFaults \in Nat

VARIABLES
  services,    \* Agent.services
  maintained,  \* the IDs in Agent.maintenance
  hasKeys,     \* Agent.kv holds a key
  index,       \* Agent.index
  failing,     \* Agent.failAll # 0
  breaking,    \* SetFailing is about to close the connections
  hanging,     \* Agent.hang: nil or which channel it is
  failNext,    \* Agent.failNext
  requests,    \* what the server is doing for each client
  faults

agentVars == <<services, maintained, hasKeys, index, failing, breaking, hanging,
               failNext, requests, faults>>

NoHang  == 0
NoHash  == "nohash"
NoID    == "noid"

\* What a client asks for: the index or the hash that it knows.
Nothing == [kind |-> "none", id |-> NoID, def |-> NoHash, want |-> 0, hash |-> NoHash]

\* The failures in force when a request came, whether the channel it holds is
\* closed, and the headers of its answer.
NoRequest ==
  [step |-> "none", ask |-> Nothing, fail |-> FALSE, hang |-> NoHang,
   changed |-> FALSE, status |-> "none", index |-> 0, hash |-> NoHash]

AgentInit ==
  /\ services = <<>>
  /\ maintained = {}
  /\ hasKeys = FALSE
  /\ index = 1
  /\ failing = FALSE /\ breaking = FALSE
  /\ hanging = NoHang
  /\ failNext = 0
  /\ requests = [c \in Clients |-> NoRequest]
  /\ faults = 0

-----------------------------------------------------------------------------
(***************************************************************************)
(* Requests.                                                               *)
(***************************************************************************)

Continue(c, request) == requests' = [requests EXCEPT ![c] = request]

Answered(c, status) ==
  [NoRequest EXCEPT !.step = "answered", !.ask.kind = requests[c].ask.kind,
                    !.status = status]

Answer(c, status) == Continue(c, Answered(c, status))

\* An answer with the index, or with the hash.
AnswerAt(c, status) == Continue(c, [Answered(c, status) EXCEPT !.index = index])
AnswerAs(c, hash)   == Continue(c, [Answered(c, "ok") EXCEPT !.hash = hash])

\* notifyLocked: the channel is closed that the parked requests hold.
Woken(request) == IF request.step = "parked" THEN [request EXCEPT !.changed = TRUE] ELSE request

Notify == [c \in Clients |-> Woken(requests[c])]

Data == <<services, maintained, hasKeys, index>>
Rest == <<Data, failNext>>
Injected == <<failing, breaking, hanging, faults>>

\* serve: the failures in force when the request arrives.
Arrive(c, ask) ==
  /\ requests[c] = NoRequest
  /\ Continue(c, [NoRequest EXCEPT !.step = "arrived", !.ask = ask,
                                   !.fail = failing, !.hang = hanging])
  /\ UNCHANGED <<Rest, Injected>>

\* The select on the hang channel, then the dispatch.
Dispatch(c) ==
  /\ requests[c].step = "arrived"
  /\ requests[c].hang = NoHang \/ requests[c].hang # hanging
  /\ IF requests[c].fail THEN Answer(c, "failed")
     ELSE Continue(c, [requests[c] EXCEPT !.step = "serving", !.hang = NoHang])
  /\ UNCHANGED <<Rest, Injected>>

Serving(c, kind) == requests[c].step = "serving" /\ requests[c].ask.kind = kind

\* Variant of FailRegister that does not look whether a failure is left.
FailAnyRegister(c) ==
  /\ Serving(c, "register")
  /\ failNext' = failNext - 1
  /\ Answer(c, "failed")
  /\ UNCHANGED <<Data, Injected>>

\* register, first locked section: an injected failure.
FailRegister(c) ==
  /\ Serving(c, "register")
  /\ failNext > 0
  /\ failNext' = failNext - 1
  /\ Answer(c, "failed")
  /\ UNCHANGED <<Data, Injected>>

\* ... or none is left, and the body is decoded without the lock.
DecodeRegister(c) ==
  /\ Serving(c, "register")
  /\ failNext = 0
  /\ Continue(c, [requests[c] EXCEPT !.step = "decoded"])
  /\ UNCHANGED <<Rest, Injected>>

\* register, second locked section: a definition replaces the one of its ID.
Register(c) ==
  /\ requests[c].step = "decoded"
  /\ LET ask == requests[c].ask
     IN  services' = [id \in DOMAIN services \union {ask.id} |->
                        IF id = ask.id THEN ask.def ELSE services[id]]
  /\ requests' = [Notify EXCEPT ![c] = Answered(c, "ok")]
  /\ UNCHANGED <<maintained, hasKeys, index, failNext, Injected>>

Known(c) == requests[c].ask.id \in DOMAIN services

Deregister(c) ==
  /\ Serving(c, "deregister")
  /\ IF Known(c)
     THEN /\ services' = Restrict(services, DOMAIN services \ {requests[c].ask.id})
          /\ requests' = [Notify EXCEPT ![c] = Answered(c, "ok")]
     ELSE Answer(c, "unknown") /\ UNCHANGED services
  /\ UNCHANGED <<maintained, hasKeys, index, failNext, Injected>>

\* setMaintenance: the mark outlives the service.
SetMaintenance(c) ==
  /\ Serving(c, "maintain") \/ Serving(c, "resume")
  /\ maintained' = IF ~Known(c) THEN maintained
                   ELSE IF Serving(c, "maintain") THEN maintained \union {requests[c].ask.id}
                   ELSE maintained \ {requests[c].ask.id}
  /\ Answer(c, IF Known(c) THEN "ok" ELSE "unknown")
  /\ UNCHANGED <<services, hasKeys, index, failNext, Injected>>

\* updateTTL, but for the record of the update.
UpdateTTL(c) ==
  /\ Serving(c, "ttl")
  /\ Answer(c, IF Known(c) THEN "ok" ELSE "unknown")
  /\ UNCHANGED <<Rest, Injected>>

(***************************************************************************)
(* Blocking requests: a round reads the state and the channel that         *)
(* announces the next one in one locked section.                           *)
(***************************************************************************)

Park(c) == Continue(c, [requests[c] EXCEPT !.step = "parked"])

\* Whether a request has to wait: nothing is newer than the client knows.
NothingNew(ask) ==
  IF ask.kind = "service"
  THEN ask.id \in DOMAIN services /\ services[ask.id] = ask.hash
  ELSE ask.want # 0 /\ index <= ask.want

\* getService: by the hash of the definition.
GetService(c) ==
  /\ Serving(c, "service")
  /\ IF NothingNew(requests[c].ask) THEN Park(c)
     ELSE IF Known(c) THEN AnswerAs(c, services[requests[c].ask.id])
     ELSE Answer(c, "unknown")
  /\ UNCHANGED <<Rest, Injected>>

\* Variant of HealthService that takes the channel in a second locked section.
HealthServiceTwice(c) ==
  /\ \/ requests[c].step = "looked" /\ Park(c)
     \/ /\ Serving(c, "health")
        /\ IF NothingNew(requests[c].ask) THEN Continue(c, [requests[c] EXCEPT !.step = "looked"])
           ELSE AnswerAt(c, "ok")
  /\ UNCHANGED <<Rest, Injected>>

\* healthService: by the index.
HealthService(c) ==
  /\ Serving(c, "health")
  /\ IF NothingNew(requests[c].ask) THEN Park(c) ELSE AnswerAt(c, "ok")
  /\ UNCHANGED <<Rest, Injected>>

\* kvRead: by the index; a prefix without keys is a 404 that has an index.
KVRead(c) ==
  /\ Serving(c, "kv")
  /\ IF NothingNew(requests[c].ask) THEN Park(c)
     ELSE AnswerAt(c, IF hasKeys THEN "ok" ELSE "unknown")
  /\ UNCHANGED <<Rest, Injected>>

\* The channel was closed: another round.
Wake(c) ==
  /\ requests[c].step = "parked"
  /\ requests[c].changed
  /\ Continue(c, [requests[c] EXCEPT !.step = "serving", !.changed = FALSE])
  /\ UNCHANGED <<Rest, Injected>>

\* The wait time is over: a round that answers with the current state.
Deadline(c) ==
  /\ requests[c].step = "parked"
  /\ Continue(c, [requests[c] EXCEPT !.step = "serving", !.changed = FALSE,
                                     !.ask.want = 0, !.ask.hash = NoHash])
  /\ UNCHANGED <<Rest, Injected>>

Serve(c) ==
  \/ Dispatch(c)
  \/ FailRegister(c) \/ DecodeRegister(c) \/ Register(c)
  \/ Deregister(c) \/ SetMaintenance(c) \/ UpdateTTL(c)
  \/ GetService(c) \/ HealthService(c) \/ KVRead(c)
  \/ Wake(c) \/ Deadline(c)

\* The client has its answer, or leaves without one.
Done(c) ==
  /\ Continue(c, NoRequest)
  /\ UNCHANGED <<Rest, Injected>>

Hear(c) == requests[c].step = "answered" /\ Done(c)

-----------------------------------------------------------------------------
(***************************************************************************)
(* What a test does meanwhile.                                             *)
(***************************************************************************)

Write ==
  /\ index <= MaxWrites
  /\ index' = index + 1
  /\ requests' = Notify
  /\ UNCHANGED <<services, maintained, failNext, Injected>>

\* SetHealth or an unrelated write.
BumpIndex == Write /\ UNCHANGED hasKeys

PutKV == Write /\ hasKeys' = TRUE

\* DeleteKV, of a key that is not there or of the last one, or of another.
DeleteKV == Write /\ hasKeys' \in {FALSE, hasKeys}

\* A new fault, one of a bounded number.
Fault == faults < MaxFaults /\ faults' = faults + 1

\* Forget: the agent restarts without state.
Forget ==
  /\ Fault
  /\ services' = <<>>
  /\ requests' = Notify
  /\ UNCHANGED <<maintained, hasKeys, index, failNext, failing, breaking, hanging>>

FailNextRegisters ==
  /\ Fault
  /\ failNext' = 1
  /\ UNCHANGED <<Data, failing, breaking, hanging, requests>>

\* SetFailing with a status, first the flag and then the connections.
StartFailing ==
  /\ Fault
  /\ ~failing
  /\ failing' = TRUE /\ breaking' = TRUE
  /\ UNCHANGED <<Rest, hanging, requests>>

\* Some answers are lost on their way. A handler that runs
\* meanwhile has finished, or not begun.
BreakConnections ==
  /\ breaking
  /\ breaking' = FALSE
  /\ \E lost \in SUBSET Clients :
       requests' = [c \in Clients |->
         IF requests[c].step = "none" \/ (requests[c].step = "answered" /\ c \notin lost)
         THEN requests[c] ELSE Answered(c, "failed")]
  /\ UNCHANGED <<Rest, failing, hanging, faults>>

\* SetFailing(0)
StopFailing ==
  /\ failing /\ ~breaking
  /\ failing' = FALSE
  /\ UNCHANGED <<Rest, breaking, hanging, requests, faults>>

\* SetHanging
StartHanging ==
  /\ Fault
  /\ hanging = NoHang
  /\ hanging' = faults'
  /\ UNCHANGED <<Rest, failing, breaking, requests>>

StopHanging ==
  /\ hanging # NoHang
  /\ hanging' = NoHang
  /\ UNCHANGED <<Rest, failing, breaking, requests, faults>>

TestStep ==
  \/ BumpIndex \/ PutKV \/ DeleteKV
  \/ Forget \/ FailNextRegisters
  \/ StartFailing \/ BreakConnections \/ StopFailing
  \/ StartHanging \/ StopHanging

-----------------------------------------------------------------------------
(***************************************************************************)
(* Properties.                                                             *)
(***************************************************************************)

Indexes == 0..(MaxWrites + 1)
Hashes  == Definitions \union {NoHash}

Kinds ==
  {"none", "register", "deregister", "maintain", "resume", "ttl", "service", "health", "kv"}

Questions ==
  [kind: Kinds, id: ServiceIDs \union {NoID}, def: Hashes, want: Indexes, hash: Hashes]

Requests ==
  [step: {"none", "arrived", "serving", "decoded", "parked", "answered"},
   ask: Questions, fail: BOOLEAN, hang: 0..MaxFaults, changed: BOOLEAN,
   status: {"none", "ok", "failed", "unknown"}, index: Indexes, hash: Hashes]

\* Type correctness of every variable, within the named bounds.
AgentTypeOK ==
  /\ DOMAIN services \subseteq ServiceIDs /\ Range(services) \subseteq Definitions
  /\ maintained \subseteq ServiceIDs
  /\ hasKeys \in BOOLEAN
  /\ index \in 1..(MaxWrites + 1)
  /\ failing \in BOOLEAN /\ breaking \in BOOLEAN
  /\ hanging \in 0..MaxFaults
  /\ failNext \in 0..1
  /\ requests \in [Clients -> Requests]
  /\ faults \in 0..MaxFaults

\* A request that waits, and that no pending notification will wake, has a
\* reason to: the agent holds nothing newer than its client knows. And once
\* SetFailing has returned, no request from before waits any more.
NobodyWaitsInVain ==
  \A c \in Clients : requests[c].step = "parked" =>
    /\ ~requests[c].changed => NothingNew(requests[c].ask)
    /\ ~(failing /\ ~breaking)

=============================================================================
