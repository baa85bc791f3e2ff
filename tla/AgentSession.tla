---------------------------- MODULE AgentSession ----------------------------
(***************************************************************************)
(* Discovery against the fake agent: queries are derived from each other,  *)
(* and two of them are then repeated by clients that pace themselves with  *)
(* one Limiter and block at the agent, beside a client that registers the  *)
(* service, waits for the agent to lose it and registers it again.         *)
(*                                                                         *)
(* Building queries and asking them meet only in what is asked, which does *)
(* not change when an agent answers: the queries are built first.          *)
(***************************************************************************)
EXTENDS Pacing, Queries, FakeConsul

CONSTANTS
  Registrar, \* the client that registers; the others are the Callers
  Asks       \* what each caller asks for: health or kv

VARIABLES
  asking,  \* the queries are built
  known    \* the index of a caller's last answer; the registrar's hash, or Lost

ASSUME SessionAssumption ==
  /\ Asks \in [Callers -> {"health", "kv"}]
  /\ Clients = Callers \union {Registrar} /\ Registrar \notin Callers

vars == <<asking, known, pacingVars, queryVars, agentVars>>

Lost == "lost"  \* the registrar has to register

Init ==
  /\ asking = FALSE
  /\ known = [c \in Clients |-> IF c \in Callers THEN 0 ELSE Lost]
  /\ PacingInit
  /\ QueriesInit
  /\ AgentInit

Build == ~asking /\ QueriesNext /\ UNCHANGED <<asking, known, pacingVars, agentVars>>

\* The queries are asked from now on, and how they were built no longer matters.
Use ==
  /\ ~asking
  /\ asking' = TRUE
  /\ queries' = [n \in Names |-> Service]
  /\ arrays' = <<>> /\ maps' = <<>> /\ calls' = 0
  /\ asked' = [n \in Names |-> Everything]
  /\ UNCHANGED <<known, pacingVars, agentVars>>

Asking == asking /\ UNCHANGED <<asking, queryVars>>

\* A caller that the limiter lets through asks, and goes on from the index of
\* the answer, or from nothing after a failure.
CallerStep(c) ==
  \/ requests[c] = NoRequest /\ Wait(c) /\ UNCHANGED <<known, agentVars>>
  \/ /\ LetThrough(c)
     /\ Arrive(c, [Nothing EXCEPT !.kind = Asks[c], !.want = known[c]])
     /\ UNCHANGED known
  \/ /\ Hear(c)
     /\ known' = [known EXCEPT ![c] = requests[c].index]
     /\ UNCHANGED pacingVars

\* The registrar registers, then watches its service until it is lost.
RegistrarStep(c) ==
  /\ \/ /\ \E id \in ServiceIDs, def \in Definitions :
             \/ /\ known[c] = Lost
                /\ Arrive(c, [Nothing EXCEPT !.kind = "register", !.id = id, !.def = def])
             \/ /\ known[c] # Lost
                /\ \/ Arrive(c, [Nothing EXCEPT !.kind = "service", !.id = id, !.hash = known[c]])
                   \/ \E kind \in {"ttl", "maintain", "resume", "deregister"} :
                        Arrive(c, [Nothing EXCEPT !.kind = kind, !.id = id])
        /\ UNCHANGED known
     \/ /\ Hear(c)
        /\ known' = [known EXCEPT ![c] =
             CASE requests[c].ask.kind = "register" /\ requests[c].status # "ok" -> Lost
               [] requests[c].ask.kind = "deregister" /\ requests[c].status # "failed" -> Lost
               [] requests[c].ask.kind = "service" /\ requests[c].status = "unknown" -> Lost
               [] OTHER -> requests[c].hash]
  /\ UNCHANGED pacingVars

\* A request that is not answered in time, or whose caller has closed its watch.
Leave(c) ==
  /\ requests[c].step \in {"arrived", "parked"}
  /\ Done(c)
  /\ known' = [known EXCEPT ![c] = IF c \in Callers THEN 0 ELSE IF @ = Lost THEN Lost ELSE NoHash]
  /\ UNCHANGED pacingVars

Next ==
  \/ Build \/ Use
  \/ /\ Asking
     /\ \/ \E c \in Callers : CallerStep(c)
        \/ RegistrarStep(Registrar)
        \/ \E c \in Clients : Leave(c)
        \/ \E c \in Clients : Serve(c) /\ UNCHANGED <<known, pacingVars>>
        \/ TestStep /\ UNCHANGED <<known, pacingVars>>
        \/ \E c \in Callers : GivesUp(c) /\ UNCHANGED <<known, agentVars>>
        \/ Tick /\ UNCHANGED <<known, agentVars>>

Spec == Init /\ [][Next]_vars

-----------------------------------------------------------------------------
(***************************************************************************)
(* Properties: NobodyWaitsInVain of FakeConsul, Paced of Pacing and        *)
(* AskedAsBuilt of Queries.                                                *)
(***************************************************************************)

\* Type correctness of every variable.
TypeOK ==
  /\ PacingTypeOK /\ QueriesTypeOK /\ AgentTypeOK
  /\ asking \in BOOLEAN
  /\ \A c \in Callers : known[c] \in 0..(MaxWrites + 1)
  /\ known[Registrar] \in Definitions \union {NoHash, Lost}

=============================================================================
