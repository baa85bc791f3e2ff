--------------------------- MODULE MCAgentSession ---------------------------
(***************************************************************************)
(* Model checking of AgentSession: two queries, of which any is derived    *)
(* from any; then two callers that share a limiter, one for health and one *)
(* for keys, and one service.                                              *)
(***************************************************************************)
EXTENDS AgentSession

CONSTANTS w1, w2

TestClients == Callers \union {Registrar}

TestAsks == [c \in Callers |-> IF c = w1 THEN "health" ELSE "kv"]

=============================================================================
