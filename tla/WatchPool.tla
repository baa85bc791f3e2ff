------------------------------ MODULE WatchPool ------------------------------
(***************************************************************************)
(* What a balancer promises about the watches it runs for its callers: a   *)
(* service has at most one at a time, a watch that callers are given runs  *)
(* until it is released or the pool is shut, a released watch never comes  *)
(* back, a shut pool starts none, and it is only over when all have ended. *)
(* Balancer implements it.                                                 *)
(***************************************************************************)
CONSTANTS
  Services,
  Watches,
  NoWatch   \* the pool has no watch for the service

VARIABLES
  pool,     \* the watch that callers of each service are given
  started,  \* the watches started so far
  running,  \* the watches that run
  shut,     \* nothing is started any more
  over      \* a Close has returned

poolVars == <<pool, started, running, shut, over>>

PoolInit ==
  /\ pool = [s \in Services |-> NoWatch]
  /\ started = {}
  /\ running = {}
  /\ shut = FALSE
  /\ over = FALSE

\* A caller finds no watch and starts one.
StartWatch(s, w) ==
  /\ ~shut
  /\ pool[s] = NoWatch
  /\ w \notin started
  /\ pool' = [pool EXCEPT ![s] = w]
  /\ started' = started \union {w}
  /\ running' = running \union {w}
  /\ UNCHANGED <<shut, over>>

\* Watches that are idle are released; callers are not given them any more.
Release(ws) ==
  /\ pool' = [s \in Services |-> IF pool[s] \in ws THEN NoWatch ELSE pool[s]]
  /\ UNCHANGED <<started, running, shut, over>>

\* A watch ends after its release, or because the pool is shut.
EndWatch(w) ==
  /\ w \in running
  /\ shut \/ \A s \in Services : pool[s] # w
  /\ running' = running \ {w}
  /\ UNCHANGED <<pool, started, shut, over>>

Shut ==
  /\ ~shut
  /\ shut' = TRUE
  /\ UNCHANGED <<pool, started, running, over>>

\* Close returns.
Finish ==
  /\ shut
  /\ running = {}
  /\ over' = TRUE
  /\ UNCHANGED <<pool, started, running, shut>>

PoolNext ==
  \/ \E s \in Services, w \in Watches : StartWatch(s, w)
  \/ \E ws \in SUBSET Watches : Release(ws)
  \/ \E w \in Watches : EndWatch(w)
  \/ Shut \/ Finish

PoolSpec == PoolInit /\ [][PoolNext]_poolVars

=============================================================================
