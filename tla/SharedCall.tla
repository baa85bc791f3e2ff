----------------------------- MODULE SharedCall -----------------------------
(***************************************************************************)
(* What callers that share one execution of a Checker are promised: one    *)
(* execution at a time, an answer found while the caller was asking, and a *)
(* report that is never better than that answer.  Without an answer the    *)
(* report is the worst status.  HealthReporting implements it.             *)
(***************************************************************************)
EXTENDS Integers

CONSTANTS
  Callers,
  Statuses,  \* by severity
  Worst      \* what is reported without an answer

VARIABLES
  running,   \* the Checker is running
  asking,    \* where each caller is: "away", "waiting", "answered" or "reported"
  status     \* what it has been answered, or has reported

sharedCallVars == <<running, asking, status>>

SharedCallInit ==
  /\ running = FALSE
  /\ asking = [p \in Callers |-> "away"]
  /\ status = [p \in Callers |-> Worst]

Moves(p, step, s) ==
  /\ asking' = [asking EXCEPT ![p] = step]
  /\ status' = [status EXCEPT ![p] = s]

\* A caller joins the execution that is running, or starts one.
Ask(p) ==
  /\ asking[p] = "away"
  /\ Moves(p, "waiting", Worst)
  /\ running' = TRUE

\* The Checker answers everybody who is waiting, and runs no more.
Answer(s) ==
  /\ running
  /\ running' = FALSE
  /\ asking' = [p \in Callers |-> IF asking[p] = "waiting" THEN "answered" ELSE asking[p]]
  /\ status' = [p \in Callers |-> IF asking[p] = "waiting" THEN s ELSE status[p]]

\* A caller reports; what else it knows can only make the report worse.
Report(p, s) ==
  /\ \/ asking[p] = "answered" /\ s >= status[p]
     \/ asking[p] = "waiting" /\ s = Worst
  /\ Moves(p, "reported", s)
  /\ UNCHANGED running

Leave(p) ==
  /\ asking[p] = "reported"
  /\ Moves(p, "away", Worst)
  /\ UNCHANGED running

SharedCallNext ==
  \/ \E s \in Statuses : Answer(s)
  \/ \E p \in Callers :
       \/ Ask(p) \/ Leave(p)
       \/ \E s \in Statuses : Report(p, s)

SharedCallSpec == SharedCallInit /\ [][SharedCallNext]_sharedCallVars

=============================================================================
