--------------------------- MODULE RuntimeContract ---------------------------
(***************************************************************************)
(* What the lifecycle of a consulx.Client promises to the application and  *)
(* to goleak: it opens once, each goroutine is launched at most once and   *)
(* only while it is open, and it closes only after every one of them has   *)
(* returned; nothing reopens it.  ClientRuntime implements this contract.  *)
(***************************************************************************)
CONSTANT Goroutines   \* the runtime goroutines a Client can launch

VARIABLES
  phase,     \* "idle", "open", "ending" or "closed"
  launched,  \* goroutines launched so far
  alive      \* goroutines that have not returned

contractVars == <<phase, launched, alive>>

ContractInit ==
  /\ phase = "idle"
  /\ launched = {}
  /\ alive = {}

\* Start leaves Idle.
Open ==
  /\ phase = "idle"
  /\ phase' = "open"
  /\ UNCHANGED <<launched, alive>>

\* Start launches a goroutine, once.
Launch(g) ==
  /\ phase = "open"
  /\ g \notin launched
  /\ launched' = launched \union {g}
  /\ alive' = alive \union {g}
  /\ UNCHANGED phase

\* A goroutine returns: it gave up, or the runtime is ending.
ReturnOf(g) ==
  /\ g \in alive
  /\ alive' = alive \ {g}
  /\ UNCHANGED <<phase, launched>>

\* Stop, or a failed Start, cancels the runtime context.
EndRuntime ==
  /\ phase = "open"
  /\ phase' = "ending"
  /\ UNCHANGED <<launched, alive>>

\* Done is closed.
Close ==
  /\ phase = "ending"
  /\ alive = {}
  /\ phase' = "closed"
  /\ UNCHANGED <<launched, alive>>

ContractNext ==
  \/ Open \/ EndRuntime \/ Close
  \/ \E g \in Goroutines : Launch(g) \/ ReturnOf(g)

ContractSpec == ContractInit /\ [][ContractNext]_contractVars

=============================================================================
