--------------------------- MODULE MCClientRuntime ---------------------------
(***************************************************************************)
(* Small instances of ClientRuntime for TLC.                               *)
(***************************************************************************)
EXTENDS ClientRuntime

CONSTANTS r1, s1, p1, p2, u1

\* The default LifecycleConfig, with an HTTP check.
Default ==
  [autoRegister |-> TRUE, failFast |-> FALSE, deregister |-> TRUE,
   limited |-> FALSE, ttl |-> FALSE]

\* Every variant that takes another path through the code.
FailFast      == [Default EXCEPT !.failFast = TRUE, !.limited = TRUE]
Limited       == [Default EXCEPT !.limited = TRUE]
TTLCheck      == [Default EXCEPT !.ttl = TRUE]
NoDeregister  == [Default EXCEPT !.deregister = FALSE]
Manual        == [Default EXCEPT !.autoRegister = FALSE]

AllConfigs     == {Default, FailFast, Limited, TTLCheck, NoDeregister, Manual}
DefaultConfigs == {Default}
=============================================================================
