---------------------------- MODULE MCConfigWatch ----------------------------
(***************************************************************************)
(* Model checking of ConfigWatch: a shared folder that is filled when the  *)
(* watch starts, and the application's own folder, which is empty.         *)
(***************************************************************************)
EXTENDS ConfigWatch

CONSTANTS good, bad, garbled

OneGood    == {good}
OneBad     == {bad}
OneGarbled == {garbled}
TwoFolders == [f \in 1..2 |-> IF f = 1 THEN good ELSE NoKeys]
OwnFolder  == {2}
NoFolder   == {}
NoContents == {}

=============================================================================
