-------------------------- MODULE MCHealthReporting --------------------------
(***************************************************************************)
(* Model checking of HealthReporting: components that are UP or DOWN.      *)
(***************************************************************************)
EXTENDS HealthReporting

UpOrDown == {Up, Down}

=============================================================================
