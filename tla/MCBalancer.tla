----------------------------- MODULE MCBalancer -----------------------------
(***************************************************************************)
(* Small instances of Balancer for TLC.                                    *)
(***************************************************************************)
EXTENDS Balancer

CONSTANTS payments, i1, i2, c1, c2, closer

\* With an idle timeout services come and go, whatever their lists are; without
\* one, a single watch lives as long as the balancer and its entry gathers the
\* state of the grace period or of the ejections.
IdleOnly     == [idle |-> TRUE, grace |-> 0, eject |-> 0, catalog |-> {}]
GraceOnly    == [idle |-> FALSE, grace |-> 1, eject |-> 0, catalog |-> {i1}]
EjectionOnly == [idle |-> FALSE, grace |-> 0, eject |-> 1, catalog |-> {i1, i2}]

AllOptions   == {IdleOnly, GraceOnly, EjectionOnly}
IdleOptions  == {IdleOnly}
GraceOptions == {GraceOnly}
=============================================================================
