-------------------------- MODULE MCDiscoveryWatch --------------------------
(***************************************************************************)
(* Small instances of DiscoveryWatch for TLC.                              *)
(***************************************************************************)
EXTENDS DiscoveryWatch

CONSTANTS k1, k2, v1, v2
=============================================================================
