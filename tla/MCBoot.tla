------------------------------- MODULE MCBoot -------------------------------
(* Model values of Boot for TLC.                                           *)
EXTENDS Boot

CONSTANTS k0, k1, k2, k3

FourCores == {k0, k1, k2, k3}
=============================================================================
