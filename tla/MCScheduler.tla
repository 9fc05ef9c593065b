----------------------------- MODULE MCScheduler -----------------------------
(* Model values of Scheduler for TLC.                                      *)
EXTENDS Scheduler, TLC

CONSTANTS c1, c2, c3

TwoCores == {c1, c2}
ThreeCores == {c1, c2, c3}

(* 99 stands for a reset value that is neither 0 nor a pid.                *)
NonZeroReset == {99}
AnyReset == {0, 99}
ZeroReset == {0}

CoreSymmetry == Permutations(Cores)
=============================================================================
