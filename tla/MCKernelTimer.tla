---------------------------- MODULE MCKernelTimer ----------------------------
(* Model values of KernelTimer for TLC.                                    *)
EXTENDS KernelTimer

CONSTANTS h1, h2

TwoHids == {h1, h2}
=============================================================================
