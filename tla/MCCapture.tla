------------------------------ MODULE MCCapture ------------------------------
(* Instances of Capture for TLC.                                           *)
EXTENDS Capture

CONSTANTS p1, p2, x1, x2
=============================================================================
