------------------------------- MODULE MCDesk -------------------------------
(* Instances of Report for TLC.                                            *)
EXTENDS Report

CONSTANTS f1, e1, e2, k1
=============================================================================
