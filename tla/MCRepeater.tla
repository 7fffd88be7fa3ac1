----------------------------- MODULE MCRepeater -----------------------------
(* Instances of Repeater for TLC.                                          *)
EXTENDS Repeater, TLC

CONSTANTS q1, q2, s1, s2, hidden, recipe

Symmetry == Permutations(Requests) \cup Permutations(Manual)
=============================================================================
