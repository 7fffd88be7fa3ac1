----------------------------- MODULE MCMission -----------------------------
(* Instances of Mission for TLC.                                           *)
EXTENDS MissionRefinement, TLC

CONSTANTS m1, m2, r1, r2, c1, c2, probe, recipe

(* The user asks for everything, or disables the manual recipe.            *)
AskAll == [t \in Tools |-> "ask"]
NoRecipe == [t \in Tools |-> IF t \in ManualTools THEN "disabled" ELSE "ask"]

OneProfile == {AskAll}
TwoProfiles == {AskAll, NoRecipe}

Symmetry == Permutations(Missions) \cup Permutations(Runs) \cup Permutations(Callers)
=============================================================================
