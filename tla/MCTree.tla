------------------------------- MODULE MCTree -------------------------------
(* Instances of Tree for TLC.                                              *)
EXTENDS Tree

CONSTANTS a, b, m, f1

Entry(k, p, P, F, x) == [key |-> k, parent |-> p, prereqs |-> P, cites |-> F, text |-> x]

(* A chain, the chain turned over, a node that depends on a later one, and *)
(* the other way round, with a citation.                                   *)
SomeOutputs ==
    {<<Entry(a, Root, {}, {}, "old"), Entry(b, a, {}, {}, "old")>>,
     <<Entry(b, Root, {}, {}, "new"), Entry(a, b, {}, {}, "old")>>,
     <<Entry(a, Root, {b}, {}, "old"), Entry(b, Root, {}, {}, "old")>>,
     <<Entry(b, Root, {a}, {}, "old"), Entry(a, Root, {}, {f1}, "new")>>}

Edit(x, L, P) == [text |-> x, locks |-> L, prereqs |-> P]

(* Two fields are locked, one with the value it has, one with a new one.   *)
SomeEdits == {Edit("old", {"parent", "prereqs"}, {b})}
=============================================================================
