----------------------------- MODULE MCMigration -----------------------------
(* Instances of Migration for TLC: the databases an older build may leave. *)
EXTENDS Migration, TLC

CONSTANTS i1, i2, origin, hsts, csp, none, fresh, noted, v1, v2, v3, v4, e, t

Saw(facts, suspected) == [origin |-> origin, facts |-> facts, suspected |-> suspected]

(* Two saw the same gap, one suspects it beside another, one saw nothing.  *)
MCObserved ==
    v1 :> Saw({hsts}, {}) @@ v2 :> Saw({hsts}, {})
        @@ v3 :> Saw({csp}, {hsts}) @@ v4 :> Saw({}, {})

Rows(review, notes, count, print, links, decisions) ==
    [findings |-> Findings, review |-> review, noted |-> notes, count |-> count,
     print |-> print,
     rel |-> [links |-> links, decisions |-> decisions,
              events |-> {<<f, f>> : f \in Findings}, refs |-> Findings \X {t}]]

Plain == Rows([f \in Findings |-> fresh], [f \in Findings |-> FALSE],
              [f \in Findings |-> 1], [f \in Findings |-> <<f>>], Findings \X {v1}, {})

Database(v, sound, run, rows) ==
    [version |-> v, layers |-> 1 .. v \cap 1 .. 4, sound |-> sound, rows |-> rows,
     run |-> IF v >= 3 THEN run ELSE "none",
     mission |-> IF v >= 4 THEN run ELSE "none"]

(* Every version, sound or not, with a run a crash left where it was.      *)
AnyVersion ==
    {Database(v, s, "none", Plain) : v \in 0 .. Latest + 1, s \in BOOLEAN}
    \cup {Database(v, TRUE, r, Plain) : v \in 3 .. 4, r \in {"executing", "completed"}}
    \cup {[Database(0, s, "none", Plain) EXCEPT !.layers = {1}] : s \in BOOLEAN}

(* Two findings of the template, whatever was reviewed and linked.         *)
AnyReview ==
    {Database(4, TRUE, "none", Rows(r, n, c, [f \in Findings |-> <<f>>], l \cup m, d)) :
        r \in {[f \in Findings |-> fresh], 1 :> fresh @@ 2 :> noted},
        n \in [Findings -> BOOLEAN], c \in [Findings -> {1, 2}],
        l \in SUBSET ({1} \X {v1, v3, v4}), m \in SUBSET ({2} \X {v1, v2, v3}),
        d \in SUBSET (Findings \X {e})}

MCReleased == AnyVersion \cup AnyReview

(* Bound: the many reviews are upgraded by one instance without faults,    *)
(* the versions by every instance with all of them.                        *)
OneCalmInstance ==
    original.rows # Plain => faults = 0 /\ crashes = 0 /\ at[i2] = "off"
=============================================================================
