---------------------------- MODULE BaselineMerge ----------------------------
(***************************************************************************)
(* What schema v5 does to the findings of the response-baseline template   *)
(* (storage/migrations.rs): rows that only repeat one gap of one origin    *)
(* become one row, unless a human decision or an audit record would be     *)
(* lost.  The identity of a verification is its project, exact origin and  *)
(* observed gaps; a verification that observed none has no identity.       *)
(***************************************************************************)
EXTENDS Integers, FiniteSets, FiniteSetsExt

CONSTANTS Findings,       \* ids of findings
          Verifications,  \* ids of verifications of this template
          Observed,       \* of each: its origin, facts and suspected facts (kinds)
          NoIdentity,
          MaxOccurrences  \* bound: the largest i64

ASSUME FindingsAssumption == Findings \subseteq Nat /\ IsFiniteSet(Findings)

(* Facts and suspicions are kept apart: a hint is not a confirmed gap.     *)
IdentityOf(v) ==
    LET o == Observed[v]
    IN IF o.facts \cup o.suspected = {} THEN NoIdentity
       ELSE <<o.origin, o.facts, o.suspected>>

(* The rows: findings is the set of ids, print the fingerprints, and each  *)
(* relation table a set of pairs whose first member is the finding.        *)
Relations == {"links", "decisions", "events", "refs"}

Of(rel, f) == {row[2] : row \in {r \in rel : r[1] = f}}

(* A finding without a link does not appear in the joined rows.            *)
Variants(d, f) == {IdentityOf(v) : v \in Of(d.rel["links"], f)}

Migratable(d, f) == NoIdentity \notin Variants(d, f) /\ Cardinality(Variants(d, f)) = 1

Group(d, x) == {f \in d.findings : Migratable(d, f) /\ Variants(d, f) = {x}}

(* Mutant: the notes a human wrote are not looked at.                      *)
SameState(d, G) == \A f, h \in G : d.review[f] = d.review[h]

SameReview(d, G) ==
    \A f, h \in G : /\ d.review[f] = d.review[h]
                    /\ f # h => ~d.noted[f]

SharedAuditLinks(d, G) ==
    \E f, h \in G : /\ f # h
                    /\ \/ Of(d.rel["decisions"], f) \cap Of(d.rel["decisions"], h) # {}
                       \/ Of(d.rel["links"], f) \cap Of(d.rel["links"], h) # {}

Mergeable(d, x) ==
    LET G == Group(d, x)
    IN G # {} /\ SameReview(d, G) /\ (Cardinality(G) > 1 => ~SharedAuditLinks(d, G))

(* The row that a finding becomes: the oldest of its group.                *)
Canonical(d, f) ==
    IF Migratable(d, f) /\ \E x \in Variants(d, f) : Mergeable(d, x)
    THEN Min({h \in d.findings : Migratable(d, h) /\ Variants(d, h) = Variants(d, f)})
    ELSE f

Absorbed(d, f) == {h \in d.findings : Canonical(d, h) = f}

Occurrences(d, f) == MapThenSumSet(LAMBDA h : d.count[h], Absorbed(d, f))

Promoted(d) ==
    LET kept == {Canonical(d, f) : f \in d.findings}
    IN [findings |-> kept,
        review |-> d.review,
        noted |-> d.noted,
        count |-> [f \in Findings |-> IF f \in kept THEN Occurrences(d, f) ELSE d.count[f]],
        print |-> [f \in Findings |->
                      IF \E x \in Variants(d, f) : Mergeable(d, x) /\ f \in Group(d, x)
                      THEN CHOOSE x \in Variants(d, f) : TRUE
                      ELSE d.print[f]],
        rel |-> [n \in Relations |-> {<<Canonical(d, r[1]), r[2]>> : r \in d.rel[n]}]]

(* i64 additions are checked and (project_id, fingerprint) is unique: else *)
(* the step fails as a whole.                                              *)
UniquePrints(d) == \A f, h \in d.findings : d.print[f] = d.print[h] => f = h

CanPromote(d) ==
    /\ \A f \in d.findings : Occurrences(d, f) <= MaxOccurrences
    /\ UniquePrints(Promoted(d))
=============================================================================
