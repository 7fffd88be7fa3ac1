------------------------------ MODULE Findings ------------------------------
(***************************************************************************)
(* Findings and the evidence for them: evidence/service.rs, the verifier's *)
(* commit_verification_outcome (assessment/outcome.rs), the store of the   *)
(* rule worker, and the transaction that saves an AI analysis.             *)
(*                                                                         *)
(* Four actors write: the user's synchronous commands on the main thread,  *)
(* one at a time; the runner of an assessment; the rule worker; and the    *)
(* asynchronous analyze_traffic.  Every operation is one transaction,      *)
(* except delete_finding, which reads the status before it deletes.        *)
(* Several triggers of the database guard the same rows a second time; a   *)
(* trigger that refuses undoes the whole transaction.                      *)
(***************************************************************************)
CONSTANTS FindingIds,   \* bound: rows of findings, ids are never used again
          EvidenceIds,  \* bound: rows of evidence
          Checks,       \* bound: assessment checks that may be verified
          RuleKeys,     \* fingerprints of passive rules
          VerifierKeys, \* fingerprints of safe verifiers
          NoFinding, NoCheck, NoKey

ASSUME NoFindingAssumption == NoFinding \notin FindingIds
ASSUME NoCheckAssumption == NoCheck \notin Checks
ASSUME NoKeyAssumption == NoKey \notin RuleKeys \cup VerifierKeys

(* A verifier's fingerprint is taken over "safe_verifier:" and a template  *)
(* or over an identity of its own, a rule's over the id of a packed rule.  *)
ASSUME KeysAssumption == RuleKeys \cap VerifierKeys = {}

VARIABLES
    project,    \* open or deleted
    traffic,    \* the captured exchange that is analysed: kept or cleared
    status, producer, key,          \* findings
    reviewed,   \* findings with an event other than `created`
    planned,    \* findings some task node refers to (task_findings)
    eFinding,   \* finding_evidence: the finding an evidence row was made for
    eCheck,     \* its verification (acceptance_kind), by check; NoCheck: human
    eGood,      \* qualifies_for_confirmation, fixed at insertion
    eAccepted,
    verdict,    \* assessment_verifications, by check
    vFinding, relation,             \* assessment_finding_links, by check
    doomed      \* the finding delete_finding has read and not yet deleted

finding == <<status, producer, key, reviewed, planned>>
evidence == <<eFinding, eCheck, eGood, eAccepted>>
verification == <<verdict, vFinding, relation>>
vars == <<project, traffic, finding, evidence, verification, doomed>>

Keys == RuleKeys \cup VerifierKeys

Present == {"pending", "confirmed", "rejected"}

Init ==
    /\ project = "open" /\ traffic = "kept"
    /\ status = [f \in FindingIds |-> "absent"]
    /\ producer = [f \in FindingIds |-> "none"]
    /\ key = [f \in FindingIds |-> NoKey]
    /\ reviewed = {} /\ planned = {}
    /\ eFinding = [e \in EvidenceIds |-> NoFinding]
    /\ eCheck = [e \in EvidenceIds |-> NoCheck]
    /\ eGood = [e \in EvidenceIds |-> FALSE]
    /\ eAccepted = [e \in EvidenceIds |-> FALSE]
    /\ verdict = [c \in Checks |-> "none"]
    /\ vFinding = [c \in Checks |-> NoFinding]
    /\ relation = [c \in Checks |-> "none"]
    /\ doomed = NoFinding

-----------------------------------------------------------------------------
(* Queries *)

Exists(f) == f \in FindingIds /\ status[f] \in Present

Absent == {f \in FindingIds : status[f] = "absent"}

(* The rows of finding_evidence; they go with their finding.               *)
EvidenceOf(f) == {e \in EvidenceIds : eFinding[e] = f}

(* The evidence the confirmation of f may rest on.                         *)
Support(f) == {e \in EvidenceOf(f) : eAccepted[e] /\ eGood[e]}

HasKey(k) == {f \in FindingIds : Exists(f) /\ key[f] = k}

Verifications(f) == {c \in Checks : vFinding[c] = f}

-----------------------------------------------------------------------------
(* The user, on the main thread *)

UserFree == project = "open" /\ doomed = NoFinding

(* create_finding_evidence: a snapshot of traffic, of an analysis or of a  *)
(* Repeater run; only a real response qualifies.                           *)
AddEvidence(f, e) ==
    /\ UserFree
    /\ Exists(f)
    /\ eFinding[e] = NoFinding
    /\ eFinding' = [eFinding EXCEPT ![e] = f]
    /\ \E good \in BOOLEAN : eGood' = [eGood EXCEPT ![e] = good]
    /\ UNCHANGED <<project, traffic, finding, eCheck, eAccepted, verification, doomed>>

(* Mutant: the user may accept what a verifier only suspected.             *)
AcceptableAnyway(e) == TRUE

(* trg_finding_evidence_verifier_authority_update.                         *)
Acceptable(e) == eCheck[e] # NoCheck => verdict[eCheck[e]] = "confirmed" /\ eGood[e]

AcceptEvidence(e) ==
    /\ UserFree
    /\ Exists(eFinding[e])
    /\ ~eAccepted[e]
    /\ Acceptable(e)
    /\ eAccepted' = [eAccepted EXCEPT ![e] = TRUE]
    /\ reviewed' = reviewed \cup {eFinding[e]}
    /\ UNCHANGED <<project, traffic, status, producer, key, planned, eFinding, eCheck, eGood,
                   verification, doomed>>

(* Mutant: evidence that does not qualify counts as support, too.          *)
RevocableByCount(e) ==
    status[eFinding[e]] = "confirmed" /\ eGood[e] =>
        \E d \in EvidenceOf(eFinding[e]) \ {e} : eAccepted[d]

(* The last support of a confirmed finding cannot be revoked.              *)
Revocable(e) ==
    status[eFinding[e]] = "confirmed" /\ eGood[e] => Support(eFinding[e]) \ {e} # {}

RevokeEvidence(e) ==
    /\ UserFree
    /\ Exists(eFinding[e])
    /\ eAccepted[e]
    /\ Revocable(e)
    /\ eAccepted' = [eAccepted EXCEPT ![e] = FALSE]
    /\ reviewed' = reviewed \cup {eFinding[e]}
    /\ UNCHANGED <<project, traffic, status, producer, key, planned, eFinding, eCheck, eGood,
                   verification, doomed>>

UpdateStatus(f) ==
    /\ UserFree
    /\ Exists(f)
    /\ \E s \in Present \ {status[f]} :
          /\ s = "confirmed" => Support(f) # {}
          /\ status' = [status EXCEPT ![f] = s]
    /\ reviewed' = reviewed \cup {f}
    /\ UNCHANGED <<project, traffic, producer, key, planned, evidence, verification, doomed>>

(* A new severity or new notes.                                            *)
UpdateReview(f) ==
    /\ UserFree
    /\ Exists(f)
    /\ reviewed' = reviewed \cup {f}
    /\ UNCHANGED <<project, traffic, status, producer, key, planned, evidence, verification,
                   doomed>>

(* Applying a proposal of the task tree replaces the findings of a node.   *)
PlanFindings ==
    /\ UserFree
    /\ \E linked \in SUBSET {f \in FindingIds : status[f] \in {"pending", "confirmed"}},
          unlinked \in SUBSET planned :
             planned' = (planned \ unlinked) \cup linked
    /\ UNCHANGED <<project, traffic, status, producer, key, reviewed, evidence, verification,
                   doomed>>

(* delete_finding reads the status ...                                     *)
DeleteFinding(f) ==
    /\ UserFree
    /\ Exists(f)
    /\ status[f] # "confirmed"
    /\ doomed' = f
    /\ UNCHANGED <<project, traffic, finding, evidence, verification>>

(* Mutant: the links to verifications are deleted with the finding.        *)
DeletableLinked(f) == TRUE

(* The cascade from findings to assessment_finding_links meets the         *)
(* immutable-delete trigger while the verification is there.               *)
Deletable(f) == Verifications(f) = {}

(* ... and deletes without looking at it again.                            *)
DeleteCommit ==
    /\ project = "open" /\ doomed # NoFinding
    /\ IF Deletable(doomed) /\ Exists(doomed)
       THEN /\ status' = [status EXCEPT ![doomed] = "deleted"]
            /\ planned' = planned \ {doomed}
       ELSE UNCHANGED <<status, planned>>
    /\ doomed' = NoFinding
    /\ UNCHANGED <<project, traffic, producer, key, reviewed, evidence, verification>>

(* traffic_id of the findings becomes NULL; snapshots stay.                *)
ClearTraffic ==
    /\ UserFree
    /\ traffic = "kept"
    /\ traffic' = "cleared"
    /\ UNCHANGED <<project, finding, evidence, verification, doomed>>

(* The cascade reaches the verifications before the evidence that refers   *)
(* to them, and that reference is ON DELETE RESTRICT.                      *)
Cascades == \A e \in EvidenceIds : eCheck[e] = NoCheck

DeleteProject ==
    /\ UserFree
    /\ Cascades
    /\ project' = "deleted" /\ traffic' = "cleared"
    /\ status' = [f \in FindingIds |-> IF Exists(f) THEN "deleted" ELSE status[f]]
    /\ planned' = {}
    /\ vFinding' = [c \in Checks |-> NoFinding]
    /\ UNCHANGED <<producer, key, reviewed, evidence, verdict, relation, doomed>>

User ==
    \/ \E e \in EvidenceIds : \/ AcceptEvidence(e) \/ RevokeEvidence(e)
                              \/ \E f \in FindingIds : AddEvidence(f, e)
    \/ \E f \in FindingIds : UpdateStatus(f) \/ UpdateReview(f) \/ DeleteFinding(f)
    \/ PlanFindings \/ DeleteCommit \/ ClearTraffic \/ DeleteProject

-----------------------------------------------------------------------------
(* The rule worker and the AI analysis *)

(* The hits whose fingerprint no finding has.                              *)
Unknown(hits) == {k \in hits : HasKey(k) = {}}

(* The worker's store of one evaluation: a new pending finding for every   *)
(* new fingerprint; for a known one only counters move, never the status.  *)
StoreHits ==
    /\ project = "open" /\ traffic = "kept"
    /\ \E hits \in SUBSET RuleKeys :
       \E of \in [Absent -> Unknown(hits) \cup {NoKey}] :
          /\ \A k \in Unknown(hits) : \E f \in Absent :
                of[f] = k /\ \A g \in Absent : of[g] = k => g = f
          /\ LET new == {f \in Absent : of[f] # NoKey}
             IN /\ status' = [f \in FindingIds |-> IF f \in new THEN "pending" ELSE status[f]]
                /\ producer' = [f \in FindingIds |-> IF f \in new THEN "passive_rule"
                                                     ELSE producer[f]]
                /\ key' = [f \in FindingIds |-> IF f \in new THEN of[f] ELSE key[f]]
    /\ UNCHANGED <<project, traffic, reviewed, planned, evidence, verification, doomed>>

(* Mutant: a finding the user has given evidence or a place in the plan is *)
(* kept, one with notes or another severity only is not.                   *)
ReplaceableReviewed ==
    {f \in FindingIds : /\ producer[f] = "ai" /\ status[f] = "pending"
                        /\ f \notin planned
                        /\ EvidenceOf(f) = {}}

(* delete_replaceable_ai_findings: hypotheses nobody has worked on.        *)
Replaceable ==
    {f \in FindingIds : /\ producer[f] = "ai" /\ status[f] = "pending"
                        /\ f \notin reviewed \cup planned
                        /\ EvidenceOf(f) = {}}

(* A valid answer replaces the open hypotheses of the exchange by new ones *)
(* in one transaction; the provider call before it leaves no state behind. *)
SaveAnalysis ==
    /\ project = "open" /\ traffic = "kept"
    /\ \E new \in SUBSET Absent :
          /\ status' = [f \in FindingIds |-> IF f \in Replaceable THEN "deleted"
                                             ELSE IF f \in new THEN "pending"
                                             ELSE status[f]]
          /\ producer' = [f \in FindingIds |-> IF f \in new THEN "ai" ELSE producer[f]]
    /\ UNCHANGED <<project, traffic, key, reviewed, planned, evidence, verification, doomed>>

-----------------------------------------------------------------------------
(* The verifier *)

(* A verification without finding: not observed, inconclusive, skipped.    *)
CommitClear(c) ==
    /\ project = "open" /\ verdict[c] = "none"
    /\ verdict' = [verdict EXCEPT ![c] = "clear"]
    /\ UNCHANGED <<project, traffic, finding, evidence, vFinding, relation, doomed>>

(* The finding of fingerprint k: found, or created pending.                *)
FindOrCreate(f, k) ==
    \/ f \in HasKey(k) /\ UNCHANGED <<producer, key>>
    \/ /\ HasKey(k) = {} /\ f \in Absent
       /\ producer' = [producer EXCEPT ![f] = "safe_verifier"]
       /\ key' = [key EXCEPT ![f] = k]

Link(c, f) == vFinding' = [vFinding EXCEPT ![c] = f]

(* A human who rejected the finding is not overruled.                      *)
HumanConflict(f) == status[f] = "rejected"

(* A suspicion without replay: finding and link, no evidence.              *)
CommitSuspicion(c) ==
    /\ project = "open" /\ verdict[c] = "none"
    /\ verdict' = [verdict EXCEPT ![c] = "suspected"]
    /\ \E f \in FindingIds, k \in VerifierKeys :
          /\ FindOrCreate(f, k)
          /\ Link(c, f)
          /\ relation' = [relation EXCEPT ![c] = IF HumanConflict(f) THEN "human_conflict"
                                                 ELSE "supports"]
          /\ status' = [status EXCEPT ![f] = IF Exists(f) THEN @ ELSE "pending"]
    /\ UNCHANGED <<project, traffic, reviewed, planned, evidence, doomed>>

Confirms(v, f) == v = "confirmed" /\ ~HumanConflict(f)

(* A verdict with a replay: the evidence is attached, and accepted when it *)
(* confirms.  A trigger refuses to accept evidence that does not qualify;  *)
(* a confirmed verdict without evidence is an error.                       *)
CommitVerdict(c, e) ==
    /\ project = "open" /\ verdict[c] = "none" /\ eFinding[e] = NoFinding
    /\ \E v \in {"confirmed", "suspected"}, f \in FindingIds, k \in VerifierKeys,
          good \in BOOLEAN :
          /\ Confirms(v, f) => good
          /\ FindOrCreate(f, k)
          /\ verdict' = [verdict EXCEPT ![c] = v]
          /\ Link(c, f)
          /\ relation' = [relation EXCEPT ![c] = IF HumanConflict(f) THEN "human_conflict"
                                                 ELSE "supports"]
          /\ eFinding' = [eFinding EXCEPT ![e] = f]
          /\ eCheck' = [eCheck EXCEPT ![e] = c]
          /\ eGood' = [eGood EXCEPT ![e] = good]
          /\ eAccepted' = [eAccepted EXCEPT ![e] = Confirms(v, f)]
          /\ status' = [status EXCEPT ![f] = IF Confirms(v, f) THEN "confirmed"
                                             ELSE IF Exists(f) THEN @ ELSE "pending"]
          /\ reviewed' = IF Confirms(v, f) THEN reviewed \cup {f} ELSE reviewed
    /\ UNCHANGED <<project, traffic, planned, doomed>>

Verifier ==
    \E c \in Checks : \/ CommitClear(c) \/ CommitSuspicion(c)
                      \/ \E e \in EvidenceIds : CommitVerdict(c, e)

-----------------------------------------------------------------------------

Next == User \/ StoreHits \/ SaveAnalysis \/ Verifier

Spec == Init /\ [][Next]_vars

-----------------------------------------------------------------------------
(* Properties *)

ColumnType ==
    /\ project \in {"open", "deleted"}
    /\ traffic \in {"kept", "cleared"}
    /\ status \in [FindingIds -> Present \cup {"absent", "deleted"}]
    /\ producer \in [FindingIds -> {"none", "ai", "passive_rule", "safe_verifier"}]
    /\ key \in [FindingIds -> Keys \cup {NoKey}]
    /\ reviewed \subseteq FindingIds
    /\ planned \subseteq FindingIds
    /\ eFinding \in [EvidenceIds -> FindingIds \cup {NoFinding}]
    /\ eCheck \in [EvidenceIds -> Checks \cup {NoCheck}]
    /\ eGood \in [EvidenceIds -> BOOLEAN]
    /\ eAccepted \in [EvidenceIds -> BOOLEAN]
    /\ verdict \in [Checks -> {"none", "clear", "suspected", "confirmed"}]
    /\ vFinding \in [Checks -> FindingIds \cup {NoFinding}]
    /\ relation \in [Checks -> {"none", "supports", "human_conflict"}]
    /\ doomed \in FindingIds \cup {NoFinding}

(* Evidence of a verifier names a verification that is linked to the same  *)
(* finding (trg_finding_evidence_verifier_authority_insert).               *)
References ==
    /\ \A e \in EvidenceIds : eCheck[e] # NoCheck => vFinding[eCheck[e]] = eFinding[e]
    /\ \A e \in EvidenceIds : eFinding[e] # NoFinding => status[eFinding[e]] # "absent"
    /\ \A c \in Checks : vFinding[c] # NoFinding => Exists(vFinding[c])

(* Every column has its type and every reference its row, whoever inserted *)
(* or deleted what in which order.                                         *)
TypeOK == ColumnType /\ References

(* A finding is confirmed only on accepted evidence of a real response,    *)
(* through every order of accepting, revoking, confirming, verifying and   *)
(* reopening (update_finding_status, set_finding_evidence_accepted).       *)
ConfirmedIsSupported ==
    \A f \in FindingIds : status[f] = "confirmed" => Support(f) # {}

(* Accepted evidence of a verifier stands for a confirmed verdict on a     *)
(* complete response, whoever accepted it (docs/architecture/data-model.md,*)
(* Finding, Verification and Evidence).                                    *)
VerifierAuthority ==
    \A e \in EvidenceIds : eCheck[e] # NoCheck /\ eAccepted[e] =>
        verdict[eCheck[e]] = "confirmed" /\ eGood[e]

(* One fingerprint, one finding: a known problem met again by the worker   *)
(* or a verifier does not come back beside the row the user has judged     *)
(* (docs/architecture/rule-pack-v1.md).                                    *)
OneFindingPerFingerprint ==
    \A f, g \in FindingIds :
        Exists(f) /\ Exists(g) /\ key[f] = key[g] /\ key[f] # NoKey => f = g

(* What a person has judged or worked on only a person changes: no rule    *)
(* hit, analysis or verdict reopens a rejected finding, unconfirms a       *)
(* confirmed one or removes one that was reviewed.                         *)
MachineRespectsReview ==
    [][\A f \in FindingIds :
         \/ status'[f] = status[f]
         \/ status[f] = "absent"
         \/ status[f] = "pending" /\ (f \in reviewed => status'[f] # "deleted")
         \/ User]_vars

(* A confirmed finding, and one a verification is linked to, is deleted    *)
(* only with its project, also when the verdict arrives between the read   *)
(* and the delete of delete_finding.                                       *)
AuditedIsKept ==
    [][\A f \in FindingIds :
         status[f] = "confirmed" \/ Verifications(f) # {} =>
             status'[f] # "deleted" \/ project' = "deleted"]_vars
=============================================================================
