--------------------------- MODULE FindingsProofs ---------------------------
(***************************************************************************)
(* Theorems about Findings for any number of findings, evidence rows,      *)
(* checks and fingerprints.  Types come first; the other invariants        *)
(* lean on each other (which finding a verdict is linked to decides what   *)
(* an analysis may delete, and that decides what evidence remains), so     *)
(* they are kept together in one inductive invariant, Sound.  The second   *)
(* part is about Report, whose writers keep Sound and two facts more while *)
(* its reader goes from query to query.  The third is about Analysis, for  *)
(* any number of analyses, providers, policies and answers.  The fourth is *)
(* about Rules: conditions nested in any way, on any exchange.             *)
(***************************************************************************)
EXTENDS Report, Analysis, Rules, FiniteSetTheorems, WellFoundedInduction, TLAPS

USE NoFindingAssumption, NoCheckAssumption, NoKeyAssumption

-----------------------------------------------------------------------------
(* Types of the columns *)

(* The empty database is well typed.                                       *)
LEMMA InitColumns == Init => ColumnType
BY DEF Init, ColumnType

(* What a command of the user writes.                                      *)
LEMMA UserColumns == ASSUME ColumnType, User PROVE ColumnType'
<1> USE DEF ColumnType, finding, evidence, verification, UserFree, Exists, Present
<1>1. ASSUME NEW e \in EvidenceIds, NEW f \in FindingIds, AddEvidence(f, e)
      PROVE  ColumnType'
  BY <1>1 DEF AddEvidence
<1>2. ASSUME NEW e \in EvidenceIds, AcceptEvidence(e) \/ RevokeEvidence(e)
      PROVE  ColumnType'
  BY <1>2 DEF AcceptEvidence, RevokeEvidence
<1>3. ASSUME NEW f \in FindingIds, UpdateStatus(f) \/ UpdateReview(f) \/ DeleteFinding(f)
      PROVE  ColumnType'
  BY <1>3 DEF UpdateStatus, UpdateReview, DeleteFinding
<1>4. CASE PlanFindings \/ ClearTraffic
  BY <1>4 DEF PlanFindings, ClearTraffic
<1>5. CASE DeleteCommit
  BY <1>5 DEF DeleteCommit
<1>6. CASE DeleteProject
  BY <1>6 DEF DeleteProject
<1> QED BY <1>1, <1>2, <1>3, <1>4, <1>5, <1>6 DEF User

(* What rule worker, analysis and verifier write.                          *)
LEMMA MachineColumns ==
    ASSUME ColumnType, StoreHits \/ SaveAnalysis \/ Verifier PROVE ColumnType'
<1> USE DEF ColumnType, finding, evidence, verification, Exists, Present, Absent
<1>1. CASE StoreHits
  <2>1. PICK hits \in SUBSET RuleKeys : StoreHits!2!(hits)
    BY <1>1 DEF StoreHits
  <2> QED BY <1>1, <2>1 DEF StoreHits, Unknown, Keys
<1>2. CASE SaveAnalysis
  BY <1>2 DEF SaveAnalysis
<1>3. ASSUME NEW c \in Checks, CommitClear(c) PROVE ColumnType'
  BY <1>3 DEF CommitClear
<1>4. ASSUME NEW c \in Checks, CommitSuspicion(c) PROVE ColumnType'
  BY <1>4 DEF CommitSuspicion, FindOrCreate, Link, HasKey, Keys
<1>5. ASSUME NEW c \in Checks, NEW e \in EvidenceIds, CommitVerdict(c, e) PROVE ColumnType'
  BY <1>5 DEF CommitVerdict, FindOrCreate, Link, HasKey, Keys, Confirms, HumanConflict
<1> QED BY <1>1, <1>2, <1>3, <1>4, <1>5 DEF Verifier

-----------------------------------------------------------------------------
(* The inductive invariant *)

(* Rows that do not exist yet hold nothing.                                *)
Blank ==
    /\ \A f \in FindingIds : status[f] = "absent" => key[f] = NoKey
    /\ \A e \in EvidenceIds : eFinding[e] = NoFinding => eCheck[e] = NoCheck /\ ~eAccepted[e]

(* Only a verdict links a finding, always one with a fingerprint; the      *)
(* hypotheses of an analysis have none.                                    *)
Traced ==
    /\ \A c \in Checks : verdict[c] = "none" => vFinding[c] = NoFinding
    /\ \A c \in Checks : vFinding[c] # NoFinding => key[vFinding[c]] # NoKey
    /\ \A f \in FindingIds : producer[f] = "ai" => key[f] = NoKey

(* A finding confirmed after delete_finding has read it was confirmed by a *)
(* verdict.                                                                *)
DoomedIsAudited ==
    doomed # NoFinding /\ status[doomed] = "confirmed" => Verifications(doomed) # {}

Sound ==
    /\ TypeOK
    /\ ConfirmedIsSupported
    /\ VerifierAuthority
    /\ OneFindingPerFingerprint
    /\ Blank
    /\ Traced
    /\ DoomedIsAudited

LEMMA InitSound == Init => Sound
<1> SUFFICES ASSUME Init PROVE Sound
  OBVIOUS
<1>1. TypeOK
  BY InitColumns DEF TypeOK, References, Init
<1>2. ConfirmedIsSupported /\ VerifierAuthority /\ OneFindingPerFingerprint
  BY DEF Init, ConfirmedIsSupported, VerifierAuthority, OneFindingPerFingerprint, Exists, Present
<1>3. Blank /\ Traced /\ DoomedIsAudited
  BY DEF Init, Blank, Traced, DoomedIsAudited
<1> QED BY <1>1, <1>2, <1>3 DEF Sound

-----------------------------------------------------------------------------
(* What the steps of the machine do to one finding *)

(* The worker's store touches only rows that do not exist, and gives each  *)
(* of them a fingerprint of its own that no finding had.                   *)
LEMMA StoreEffect ==
    ASSUME ColumnType, StoreHits
    PROVE  /\ \A f \in FindingIds :
                \/ /\ status'[f] = status[f]
                   /\ key'[f] = key[f]
                   /\ producer'[f] = producer[f]
                \/ /\ status[f] = "absent"
                   /\ status'[f] = "pending"
                   /\ producer'[f] = "passive_rule"
                   /\ key'[f] \in RuleKeys
                   /\ HasKey(key'[f]) = {}
           /\ \A f, g \in FindingIds :
                status[f] = "absent" /\ status[g] = "absent"
                  /\ status'[f] = "pending" /\ status'[g] = "pending" /\ key'[f] = key'[g]
                => f = g
<1> USE DEF ColumnType, Absent, Unknown
<1>1. PICK hits \in SUBSET RuleKeys : StoreHits!2!(hits)
  BY DEF StoreHits
<1>2. PICK of \in [Absent -> Unknown(hits) \cup {NoKey}] : StoreHits!2!(hits)!(of)
  BY <1>1
<1>3. \A f \in Absent : of[f] # NoKey => of[f] \in RuleKeys /\ HasKey(of[f]) = {}
  BY <1>2
<1>4. \A f, g \in Absent : of[f] # NoKey /\ of[f] = of[g] => f = g
  <2> SUFFICES ASSUME NEW f \in Absent, NEW g \in Absent, of[f] # NoKey, of[f] = of[g]
               PROVE  f = g
    OBVIOUS
  <2>1. of[f] \in Unknown(hits)
    BY <1>2
  <2>2. PICK h \in Absent : of[h] = of[f] /\ \A i \in Absent : of[i] = of[f] => i = h
    BY <1>2, <2>1
  <2> QED BY <2>2
<1> QED BY <1>2, <1>3, <1>4

(* A verdict with finding links its check to one finding with a            *)
(* fingerprint of the verifiers; it was there, or it is new and the only   *)
(* one of that fingerprint.  A rejected finding stays rejected.            *)
Recorded(c, f, k) ==
    /\ verdict[c] = "none"
    /\ verdict'[c] \in {"suspected", "confirmed"}
    /\ \A d \in Checks \ {c} : verdict'[d] = verdict[d]
    /\ vFinding' = [vFinding EXCEPT ![c] = f]
    /\ key'[f] = k
    /\ \A g \in FindingIds \ {f} :
         status'[g] = status[g] /\ key'[g] = key[g] /\ producer'[g] = producer[g]
    /\ \/ /\ f \in HasKey(k)
          /\ key'[f] = key[f] /\ producer'[f] = producer[f]
          /\ \/ status'[f] = status[f]
             \/ status'[f] = "confirmed" /\ status[f] # "rejected"
       \/ /\ HasKey(k) = {} /\ status[f] = "absent"
          /\ producer'[f] = "safe_verifier"
          /\ status'[f] \in {"pending", "confirmed"}

Records(c) == \E f \in FindingIds, k \in VerifierKeys : Recorded(c, f, k)

LEMMA SuspicionEffect ==
    ASSUME ColumnType, NEW c \in Checks, CommitSuspicion(c)
    PROVE  Records(c)
<1>1. PICK f \in FindingIds, k \in VerifierKeys : CommitSuspicion(c)!3!(f, k)
  BY DEF CommitSuspicion
<1>2. Recorded(c, f, k)
  BY <1>1 DEF CommitSuspicion, Recorded, ColumnType, FindOrCreate, Link, Absent, HasKey, Exists,
              Present
<1> QED BY <1>2 DEF Records

LEMMA VerdictEffect ==
    ASSUME ColumnType, NEW c \in Checks, NEW e \in EvidenceIds, CommitVerdict(c, e)
    PROVE  Records(c)
<1>1. PICK v \in {"confirmed", "suspected"}, f \in FindingIds, k \in VerifierKeys,
           good \in BOOLEAN : CommitVerdict(c, e)!2!(v, f, k, good)
  BY DEF CommitVerdict
<1>2. Recorded(c, f, k)
  BY <1>1 DEF CommitVerdict, Recorded, ColumnType, FindOrCreate, Link, Absent, HasKey, Exists,
              Present, Confirms, HumanConflict
<1> QED BY <1>2 DEF Records

(* The analysis deletes no finding a verification is linked to: hypotheses *)
(* have no fingerprint, linked findings have one.                          *)
LEMMA HypothesisIsUnlinked ==
    ASSUME Traced, NEW f \in FindingIds, producer[f] = "ai" PROVE Verifications(f) = {}
BY DEF Traced, Verifications

-----------------------------------------------------------------------------
(* Every part of the invariant is kept *)

LEMMA KeepsBlank == ASSUME Sound, Next PROVE Blank'
<1> USE DEF Sound, TypeOK, ColumnType, References, finding, evidence, verification
<1>1. CASE User
  <2>1. ASSUME NEW e \in EvidenceIds, NEW f \in FindingIds, AddEvidence(f, e)
        PROVE  Blank'
    BY <2>1 DEF AddEvidence, Blank
  <2>2. ASSUME NEW e \in EvidenceIds, AcceptEvidence(e) \/ RevokeEvidence(e)
        PROVE  Blank'
    BY <2>2 DEF AcceptEvidence, RevokeEvidence, Blank, Exists
  <2>3. ASSUME NEW f \in FindingIds, UpdateStatus(f) \/ UpdateReview(f) \/ DeleteFinding(f)
        PROVE  Blank'
    BY <2>3 DEF UpdateStatus, UpdateReview, DeleteFinding, Blank, Present
  <2>4. CASE PlanFindings \/ ClearTraffic
    BY <2>4 DEF PlanFindings, ClearTraffic, Blank
  <2>5. CASE DeleteCommit \/ DeleteProject
    BY <2>5 DEF DeleteCommit, DeleteProject, Blank
  <2> QED BY <1>1, <2>1, <2>2, <2>3, <2>4, <2>5 DEF User
<1>2. CASE StoreHits
  <2>1. UNCHANGED evidence
    BY <1>2 DEF StoreHits
  <2> QED BY <1>2, <2>1, StoreEffect DEF Blank
<1>3. CASE SaveAnalysis
  BY <1>3 DEF SaveAnalysis, Blank
<1>4. CASE Verifier
  <2>1. ASSUME NEW c \in Checks, CommitClear(c) PROVE Blank'
    BY <2>1 DEF CommitClear, Blank
  <2>2. ASSUME NEW c \in Checks, CommitSuspicion(c) PROVE Blank'
    <3>1. UNCHANGED evidence
      BY <2>2 DEF CommitSuspicion
    <3> QED BY <2>2, <3>1, SuspicionEffect DEF Records, Recorded, Blank
  <2>3. ASSUME NEW c \in Checks, NEW e \in EvidenceIds, CommitVerdict(c, e) PROVE Blank'
    <3>1. \A d \in EvidenceIds : eFinding'[d] = NoFinding =>
                eCheck'[d] = eCheck[d] /\ eAccepted'[d] = eAccepted[d]
                /\ eFinding[d] = NoFinding
      BY <2>3 DEF CommitVerdict
    <3> QED BY <2>3, <3>1, VerdictEffect DEF Records, Recorded, Blank
  <2> QED BY <1>4, <2>1, <2>2, <2>3 DEF Verifier
<1> QED BY <1>1, <1>2, <1>3, <1>4 DEF Next

LEMMA KeepsTraced == ASSUME Sound, Next PROVE Traced'
<1> USE DEF Sound, TypeOK, ColumnType, References, finding, evidence, verification
<1>1. CASE User
  <2>1. UNCHANGED <<key, producer, verdict>> /\ (vFinding' = vFinding
            \/ vFinding' = [c \in Checks |-> NoFinding])
    BY <1>1 DEF User, AddEvidence, AcceptEvidence, RevokeEvidence, UpdateStatus, UpdateReview,
                DeleteFinding, PlanFindings, DeleteCommit, ClearTraffic, DeleteProject
  <2> QED BY <2>1 DEF Traced
<1>2. CASE StoreHits
  <2>1. UNCHANGED verification
    BY <1>2 DEF StoreHits
  <2> QED BY <1>2, <2>1, StoreEffect DEF Traced, Exists, Present
<1>3. CASE SaveAnalysis
  BY <1>3 DEF SaveAnalysis, Traced, Blank, Absent
<1>4. CASE Verifier
  <2>1. ASSUME NEW c \in Checks, CommitClear(c) PROVE Traced'
    BY <2>1 DEF CommitClear, Traced
  <2>2. ASSUME NEW c \in Checks, Records(c) PROVE Traced'
    BY <2>2 DEF Records, Recorded, Traced, Exists, Present, HasKey, Keys
  <2> QED BY <1>4, <2>1, <2>2, SuspicionEffect, VerdictEffect DEF Verifier
<1> QED BY <1>1, <1>2, <1>3, <1>4 DEF Next

LEMMA KeepsReferences == ASSUME Sound, Next PROVE References'
<1> USE DEF Sound, TypeOK, ColumnType, References, finding, evidence, verification
<1>1. CASE User
  <2>1. ASSUME NEW e \in EvidenceIds, NEW f \in FindingIds, AddEvidence(f, e)
        PROVE  References'
    BY <2>1 DEF AddEvidence, Blank, Exists, Present
  <2>2. ASSUME NEW e \in EvidenceIds, AcceptEvidence(e) \/ RevokeEvidence(e)
        PROVE  References'
    BY <2>2 DEF AcceptEvidence, RevokeEvidence, Exists
  <2>3. ASSUME NEW f \in FindingIds, UpdateStatus(f) \/ UpdateReview(f) \/ DeleteFinding(f)
        PROVE  References'
    BY <2>3 DEF UpdateStatus, UpdateReview, DeleteFinding, Exists, Present
  <2>4. CASE PlanFindings \/ ClearTraffic
    BY <2>4 DEF PlanFindings, ClearTraffic, Exists
  <2>5. CASE DeleteCommit
    BY <2>5 DEF DeleteCommit, Deletable, Verifications, Exists
  <2>6. CASE DeleteProject
    BY <2>6 DEF DeleteProject, Cascades, Exists
  <2> QED BY <1>1, <2>1, <2>2, <2>3, <2>4, <2>5, <2>6 DEF User
<1>2. CASE StoreHits
  <2>1. UNCHANGED <<evidence, verification>>
    BY <1>2 DEF StoreHits
  <2> QED BY <1>2, <2>1, StoreEffect DEF Exists, Present
<1>3. CASE SaveAnalysis
  <2>1. UNCHANGED <<evidence, verification>>
    BY <1>3 DEF SaveAnalysis
  <2>2. \A f \in FindingIds : Exists(f) => Exists(f)' \/ producer[f] = "ai"
    BY <1>3 DEF SaveAnalysis, Exists, Present, Replaceable
  <2>3. \A f \in FindingIds : status'[f] = "absent" => status[f] = "absent"
    BY <1>3 DEF SaveAnalysis
  <2> QED BY <2>1, <2>2, <2>3, HypothesisIsUnlinked DEF Verifications, Exists
<1>4. CASE Verifier
  <2>1. ASSUME NEW c \in Checks, CommitClear(c) PROVE References'
    BY <2>1 DEF CommitClear, Exists
  <2>2. ASSUME NEW c \in Checks, Records(c)
        PROVE  /\ (\A d \in Checks : vFinding[d] # NoFinding => Exists(vFinding[d]))'
               /\ \A f \in FindingIds : status'[f] = "absent" => status[f] = "absent"
               /\ \A e \in EvidenceIds : eCheck[e] # c
               /\ \A d \in Checks \ {c} : vFinding'[d] = vFinding[d]
    BY <2>2 DEF Records, Recorded, Exists, Present, HasKey, Traced, Blank
  <2>3. ASSUME NEW c \in Checks, CommitSuspicion(c) PROVE References'
    <3>1. UNCHANGED evidence
      BY <2>3 DEF CommitSuspicion
    <3>2. Records(c)
      BY <2>3, SuspicionEffect
    <3> QED BY <2>2, <3>1, <3>2
  <2>4. ASSUME NEW c \in Checks, NEW e \in EvidenceIds, CommitVerdict(c, e) PROVE References'
    <3>1. PICK v \in {"confirmed", "suspected"}, f \in FindingIds, k \in VerifierKeys,
               good \in BOOLEAN : CommitVerdict(c, e)!2!(v, f, k, good)
      BY <2>4 DEF CommitVerdict
    <3>2. status'[f] # "absent"
      BY <3>1 DEF Exists, Present
    <3>3. (\A d \in EvidenceIds : eCheck[d] # NoCheck => vFinding[eCheck[d]] = eFinding[d])'
      BY <2>2, <2>4, <3>1, VerdictEffect DEF Link
    <3>4. (\A d \in EvidenceIds : eFinding[d] # NoFinding => status[eFinding[d]] # "absent")'
      BY <2>2, <2>4, <3>1, <3>2, VerdictEffect
    <3> QED BY <2>2, <2>4, <3>3, <3>4, VerdictEffect
  <2> QED BY <1>4, <2>1, <2>3, <2>4 DEF Verifier
<1> QED BY <1>1, <1>2, <1>3, <1>4 DEF Next

LEMMA KeepsSupport == ASSUME Sound, Next PROVE ConfirmedIsSupported'
<1> USE DEF Sound, TypeOK, ColumnType, finding, evidence, verification, Support, EvidenceOf
<1>1. CASE User
  <2>1. ASSUME NEW e \in EvidenceIds, NEW f \in FindingIds, AddEvidence(f, e)
        PROVE  ConfirmedIsSupported'
    <3>1. \A g \in FindingIds : Support(g) \subseteq Support(g)'
      BY <2>1 DEF AddEvidence
    <3> QED BY <2>1, <3>1 DEF AddEvidence, ConfirmedIsSupported
  <2>2. ASSUME NEW e \in EvidenceIds, AcceptEvidence(e) PROVE ConfirmedIsSupported'
    <3>1. \A g \in FindingIds : Support(g) \subseteq Support(g)'
      BY <2>2 DEF AcceptEvidence
    <3> QED BY <2>2, <3>1 DEF AcceptEvidence, ConfirmedIsSupported
  <2>3. ASSUME NEW e \in EvidenceIds, RevokeEvidence(e) PROVE ConfirmedIsSupported'
    <3>1. \A g \in FindingIds : Support(g)' = Support(g) \ {e}
      BY <2>3 DEF RevokeEvidence
    <3>2. ASSUME NEW g \in FindingIds, status[g] = "confirmed" PROVE Support(g) \ {e} # {}
      <4>1. CASE eFinding[e] = g /\ eGood[e]
        BY <2>3, <3>2, <4>1 DEF RevokeEvidence, Revocable
      <4>2. CASE ~(eFinding[e] = g /\ eGood[e])
        BY <3>2, <4>2 DEF ConfirmedIsSupported
      <4> QED BY <4>1, <4>2
    <3> QED BY <2>3, <3>1, <3>2 DEF RevokeEvidence, ConfirmedIsSupported
  <2>4. ASSUME NEW f \in FindingIds, UpdateStatus(f) PROVE ConfirmedIsSupported'
    BY <2>4 DEF UpdateStatus, ConfirmedIsSupported, Present
  <2>5. ASSUME NEW f \in FindingIds, UpdateReview(f) \/ DeleteFinding(f)
        PROVE  ConfirmedIsSupported'
    BY <2>5 DEF UpdateReview, DeleteFinding, ConfirmedIsSupported
  <2>6. CASE PlanFindings \/ ClearTraffic
    BY <2>6 DEF PlanFindings, ClearTraffic, ConfirmedIsSupported
  <2>7. CASE DeleteCommit
    BY <2>7 DEF DeleteCommit, ConfirmedIsSupported
  <2>8. CASE DeleteProject
    BY <2>8 DEF DeleteProject, ConfirmedIsSupported, Exists, Present
  <2> QED BY <1>1, <2>1, <2>2, <2>3, <2>4, <2>5, <2>6, <2>7, <2>8 DEF User
<1>2. CASE StoreHits
  <2>1. UNCHANGED evidence
    BY <1>2 DEF StoreHits
  <2>2. \A f \in FindingIds : status'[f] = "confirmed" => status[f] = "confirmed"
    BY <1>2, StoreEffect
  <2> QED BY <2>1, <2>2 DEF ConfirmedIsSupported
<1>3. CASE SaveAnalysis
  BY <1>3 DEF SaveAnalysis, ConfirmedIsSupported
<1>4. CASE Verifier
  <2>1. ASSUME NEW c \in Checks, CommitClear(c) PROVE ConfirmedIsSupported'
    BY <2>1 DEF CommitClear, ConfirmedIsSupported
  <2>2. ASSUME NEW c \in Checks, CommitSuspicion(c) PROVE ConfirmedIsSupported'
    BY <2>2 DEF CommitSuspicion, ConfirmedIsSupported
  <2>3. ASSUME NEW c \in Checks, NEW e \in EvidenceIds, CommitVerdict(c, e)
        PROVE  ConfirmedIsSupported'
    <3>1. PICK v \in {"confirmed", "suspected"}, f \in FindingIds, k \in VerifierKeys,
               good \in BOOLEAN : CommitVerdict(c, e)!2!(v, f, k, good)
      BY <2>3 DEF CommitVerdict
    <3>2. \A g \in FindingIds : Support(g) \subseteq Support(g)'
      BY <2>3, <3>1 DEF CommitVerdict
    <3>3. status'[f] = "confirmed" /\ status[f] # "confirmed" => e \in Support(f)'
      BY <3>1 DEF Confirms, Exists
    <3> QED BY <3>1, <3>2, <3>3 DEF ConfirmedIsSupported
  <2> QED BY <1>4, <2>1, <2>2, <2>3 DEF Verifier
<1> QED BY <1>1, <1>2, <1>3, <1>4 DEF Next

LEMMA KeepsAuthority == ASSUME Sound, Next PROVE VerifierAuthority'
<1> USE DEF Sound, TypeOK, ColumnType, finding, evidence, verification, VerifierAuthority
<1>1. CASE User
  <2>1. ASSUME NEW e \in EvidenceIds, NEW f \in FindingIds, AddEvidence(f, e)
        PROVE  VerifierAuthority'
    BY <2>1 DEF AddEvidence, Blank
  <2>2. ASSUME NEW e \in EvidenceIds, AcceptEvidence(e) PROVE VerifierAuthority'
    BY <2>2 DEF AcceptEvidence, Acceptable
  <2>3. ASSUME NEW e \in EvidenceIds, RevokeEvidence(e) PROVE VerifierAuthority'
    BY <2>3 DEF RevokeEvidence
  <2>4. ASSUME NEW f \in FindingIds, UpdateStatus(f) \/ UpdateReview(f) \/ DeleteFinding(f)
        PROVE  VerifierAuthority'
    BY <2>4 DEF UpdateStatus, UpdateReview, DeleteFinding
  <2>5. CASE PlanFindings \/ DeleteCommit \/ ClearTraffic \/ DeleteProject
    BY <2>5 DEF PlanFindings, DeleteCommit, ClearTraffic, DeleteProject
  <2> QED BY <1>1, <2>1, <2>2, <2>3, <2>4, <2>5 DEF User
<1>2. CASE StoreHits \/ SaveAnalysis
  BY <1>2 DEF StoreHits, SaveAnalysis
<1>3. CASE Verifier
  <2>1. ASSUME NEW c \in Checks, CommitClear(c) \/ CommitSuspicion(c) PROVE VerifierAuthority'
    BY <2>1 DEF CommitClear, CommitSuspicion
  <2>2. ASSUME NEW c \in Checks, NEW e \in EvidenceIds, CommitVerdict(c, e)
        PROVE  VerifierAuthority'
    <3>1. PICK v \in {"confirmed", "suspected"}, f \in FindingIds, k \in VerifierKeys,
               good \in BOOLEAN : CommitVerdict(c, e)!2!(v, f, k, good)
      BY <2>2 DEF CommitVerdict
    <3>2. verdict[c] = "none"
      BY <2>2 DEF CommitVerdict
    <3>3. eAccepted'[e] => v = "confirmed" /\ good
      BY <3>1 DEF Confirms
    <3>4. eCheck'[e] = c /\ verdict'[c] = v /\ eGood'[e] = good
      BY <3>1
    <3>5. ASSUME NEW d \in EvidenceIds \ {e}, eCheck'[d] # NoCheck, eAccepted'[d]
          PROVE  verdict'[eCheck'[d]] = "confirmed" /\ eGood'[d]
      <4>1. eCheck'[d] = eCheck[d] /\ eAccepted'[d] = eAccepted[d] /\ eGood'[d] = eGood[d]
        BY <3>1
      <4>2. verdict[eCheck[d]] = "confirmed" /\ eGood[d]
        BY <3>5, <4>1
      <4> QED BY <3>1, <3>2, <4>1, <4>2
    <3> QED BY <3>3, <3>4, <3>5
  <2> QED BY <1>3, <2>1, <2>2 DEF Verifier
<1> QED BY <1>1, <1>2, <1>3 DEF Next

LEMMA KeepsOneFinding == ASSUME Sound, Next PROVE OneFindingPerFingerprint'
<1> USE DEF Sound, TypeOK, ColumnType, finding, evidence, verification,
            OneFindingPerFingerprint, Exists, Present
<1>1. CASE User
  <2>1. UNCHANGED key
    BY <1>1 DEF User, AddEvidence, AcceptEvidence, RevokeEvidence, UpdateStatus, UpdateReview,
                DeleteFinding, PlanFindings, DeleteCommit, ClearTraffic, DeleteProject
  <2>2. \A f \in FindingIds : Exists(f)' => Exists(f)
    BY <1>1 DEF User, AddEvidence, AcceptEvidence, RevokeEvidence, UpdateStatus, UpdateReview,
                DeleteFinding, PlanFindings, DeleteCommit, ClearTraffic, DeleteProject
  <2> QED BY <2>1, <2>2
<1>2. CASE StoreHits
  BY <1>2, StoreEffect DEF HasKey
<1>3. CASE SaveAnalysis
  BY <1>3 DEF SaveAnalysis, Blank, Absent
<1>4. CASE Verifier
  <2>1. ASSUME NEW c \in Checks, CommitClear(c) PROVE OneFindingPerFingerprint'
    BY <2>1 DEF CommitClear
  <2>2. ASSUME NEW c \in Checks, Records(c) PROVE OneFindingPerFingerprint'
    BY <2>2 DEF Records, Recorded, HasKey
  <2> QED BY <1>4, <2>1, <2>2, SuspicionEffect, VerdictEffect DEF Verifier
<1> QED BY <1>1, <1>2, <1>3, <1>4 DEF Next

LEMMA KeepsDoomed == ASSUME Sound, Next PROVE DoomedIsAudited'
<1> USE DEF Sound, TypeOK, ColumnType, finding, evidence, verification, DoomedIsAudited,
            Verifications
<1>1. CASE User
  <2>1. ASSUME NEW e \in EvidenceIds,
               AcceptEvidence(e) \/ RevokeEvidence(e)
                 \/ \E f \in FindingIds : AddEvidence(f, e)
        PROVE  DoomedIsAudited'
    BY <2>1 DEF AddEvidence, AcceptEvidence, RevokeEvidence, UserFree
  <2>2. ASSUME NEW f \in FindingIds, UpdateStatus(f) \/ UpdateReview(f) \/ DeleteFinding(f)
        PROVE  DoomedIsAudited'
    BY <2>2 DEF UpdateStatus, UpdateReview, DeleteFinding, UserFree
  <2>3. CASE PlanFindings \/ DeleteCommit \/ ClearTraffic \/ DeleteProject
    BY <2>3 DEF PlanFindings, DeleteCommit, ClearTraffic, DeleteProject, UserFree
  <2> QED BY <1>1, <2>1, <2>2, <2>3 DEF User
<1>2. CASE StoreHits
  <2>1. UNCHANGED <<verification, doomed>>
    BY <1>2 DEF StoreHits
  <2> QED BY <1>2, <2>1, StoreEffect
<1>3. CASE SaveAnalysis
  BY <1>3 DEF SaveAnalysis
<1>4. CASE Verifier
  <2>1. ASSUME NEW c \in Checks, CommitClear(c) PROVE DoomedIsAudited'
    BY <2>1 DEF CommitClear
  <2>2. ASSUME NEW c \in Checks, CommitSuspicion(c) PROVE DoomedIsAudited'
    <3>1. /\ UNCHANGED doomed
          /\ \A f \in FindingIds : status'[f] = "confirmed" => status[f] = "confirmed"
      BY <2>2 DEF CommitSuspicion
    <3> QED BY <2>2, <3>1, SuspicionEffect DEF Records, Recorded, Traced
  <2>3. ASSUME NEW c \in Checks, NEW e \in EvidenceIds, CommitVerdict(c, e)
        PROVE  DoomedIsAudited'
    <3>1. UNCHANGED doomed
      BY <2>3 DEF CommitVerdict
    <3> QED BY <2>3, <3>1, VerdictEffect DEF Records, Recorded, Traced
  <2> QED BY <1>4, <2>1, <2>2, <2>3 DEF Verifier
<1> QED BY <1>1, <1>2, <1>3, <1>4 DEF Next

LEMMA NextSound == Sound /\ [Next]_vars => Sound'
<1> SUFFICES ASSUME Sound, [Next]_vars PROVE Sound'
  OBVIOUS
<1>1. CASE Next
  <2>1. ColumnType'
    BY <1>1, UserColumns, MachineColumns DEF Next, Sound, TypeOK
  <2> QED BY <1>1, <2>1, KeepsReferences, KeepsSupport, KeepsAuthority, KeepsOneFinding,
             KeepsBlank, KeepsTraced, KeepsDoomed DEF Sound, TypeOK
<1>2. CASE UNCHANGED vars
  BY <1>2 DEF vars, finding, evidence, verification, Sound, TypeOK, ColumnType, References,
              ConfirmedIsSupported, VerifierAuthority, OneFindingPerFingerprint, Blank, Traced,
              DoomedIsAudited, Exists, Support, EvidenceOf, Verifications
<1> QED BY <1>1, <1>2

LEMMA AlwaysSound == Spec => []Sound
BY InitSound, NextSound, PTL DEF Spec

-----------------------------------------------------------------------------
(* The theorems *)

(* Every column has its type and every reference its row, for any number   *)
(* of findings, evidence rows and checks.                                  *)
THEOREM TypeCorrect == Spec => []TypeOK
BY AlwaysSound, PTL DEF Sound

(* A finding is confirmed only while accepted evidence of a real response  *)
(* supports it.                                                            *)
THEOREM ConfirmedSupported == Spec => []ConfirmedIsSupported
BY AlwaysSound, PTL DEF Sound

(* Accepted evidence of a verifier stands for a confirmed verdict.         *)
THEOREM AuthorityHolds == Spec => []VerifierAuthority
BY AlwaysSound, PTL DEF Sound

(* No two live findings share a fingerprint.                               *)
THEOREM OneFinding == Spec => []OneFindingPerFingerprint
BY AlwaysSound, PTL DEF Sound

(* Rules, analyses and verdicts leave alone what a person has judged.      *)
THEOREM ReviewRespected == Spec => MachineRespectsReview
<1> DEFINE Respects(f) ==
      \/ status'[f] = status[f]
      \/ status[f] = "absent"
      \/ status[f] = "pending" /\ (f \in reviewed => status'[f] # "deleted")
      \/ User
<1>1. Sound /\ [Next]_vars => [\A f \in FindingIds : Respects(f)]_vars
  <2> SUFFICES ASSUME Sound, Next, NEW f \in FindingIds PROVE Respects(f)
    BY DEF vars
  <2> USE DEF Sound, TypeOK, ColumnType
  <2>1. CASE User
    BY <2>1
  <2>2. CASE StoreHits
    BY <2>2, StoreEffect
  <2>3. CASE SaveAnalysis
    BY <2>3 DEF SaveAnalysis, Replaceable, Absent
  <2>4. ASSUME NEW c \in Checks, CommitClear(c) PROVE Respects(f)
    BY <2>4 DEF CommitClear, finding
  <2>5. ASSUME NEW c \in Checks, Records(c) PROVE Respects(f)
    BY <2>5 DEF Records, Recorded, HasKey, Exists, Present
  <2> QED BY <2>1, <2>2, <2>3, <2>4, <2>5, SuspicionEffect, VerdictEffect DEF Next, Verifier
<1> QED BY <1>1, AlwaysSound, PTL DEF Spec, MachineRespectsReview

(* A confirmed or verified finding is deleted only with its project, also  *)
(* when a verdict arrives while the user deletes it.                       *)
THEOREM AuditedKept == Spec => AuditedIsKept
<1> DEFINE StaysKept(f) ==
      status[f] = "confirmed" \/ Verifications(f) # {} =>
          status'[f] # "deleted" \/ project' = "deleted"
<1>1. Sound /\ [Next]_vars => [\A f \in FindingIds : StaysKept(f)]_vars
  <2> SUFFICES ASSUME Sound, Next, NEW f \in FindingIds,
                      status[f] = "confirmed" \/ Verifications(f) # {}
               PROVE  status'[f] # "deleted" \/ project' = "deleted"
    BY DEF vars
  <2> USE DEF Sound, TypeOK, ColumnType
  <2>1. status[f] # "deleted"
    BY DEF Verifications, References, Exists, Present
  <2>2. CASE User
    <3>1. CASE DeleteCommit
      BY <2>1, <3>1 DEF DeleteCommit, Deletable, DoomedIsAudited
    <3>2. CASE DeleteProject
      BY <3>2 DEF DeleteProject
    <3>3. ASSUME NEW g \in FindingIds, UpdateStatus(g) PROVE status'[f] # "deleted"
      BY <2>1, <3>3 DEF UpdateStatus, Present
    <3>4. CASE ~(DeleteCommit \/ DeleteProject \/ \E g \in FindingIds : UpdateStatus(g))
      BY <2>1, <2>2, <3>4 DEF User, AddEvidence, AcceptEvidence, RevokeEvidence, UpdateReview,
            DeleteFinding, PlanFindings, ClearTraffic, finding
    <3> QED BY <3>1, <3>2, <3>3, <3>4
  <2>3. CASE StoreHits
    BY <2>1, <2>3, StoreEffect
  <2>4. CASE SaveAnalysis
    <3>1. f \notin Replaceable
      BY HypothesisIsUnlinked DEF Replaceable
    <3> QED BY <2>1, <2>4, <3>1 DEF SaveAnalysis
  <2>5. ASSUME NEW c \in Checks, CommitClear(c) PROVE status'[f] # "deleted"
    BY <2>1, <2>5 DEF CommitClear, finding
  <2>6. ASSUME NEW c \in Checks, Records(c) PROVE status'[f] # "deleted"
    BY <2>1, <2>6 DEF Records, Recorded
  <2> QED BY <2>2, <2>3, <2>4, <2>5, <2>6, SuspicionEffect, VerdictEffect DEF Next, Verifier
<1> QED BY <1>1, AlwaysSound, PTL DEF Spec, AuditedIsKept
-----------------------------------------------------------------------------
(* Report: what is known of its reader, document and files, for any number *)
(* of names, commits and files of others                                   *)

Stages ==
    {"idle", "dialog", "cancelled", "failed", "refused", "built", "create", "json", "write",
     "unwritten", "exported"} \cup Querying

Gaps ==
    [check : Checks,
     why : {"verification_incomplete", "human_judgement_conflict", "resource_ownership_missing"}]

Documents ==
    [traffic : BOOLEAN, notObserved : SUBSET Checks, gaps : SUBSET Gaps,
     rows : [FindingIds -> Present \cup {"absent", "deleted"}],
     by : [FindingIds -> {"none", "ai", "passive_rule", "safe_verifier"}],
     targets : SUBSET FindingIds,
     items : SUBSET [e : EvidenceIds, f : FindingIds \cup {NoFinding}, accepted : BOOLEAN,
                     good : BOOLEAN, by : Checks \cup {NoCheck}, replayed : BOOLEAN],
     raw : SUBSET EvidenceIds, hits : SUBSET FindingIds, told : SUBSET FindingIds]

Requests ==
    [scope : Scopes \cup {"none"}, checks : SUBSET Checks, unsure : SUBSET Checks,
     handed : SUBSET EvidenceIds, raw : BOOLEAN]

(* A mission report passes by the queries of the other two.                *)
MissionStages == {"project", "findings", "evidence", "built"}

ReaderType ==
    /\ at \in Stages
    /\ request \in Requests /\ doc \in Documents /\ writes \in Nat
    /\ at \in {"idle", "dialog"} => doc = NoDoc
    /\ at \in Querying \cup {"dialog", "refused", "built"} =>
          request.scope \in Scopes /\ (request.scope = "mission" => at \in MissionStages)
    /\ at = "links" => request.scope = "run"

FilesType ==
    /\ file \in [Files -> {"none", "mine", "other"}]
    /\ attempt \in Nat \ {0}
    /\ left \subseteq Files

(* Which files are the export's own at which stage.                        *)
OwnFiles ==
    /\ at # "unwritten" => attempt \in Attempts
    /\ \A f \in Files :
          file[f] = "mine" <=> \/ f \in left
                               \/ at = "json" /\ f = <<attempt, "md">>
                               \/ at \in {"write", "exported"} /\ f[1] = attempt
    /\ at # "unwritten" => \A f \in left : f[1] < attempt /\ f[2] = "md"

(* What a document has taken from a table stays true of it, or stays what  *)
(* the document has shown.                                                 *)
Grounded ==
    /\ \A c \in doc.notObserved : verdict[c] = "clear" /\ c \notin request.unsure
    /\ \A g \in doc.gaps :
          \/ /\ g.why = "verification_incomplete"
             /\ verdict[g.check] = "clear" /\ g.check \in request.unsure
          \/ g.why = "human_judgement_conflict" /\ verdict[g.check] \in {"suspected", "confirmed"}
          \/ g.why = "resource_ownership_missing" /\ verdict[g.check] = "suspected"
    /\ \A i \in doc.items : i.by # NoCheck =>
          verdict[i.by] = "confirmed" \/ (verdict[i.by] = "suspected" /\ ~i.accepted)
    /\ doc.raw # {} => request.raw
    /\ at \in {"range", "events", "built"} /\ OfAssessment => \A f \in Confirmed : Backed(f)

(* The stages at which an assessment report has the answer of a query.     *)
Counted ==
    {"outcomes", "gaps", "incomplete", "findings", "links", "targets", "evidence", "hits", "compose",
     "range", "events", "built"}
Selected == {"targets", "evidence", "hits", "compose", "range", "events", "built"}
Collected == {"hits", "compose", "range", "events", "built"}
Matched == {"compose", "range", "events", "built"}

(* The evidence of all findings, as a report shows it.                     *)
Attached == {Item(e) : e \in {d \in EvidenceIds : Exists(eFinding[d])}}

(* The findings of passive rules.                                          *)
OfRules == {f \in FindingIds : Exists(f) /\ producer[f] = "passive_rule"}

(* When nobody has written since the first query, the answers are those    *)
(* the database would give now.                                            *)
Current ==
    writes = 0 /\ OfAssessment =>
        /\ at \in Counted => (doc.traffic <=> traffic = "kept")
        /\ at = "links" => doc.rows = Rows(FindingIds)
        /\ at \in Selected => doc.rows = Rows(Wanted)
        /\ at \in Selected \cup {"links"} => doc.by = producer
        /\ at \in Collected => doc.items = Attached
        /\ at \in Matched => doc.hits = OfRules
        /\ at = "built" => doc.told = Told

(* A verifier's findings have its fingerprints and are linked to a         *)
(* verification as long as they are there, a rule's have the rule's.       *)
Authored ==
    /\ \A f \in FindingIds : producer[f] = "safe_verifier" <=> key[f] \in VerifierKeys
    /\ \A f \in FindingIds : producer[f] = "passive_rule" <=> key[f] \in RuleKeys
    /\ \A f \in FindingIds : producer[f] = "safe_verifier" /\ Exists(f) => Verifications(f) # {}
    /\ \A c \in Checks : vFinding[c] # NoFinding => key[vFinding[c]] \in VerifierKeys

(* Evidence of a verifier, and a conflict with a person, came with a       *)
(* verdict.                                                                *)
Judged ==
    /\ \A e \in EvidenceIds : eCheck[e] # NoCheck => verdict[eCheck[e]] \in {"suspected", "confirmed"}
    /\ \A c \in Checks : relation[c] = "human_conflict" => verdict[c] \in {"suspected", "confirmed"}

(* A report is not refused, and fails only without a project.              *)
CalmEnds == writes = 0 => at # "refused" /\ (at = "failed" => project = "deleted")

-----------------------------------------------------------------------------
(* The database behind a report *)

(* A verdict is given once.                                                *)
LEMMA VerdictStays ==
    ASSUME ColumnType, Next, NEW c \in Checks, verdict[c] # "none"
    PROVE  verdict'[c] = verdict[c]
<1>1. CASE User
  BY <1>1 DEF User, AddEvidence, AcceptEvidence, RevokeEvidence, UpdateStatus, UpdateReview,
              DeleteFinding, PlanFindings, DeleteCommit, ClearTraffic, DeleteProject, verification
<1>2. CASE StoreHits \/ SaveAnalysis
  BY <1>2 DEF StoreHits, SaveAnalysis, verification
<1>3. ASSUME NEW d \in Checks, CommitClear(d) PROVE verdict'[c] = verdict[c]
  BY <1>3 DEF CommitClear, ColumnType
<1>4. ASSUME NEW d \in Checks, Records(d) PROVE verdict'[c] = verdict[c]
  BY <1>4 DEF Records, Recorded
<1> QED BY <1>1, <1>2, <1>3, <1>4, SuspicionEffect, VerdictEffect DEF Next, Verifier

(* Only a verdict with a replay makes evidence of a check.                 *)
LEMMA KeepsJudged == ASSUME Sound, Judged, Next PROVE Judged'
<1> USE DEF Sound, TypeOK, ColumnType
<1>1. ASSUME UNCHANGED <<eCheck, relation>> PROVE Judged'
  BY <1>1, VerdictStays DEF Judged
<1>2. CASE User \/ StoreHits \/ SaveAnalysis
  BY <1>1, <1>2 DEF User, AddEvidence, AcceptEvidence, RevokeEvidence, UpdateStatus, UpdateReview,
              DeleteFinding, PlanFindings, DeleteCommit, ClearTraffic, DeleteProject, StoreHits,
              SaveAnalysis, evidence, verification
<1>3. ASSUME NEW c \in Checks, CommitClear(c) PROVE Judged'
  BY <1>1, <1>3 DEF CommitClear, evidence
<1>4. ASSUME NEW c \in Checks, CommitSuspicion(c) PROVE Judged'
  <2>1. /\ verdict'[c] = "suspected" /\ UNCHANGED eCheck
        /\ \A d \in Checks \ {c} : relation'[d] = relation[d]
    BY <1>4 DEF CommitSuspicion, evidence
  <2> QED BY <2>1, VerdictStays DEF Judged
<1>5. ASSUME NEW c \in Checks, NEW e \in EvidenceIds, CommitVerdict(c, e) PROVE Judged'
  <2>1. /\ verdict'[c] \in {"suspected", "confirmed"}
        /\ eCheck' = [eCheck EXCEPT ![e] = c]
        /\ \A d \in Checks \ {c} : relation'[d] = relation[d]
    BY <1>5 DEF CommitVerdict
  <2> QED BY <2>1, VerdictStays DEF Judged
<1> QED BY <1>2, <1>3, <1>4, <1>5 DEF Next, Verifier

LEMMA KeepsAuthored == ASSUME Sound, Authored, Next PROVE Authored'
<1> USE NoKeyAssumption, KeysAssumption DEF Sound, TypeOK, ColumnType, References, Blank, Keys
<1>1. CASE User
  <2>1. UNCHANGED <<key, producer>> /\ (UNCHANGED vFinding \/ DeleteProject)
    BY <1>1 DEF User, AddEvidence, AcceptEvidence, RevokeEvidence, UpdateStatus, UpdateReview,
                DeleteFinding, PlanFindings, DeleteCommit, ClearTraffic, DeleteProject, finding,
                verification
  <2>2. ASSUME DeleteProject
        PROVE  vFinding' = [c \in Checks |-> NoFinding] /\ \A f \in FindingIds : ~Exists(f)'
    BY <2>2 DEF DeleteProject, Exists, Present
  <2>3. \A f \in FindingIds : Exists(f)' => Exists(f)
    BY <1>1 DEF User, AddEvidence, AcceptEvidence, RevokeEvidence, UpdateStatus, UpdateReview,
                DeleteFinding, PlanFindings, DeleteCommit, ClearTraffic, DeleteProject, finding,
                Exists, Present
  <2> QED BY <2>1, <2>2, <2>3 DEF Authored, Verifications
<1>2. CASE StoreHits
  <2>1. UNCHANGED verification
    BY <1>2 DEF StoreHits
  <2>2. \A f \in FindingIds : status[f] = "absent" => Verifications(f) = {}
    BY DEF Verifications, Exists, Present
  <2> QED BY <1>2, <2>1, <2>2, StoreEffect DEF Authored, verification, Verifications, Exists,
                                               Present
<1>3. CASE SaveAnalysis
  <2>1. UNCHANGED <<key, verification>>
    BY <1>3 DEF SaveAnalysis
  <2>2. \A f \in FindingIds :
           \/ producer'[f] = producer[f] /\ (Exists(f)' => Exists(f))
           \/ status[f] = "absent" /\ producer'[f] = "ai"
    BY <1>3 DEF SaveAnalysis, Replaceable, Absent, Exists, Present
  <2> QED BY <2>1, <2>2 DEF Authored, verification, Verifications
<1>4. CASE Verifier
  <2>1. ASSUME NEW c \in Checks, CommitClear(c) PROVE Authored'
    BY <2>1 DEF CommitClear, Authored, finding, Verifications, Exists
  <2>2. ASSUME NEW c \in Checks, Records(c) PROVE Authored'
    <3>1. PICK f \in FindingIds, k \in VerifierKeys : Recorded(c, f, k)
      BY <2>2 DEF Records
    <3>2. vFinding[c] = NoFinding
      BY <3>1 DEF Recorded, Traced
    <3>3. \A g \in FindingIds \ {f} :
             Verifications(g)' = Verifications(g) /\ (Exists(g)' <=> Exists(g))
      BY <3>1, <3>2 DEF Recorded, Verifications, Exists
    <3>4. c \in Verifications(f)'
      BY <3>1 DEF Recorded, Verifications
    <3>5. key'[f] \in VerifierKeys /\ producer'[f] = "safe_verifier"
      BY <3>1 DEF Recorded, HasKey, Authored
    <3>6. \A d \in Checks \ {c} : vFinding'[d] = vFinding[d]
      BY <3>1 DEF Recorded
    <3>7. vFinding'[c] = f
      BY <3>1 DEF Recorded
    <3>8. \A g \in FindingIds \ {f} : key'[g] = key[g] /\ producer'[g] = producer[g]
      BY <3>1 DEF Recorded
    <3> QED BY <3>3, <3>4, <3>5, <3>6, <3>7, <3>8 DEF Authored
  <2> QED BY <1>4, <2>1, <2>2, SuspicionEffect, VerdictEffect DEF Verifier
<1> QED BY <1>1, <1>2, <1>3, <1>4 DEF Next

(* What holds of the database between any two transactions.                *)
Database == Sound /\ Authored /\ Judged

LEMMA InitDatabase == Init => Database
BY InitSound DEF Init, Database, Authored, Judged, Exists, Present, Keys

LEMMA NextDatabase == Database /\ [Next]_vars => Database'
<1> SUFFICES ASSUME Database, [Next]_vars PROVE Database'
  OBVIOUS
<1>1. CASE Next
  BY <1>1, NextSound, KeepsJudged, KeepsAuthored DEF Database
<1>2. CASE UNCHANGED vars
  <2>1. Sound'
    BY <1>2, NextSound DEF Database
  <2> QED BY <1>2, <2>1 DEF vars, finding, evidence, verification, Database, Authored, Judged,
                            Exists, Verifications
<1> QED BY <1>1, <1>2

-----------------------------------------------------------------------------
(* Stages and types of the reader                                          *)

(* The queries, each of which reads the database once.                     *)
Query ==
    \/ QueryProject \/ CountTraffic \/ QueryNotObserved \/ QueryGaps \/ QueryIncomplete
    \/ QueryFindings \/ QueryLinks \/ QueryTargets \/ QueryEvidence \/ QueryHits \/ Compose \/ TrafficRange
    \/ QueryEvents

Writing == Serialize \/ CreateMarkdown \/ CreateJson \/ WriteBoth

LEMMA ReaderSteps ==
    ASSUME ReportNext
    PROVE  Begin \/ Confirm \/ Cancel \/ Query \/ Writing \/ Writers \/ SomeoneElse
BY DEF ReportNext, Reader, Query, Writing

(* No step of the reader touches the database.                             *)
LEMMA ReaderReads == ASSUME ReportNext PROVE UNCHANGED vars \/ Writers
BY DEF ReportNext, Reader, Begin, Confirm, Cancel, QueryProject, CountTraffic, QueryNotObserved,
   QueryGaps, QueryIncomplete, QueryFindings, QueryLinks, QueryTargets, QueryEvidence, QueryHits, Compose,
   TrafficRange, QueryEvents, Serialize, CreateMarkdown, CreateJson, WriteBoth, SomeoneElse, Goto

LEMMA QueriesKeep ==
    ASSUME Query
    PROVE  UNCHANGED <<vars, request, writes, files>> /\ at \in Querying
BY DEF Query, QueryProject, CountTraffic, QueryNotObserved, QueryGaps, QueryIncomplete, QueryFindings,
   QueryLinks, QueryTargets, QueryEvidence, QueryHits, Compose, TrafficRange, QueryEvents, Goto, Querying

LEMMA WritingKeeps ==
    ASSUME Writing
    PROVE  /\ UNCHANGED <<vars, writes>>
           /\ \/ Serialize /\ UNCHANGED files
              \/ UNCHANGED <<request, doc>> /\ at \in {"create", "json", "write"}
           /\ at' \in {"create", "json", "write", "unwritten", "exported"}
BY DEF Writing, Serialize, CreateMarkdown, CreateJson, WriteBoth, Forward

(* Where a query leads, and that it leads on only in the scopes it is for. *)
LEMMA QueriesLead ==
    ASSUME ReaderType, Query
    PROVE  /\ at' \in Stages
           /\ at' \notin {"idle", "dialog", "create", "json", "write", "unwritten", "exported"}
           /\ request.scope = "mission" => at' \in MissionStages \cup {"failed"}
           /\ at' = "links" => request.scope = "run"
<1> USE DEF ReaderType, Stages, Querying, MissionStages
<1>1. CASE QueryProject
  BY <1>1 DEF QueryProject, Goto
<1>2. CASE CountTraffic \/ QueryNotObserved \/ QueryGaps \/ QueryIncomplete
  BY <1>2 DEF CountTraffic, QueryNotObserved, QueryGaps, QueryIncomplete, Goto
<1>3. CASE QueryFindings
  BY <1>3 DEF QueryFindings, Goto
<1>4. CASE QueryLinks \/ QueryTargets
  BY <1>4 DEF QueryLinks, QueryTargets, Goto
<1>5. CASE QueryEvidence
  BY <1>5 DEF QueryEvidence, Goto
<1>6. CASE QueryHits \/ Compose
  BY <1>6 DEF QueryHits, Compose, Goto
<1>7. CASE TrafficRange \/ QueryEvents
  BY <1>7 DEF TrafficRange, QueryEvents, Goto
<1> QED BY <1>1, <1>2, <1>3, <1>4, <1>5, <1>6, <1>7 DEF Query

(* The document keeps its shape: the columns are typed.                    *)
LEMMA QueriesWrite ==
    ASSUME ColumnType, ReaderType, Query PROVE doc' \in Documents
<1> USE DEF ReaderType, ColumnType, Documents
<1>1. CASE QueryProject \/ Compose \/ TrafficRange
  BY <1>1 DEF QueryProject, Compose, TrafficRange
<1>2. CASE CountTraffic
  BY <1>2 DEF CountTraffic
<1>3. CASE QueryNotObserved
  BY <1>3 DEF QueryNotObserved, ClearChecks, Requests
<1>4. CASE QueryGaps \/ QueryIncomplete
  <2>1. Noted \subseteq Gaps /\ Incomplete \subseteq Gaps
    BY DEF Noted, Incomplete, Gap, Gaps, Requests
  <2> QED BY <1>4, <2>1 DEF QueryGaps, QueryIncomplete
<1>5. CASE QueryFindings
  <2>1. \A S : Rows(S) \in [FindingIds -> Present \cup {"absent", "deleted"}]
    BY DEF Rows
  <2> QED BY <1>5, <2>1 DEF QueryFindings
<1>6. CASE QueryLinks
  <2>1. Retained \in [FindingIds -> Present \cup {"absent", "deleted"}]
    BY DEF Retained
  <2> QED BY <1>6, <2>1 DEF QueryLinks
<1>7. CASE QueryTargets
  BY <1>7 DEF QueryTargets, Listed
<1>8. CASE QueryEvidence
  <2>1. \A e \in EvidenceIds :
          Item(e) \in [e : EvidenceIds, f : FindingIds \cup {NoFinding}, accepted : BOOLEAN,
                       good : BOOLEAN, by : Checks \cup {NoCheck}, replayed : BOOLEAN]
    BY DEF Item, OfTraffic
  <2>2. \A S \in SUBSET EvidenceIds : RawOf(S) \in SUBSET EvidenceIds
    BY DEF RawOf
  <2> DEFINE shown == {e \in EvidenceIds : Exists(eFinding[e]) /\ InScope(e)}
  <2>3. doc' = [doc EXCEPT !.items = {Item(e) : e \in shown}, !.raw = RawOf(shown)]
    BY <1>8 DEF QueryEvidence
  <2>4. RawOf(shown) \in SUBSET EvidenceIds
    BY <2>2
  <2>5. shown \subseteq EvidenceIds
    OBVIOUS
  <2> HIDE DEF shown
  <2> DEFINE items == {Item(e) : e \in shown}
  <2>6. items \in SUBSET [e : EvidenceIds, f : FindingIds \cup {NoFinding}, accepted : BOOLEAN,
                          good : BOOLEAN, by : Checks \cup {NoCheck}, replayed : BOOLEAN]
    BY <2>1, <2>5
  <2> HIDE DEF items
  <2>7. doc' = [doc EXCEPT !.items = items, !.raw = RawOf(shown)]
    BY <2>3 DEF items
  <2> QED BY <2>4, <2>6, <2>7
<1>9. CASE QueryHits
  BY <1>9 DEF QueryHits
<1>10. CASE QueryEvents
  BY <1>10 DEF QueryEvents, Told, Listed
<1> QED BY <1>1, <1>2, <1>3, <1>4, <1>5, <1>6, <1>7, <1>8, <1>9, <1>10 DEF Query

LEMMA KeepsReaderType ==
    ASSUME ColumnType, ReaderType, ReportNext PROVE ReaderType'
<1>1. NoDoc \in Documents /\ NoRequest \in Requests
  BY DEF NoDoc, NoRequest, Documents, Requests, Present
<1>2. CASE Begin
  <2>1. /\ request' \in Requests /\ request'.scope \in Scopes
        /\ at' = "project" \/ (at' = "dialog" /\ request'.scope # "mission")
    <3>1. PICK scope \in Scopes, checks \in SUBSET Checks, raw \in BOOLEAN,
               unsure \in SUBSET Checks, handed \in SUBSET EvidenceIds :
             /\ scope = "mission" => ~raw
             /\ request' = [scope |-> scope, checks |-> checks, unsure |-> unsure,
                            handed |-> handed, raw |-> raw]
             /\ at' = IF raw THEN "dialog" ELSE "project"
      BY <1>2 DEF Begin
    <3>2. request' \in Requests /\ request'.scope = scope
      BY <3>1 DEF Requests
    <3> QED BY <3>1, <3>2
  <2>2. UNCHANGED <<doc, writes>> /\ at = "idle"
    BY <1>2 DEF Begin
  <2> QED BY <1>1, <2>1, <2>2 DEF ReaderType, Stages, Querying, MissionStages
<1>3. CASE Confirm
  <2>1. UNCHANGED <<doc, writes, request>> /\ at = "dialog" /\ at' = "project"
    BY <1>3 DEF Confirm, Goto
  <2> QED BY <2>1 DEF ReaderType, Stages, Querying, MissionStages
<1>4. CASE Cancel
  <2>1. UNCHANGED <<doc, writes, request>> /\ at = "dialog" /\ at' = "cancelled"
    BY <1>4 DEF Cancel, Goto
  <2> QED BY <2>1 DEF ReaderType, Stages, Querying, MissionStages
<1>5. CASE Query
  BY <1>5, QueriesKeep, QueriesLead, QueriesWrite DEF ReaderType, MissionStages, Querying
<1>6. CASE Writing
  <2>1. doc' \in Documents /\ request' \in Requests
    BY <1>1, <1>6, WritingKeeps DEF Serialize, ReaderType
  <2> QED BY <1>6, <2>1, WritingKeeps DEF ReaderType, Stages, Querying
<1>7. CASE Writers
  <2>1. UNCHANGED <<at, request, doc>> /\ writes' \in {writes, writes + 1}
    BY <1>7 DEF Writers
  <2> QED BY <2>1 DEF ReaderType
<1>8. CASE SomeoneElse
  BY <1>8 DEF SomeoneElse, reader, ReaderType
<1> QED BY <1>2, <1>3, <1>4, <1>5, <1>6, <1>7, <1>8, ReaderSteps

-----------------------------------------------------------------------------
(* The pair of files                                                       *)

Paired == FilesType /\ OwnFiles

LEMMA PairInit == ReportInit => Paired
BY AttemptsAssumption DEF ReportInit, Paired, FilesType, OwnFiles, Attempts, Files

(* The next name, and what is left of the old one.                         *)
LEMMA ForwardKeeps ==
    ASSUME Paired, at # "unwritten", Forward
    PROVE  /\ attempt' \in Nat \ {0} /\ attempt' = attempt + 1
           /\ (at' = "create" /\ attempt' \in Attempts) \/ at' = "unwritten"
<1>1. attempt \in 1 .. MaxAttempts /\ MaxAttempts \in Nat
  BY AttemptsAssumption DEF Paired, OwnFiles, Attempts
<1>2. attempt' = attempt + 1
  BY DEF Forward
<1>3. CASE attempt = MaxAttempts
  BY <1>1, <1>2, <1>3 DEF Forward
<1>4. CASE attempt # MaxAttempts
  <2>1. attempt + 1 \in 1 .. MaxAttempts
    BY <1>1, <1>4
  <2> QED BY <1>1, <1>2, <1>4, <2>1 DEF Forward, Attempts
<1> QED BY <1>3, <1>4

(* A name is given up: each of its files is gone, or stays and is counted. *)
LEMMA RemovedKeeps ==
    ASSUME Paired, at # "unwritten", attempt \in Attempts, NEW X \in SUBSET {"md", "json"}, Removed(X),
           \A f \in Files : file[f] = "mine" <=> f \in left \/ (f[1] = attempt /\ f[2] \in X)
    PROVE  /\ file' \in [Files -> {"none", "mine", "other"}]
           /\ left' \subseteq Files
           /\ \A f \in Files : file'[f] = "mine" <=> f \in left'
           /\ \A f \in left' : f \in left \/ (f[1] = attempt /\ f[2] \in X)
<1>1. PICK gone \in SUBSET ({attempt} \X X) :
        /\ file' = [f \in Files |-> IF f \in gone THEN "none" ELSE file[f]]
        /\ left' = left \cup (({attempt} \X X) \ gone)
  BY DEF Removed
<1>2. {attempt} \X X \subseteq Files
  BY DEF Files
<1>3. \A f \in {attempt} \X X : f[1] = attempt /\ f[2] \in X
  OBVIOUS
<1>4. \A f \in Files : f[1] = attempt /\ f[2] \in X => f \in {attempt} \X X
  BY DEF Files
<1>5. file' \in [Files -> {"none", "mine", "other"}] /\ left' \subseteq Files
  BY <1>1, <1>2 DEF Paired, FilesType
<1>6. \A f \in left : f[1] # attempt
  BY AttemptsAssumption DEF Paired, OwnFiles, FilesType, Attempts, Files
<1>7. ASSUME NEW f \in Files PROVE file'[f] = "mine" <=> f \in left'
  <2>1. CASE f \in gone
    BY <1>1, <1>3, <1>6, <2>1
  <2>2. CASE f \notin gone
    BY <1>1, <1>3, <1>4, <2>2
  <2> QED BY <2>1, <2>2
<1>8. \A f \in left' : f \in left \/ (f[1] = attempt /\ f[2] \in X)
  BY <1>1, <1>3
<1> QED BY <1>5, <1>7, <1>8

LEMMA KeepsPaired ==
    ASSUME ReaderType, Paired, ReportNext PROVE Paired'
<1> USE DEF Paired, FilesType, OwnFiles
<1>1. CASE Begin \/ Confirm \/ Cancel
  <2>1. UNCHANGED files /\ at \in {"idle", "dialog"} /\ at' \in {"dialog", "project", "cancelled"}
    BY <1>1 DEF Begin, Confirm, Cancel, Goto
  <2> QED BY <2>1 DEF files
<1>2. CASE Query
  <2>1. UNCHANGED files /\ at \in Querying
    BY <1>2, QueriesKeep
  <2>2. at' \notin {"json", "write", "unwritten", "exported"}
    BY <1>2, QueriesLead
  <2> QED BY <2>1, <2>2 DEF files, Querying
<1>3. CASE Serialize
  BY <1>3 DEF Serialize, files
<1>4. CASE CreateMarkdown
  <2>1. /\ at = "create" /\ attempt \in Attempts /\ <<attempt, "md">> \in Files
        /\ UNCHANGED left
    BY <1>4 DEF CreateMarkdown, Files
  <2>2. CASE Made("md") /\ at' = "json" /\ UNCHANGED attempt
    BY <2>1, <2>2 DEF Made
  <2>3. CASE Forward /\ UNCHANGED file
    <3>1. at' \in {"create", "unwritten"} /\ attempt' = attempt + 1 /\ attempt' \in Nat \ {0}
      BY <2>1, <2>3, ForwardKeeps
    <3>2. \A f \in left : f[1] < attempt /\ f[2] = "md" /\ f[1] \in Nat
      BY <2>1, AttemptsAssumption DEF Files, Attempts
    <3> QED BY <2>1, <2>3, <3>1, <3>2, ForwardKeeps
  <2>4. CASE at' = "unwritten" /\ UNCHANGED <<file, attempt>>
    BY <2>1, <2>4
  <2> QED BY <1>4, <2>2, <2>3, <2>4 DEF CreateMarkdown
<1>5. CASE CreateJson
  <2>1. at = "json" /\ attempt \in Attempts /\ <<attempt, "json">> \in Files
    BY <1>5 DEF CreateJson, Files
  <2>2. \A f \in left : f[1] < attempt /\ f[2] = "md" /\ f[1] \in Nat
    BY <2>1, AttemptsAssumption DEF Files, Attempts
  <2>3. ASSUME Removed({"md"})
        PROVE  /\ file' \in [Files -> {"none", "mine", "other"}]
               /\ left' \subseteq Files
               /\ \A f \in Files : file'[f] = "mine" <=> f \in left'
               /\ \A f \in left' : f[1] <= attempt /\ f[2] = "md"
    <3>1. \A f \in Files : f = <<attempt, "md">> <=> f[1] = attempt /\ f[2] \in {"md"}
      BY <2>1 DEF Files
    <3>2. \A f \in Files : file[f] = "mine" <=> f \in left \/ (f[1] = attempt /\ f[2] \in {"md"})
      BY <2>1, <3>1
    <3>3. /\ file' \in [Files -> {"none", "mine", "other"}] /\ left' \subseteq Files
          /\ \A f \in Files : file'[f] = "mine" <=> f \in left'
          /\ \A f \in left' : f \in left \/ (f[1] = attempt /\ f[2] \in {"md"})
      BY <2>1, <2>3, <3>2, RemovedKeeps
    <3> QED BY <2>1, <2>2, <3>3
  <2>4. CASE Made("json") /\ at' = "write" /\ UNCHANGED <<attempt, left>>
    BY <2>1, <2>2, <2>4 DEF Made, Files
  <2>5. CASE Forward /\ Removed({"md"})
    <3>1. at' \in {"create", "unwritten"} /\ attempt' = attempt + 1 /\ attempt' \in Nat \ {0}
      BY <2>1, <2>5, ForwardKeeps
    <3>2. \A f \in left' : f[1] < attempt' /\ f[2] = "md"
      BY <2>1, <2>3, <2>5, <3>1, AttemptsAssumption DEF Files, Attempts
    <3> QED BY <2>1, <2>3, <2>5, <3>1, <3>2, ForwardKeeps
  <2>6. CASE at' = "unwritten" /\ Removed({"md"}) /\ UNCHANGED attempt
    BY <2>1, <2>3, <2>6
  <2> QED BY <1>5, <2>4, <2>5, <2>6 DEF CreateJson
<1>6. CASE WriteBoth
  <2>1. at = "write" /\ UNCHANGED attempt /\ attempt \in Attempts
    BY <1>6 DEF WriteBoth
  <2>2. CASE at' = "exported" /\ UNCHANGED <<file, left>>
    BY <2>1, <2>2
  <2>3. CASE at' = "unwritten" /\ Removed({"md", "json"})
    <3>1. \A f \in Files : f[2] \in {"md", "json"}
      BY DEF Files
    <3>2. \A f \in Files :
             file[f] = "mine" <=> f \in left \/ (f[1] = attempt /\ f[2] \in {"md", "json"})
      BY <2>1, <3>1
    <3>3. /\ file' \in [Files -> {"none", "mine", "other"}] /\ left' \subseteq Files
          /\ \A f \in Files : file'[f] = "mine" <=> f \in left'
      BY <2>1, <2>3, <3>2, RemovedKeeps
    <3> QED BY <2>1, <2>3, <3>3
  <2> QED BY <1>6, <2>2, <2>3 DEF WriteBoth
<1>7. CASE Writers
  BY <1>7 DEF Writers, files
<1>8. CASE SomeoneElse
  <2>1. UNCHANGED <<at, attempt, left>>
    BY <1>8 DEF SomeoneElse, reader
  <2>2. PICK f \in Files : file[f] = "none" /\ file' = [file EXCEPT ![f] = "other"]
    BY <1>8 DEF SomeoneElse
  <2> QED BY <2>1, <2>2
<1> QED BY <1>1, <1>2, <1>3, <1>4, <1>5, <1>6, <1>7, <1>8, ReaderSteps DEF Writing

-----------------------------------------------------------------------------
(* What a document says                                                    *)

LEMMA GroundedInit == ReportInit => Grounded
BY DEF ReportInit, Grounded, NoDoc, NoRequest

(* Commits leave true what the document has taken from verdicts.           *)
LEMMA WritersKeepGrounded ==
    ASSUME Database, ReaderType, Grounded, Writers PROVE Grounded'
<1>1. UNCHANGED <<at, request, doc>> /\ Next
  BY DEF Writers
<1>2. \A c \in Checks : verdict[c] # "none" => verdict'[c] = verdict[c]
  BY <1>1, VerdictStays DEF Database, Sound, TypeOK
<1>3. /\ doc.notObserved \subseteq Checks /\ \A g \in doc.gaps : g.check \in Checks
      /\ \A i \in doc.items : i.by \in Checks \cup {NoCheck}
  BY DEF ReaderType, Documents, Gaps
<1>4. Confirmed' = Confirmed /\ \A f : Backed(f)' <=> Backed(f)
  BY <1>1 DEF Confirmed, Listed, Backed, ItemsOf
<1> QED BY <1>1, <1>2, <1>3, <1>4 DEF Grounded, OfAssessment

LEMMA QueriesKeepGrounded ==
    ASSUME Database, ReaderType, Grounded, Query PROVE Grounded'
<1>1. UNCHANGED <<request, verdict>> /\ (OfAssessment' <=> OfAssessment)
  BY QueriesKeep DEF vars, verification, OfAssessment
<1> USE <1>1
<1>2. CASE QueryProject \/ QueryLinks \/ QueryTargets \/ QueryHits \/ QueryFindings \/ CountTraffic
  <2>1. at' \notin {"range", "events", "built"}
    BY <1>2 DEF QueryProject, QueryLinks, QueryTargets, QueryHits, QueryFindings, CountTraffic, Goto
  <2>2. /\ UNCHANGED <<doc.notObserved, doc.gaps, doc.items, doc.raw>>
    BY <1>2 DEF QueryProject, QueryLinks, QueryTargets, QueryHits, QueryFindings, CountTraffic,
                ReaderType, Documents
  <2> QED BY <2>1, <2>2 DEF Grounded
<1>3. CASE QueryNotObserved
  <2>1. at' = "gaps" /\ doc' = [doc EXCEPT !.notObserved = ClearChecks]
    BY <1>3 DEF QueryNotObserved, Goto
  <2>2. /\ doc'.notObserved = ClearChecks
        /\ UNCHANGED <<doc.gaps, doc.items, doc.raw>>
    BY <2>1 DEF ReaderType, Documents
  <2> QED BY <2>1, <2>2 DEF Grounded, ClearChecks
<1>4. CASE QueryGaps \/ QueryIncomplete
  <2>1. /\ at' \in {"incomplete", "findings"}
        /\ UNCHANGED <<doc.notObserved, doc.items, doc.raw>>
        /\ doc'.gaps \subseteq Noted \/ doc'.gaps \subseteq doc.gaps \cup Incomplete
    BY <1>4 DEF QueryGaps, QueryIncomplete, Goto, ReaderType, Documents
  <2>2. \A g \in Noted : /\ g.check \in Checks
                         /\ \/ /\ g.why = "human_judgement_conflict"
                               /\ verdict[g.check] \in {"suspected", "confirmed"}
                            \/ g.why = "resource_ownership_missing" /\ verdict[g.check] = "suspected"
    BY DEF Noted, Gap, Database, Judged, ReaderType, Requests
  <2>3. \A g \in Incomplete : /\ g.why = "verification_incomplete"
                              /\ verdict[g.check] = "clear" /\ g.check \in request.unsure
    BY DEF Incomplete, Gap
  <2> QED BY <2>1, <2>2, <2>3 DEF Grounded
<1>5. CASE QueryEvidence
  <2> DEFINE shown == {e \in EvidenceIds : Exists(eFinding[e]) /\ InScope(e)}
  <2>1. doc' = [doc EXCEPT !.items = {Item(e) : e \in shown}, !.raw = RawOf(shown)]
    BY <1>5 DEF QueryEvidence
  <2>2. at' \notin {"range", "events"} /\ (at' = "built" => ~OfAssessment)
    BY <1>5 DEF QueryEvidence, Goto, OfAssessment
  <2>3. /\ doc'.items = {Item(e) : e \in shown} /\ doc'.raw = RawOf(shown)
        /\ UNCHANGED <<doc.notObserved, doc.gaps>>
    BY <2>1 DEF ReaderType, Documents
  <2>4. RawOf(shown) # {} => request.raw
    BY DEF RawOf
  <2>5. \A e \in EvidenceIds : Item(e).by # NoCheck =>
           verdict[Item(e).by] = "confirmed"
           \/ (verdict[Item(e).by] = "suspected" /\ ~Item(e).accepted)
    BY DEF Item, Database, Judged, Sound, VerifierAuthority
  <2> HIDE DEF shown
  <2>6. shown \subseteq EvidenceIds
    BY DEF shown
  <2>7. \A i \in doc'.items : i.by # NoCheck =>
           verdict[i.by] = "confirmed" \/ (verdict[i.by] = "suspected" /\ ~i.accepted)
    BY <2>3, <2>5, <2>6
  <2> QED BY <2>2, <2>3, <2>4, <2>7 DEF Grounded
<1>6. CASE Compose
  <2>1. UNCHANGED doc /\ at' \in {"range", "refused"}
        /\ (at' = "range" => \A f \in Confirmed : Backed(f))
    BY <1>6 DEF Compose, Goto
  <2>2. Confirmed' = Confirmed /\ \A f : Backed(f)' <=> Backed(f)
    BY <2>1 DEF Confirmed, Listed, Backed, ItemsOf
  <2> QED BY <2>1, <2>2 DEF Grounded
<1>7. CASE TrafficRange \/ QueryEvents
  <2>1. /\ at \in {"range", "events"}
        /\ UNCHANGED <<doc.notObserved, doc.gaps, doc.items, doc.raw, doc.rows>>
    BY <1>7 DEF TrafficRange, QueryEvents, Goto, ReaderType, Documents
  <2>2. Confirmed' = Confirmed /\ \A f : Backed(f)' <=> Backed(f)
    BY <2>1 DEF Confirmed, Listed, Backed, ItemsOf
  <2> QED BY <2>1, <2>2 DEF Grounded
<1> QED BY <1>2, <1>3, <1>4, <1>5, <1>6, <1>7 DEF Query

LEMMA KeepsGrounded ==
    ASSUME Database, ReaderType, Grounded, ReportNext PROVE Grounded'
<1>1. ASSUME doc' = NoDoc, at' \notin {"range", "events", "built"} PROVE Grounded'
  BY <1>1 DEF Grounded, NoDoc
<1>2. CASE Begin \/ Confirm \/ Cancel
  <2>1. UNCHANGED doc /\ at \in {"idle", "dialog"} /\ at' \notin {"range", "events", "built"}
    BY <1>2 DEF Begin, Confirm, Cancel, Goto
  <2> QED BY <1>1, <2>1 DEF ReaderType
<1>3. CASE Serialize
  BY <1>1, <1>3 DEF Serialize
<1>4. CASE Writing /\ ~Serialize
  <2>1. UNCHANGED <<verdict, request, doc>> /\ at' \notin {"range", "events", "built"}
    BY <1>4, WritingKeeps DEF vars, verification
  <2> QED BY <2>1 DEF Grounded
<1>5. CASE SomeoneElse
  <2>1. UNCHANGED <<verdict, request, doc, at>>
    BY <1>5 DEF SomeoneElse, reader, vars, verification
  <2> QED BY <2>1 DEF Grounded, OfAssessment, Confirmed, Listed, Backed, ItemsOf
<1> QED BY <1>2, <1>3, <1>4, <1>5, ReaderSteps, WritersKeepGrounded, QueriesKeepGrounded

-----------------------------------------------------------------------------
(* A report nobody has disturbed                                           *)

LEMMA CalmInit == ReportInit => Current /\ CalmEnds
BY DEF ReportInit, Current, CalmEnds, OfAssessment, NoRequest

(* What a query reads does not change with the reader's own step.          *)
LEMMA SameAnswers ==
    ASSUME UNCHANGED <<vars, request>>
    PROVE  /\ OfAssessment' <=> OfAssessment
           /\ \A S : Rows(S)' = Rows(S)
           /\ Wanted' = Wanted
           /\ Attached' = Attached /\ OfRules' = OfRules
           /\ \A f : Exists(f)' <=> Exists(f)
           /\ UNCHANGED <<producer, status, eFinding, traffic, project>>
BY DEF vars, finding, evidence, verification, OfAssessment, Rows, Wanted, Linked, Attached, Item,
       OfRules, OfTraffic, Exists, Verifications

(* A commit is counted while a report is put together.                     *)
LEMMA WritersKeepCalm ==
    ASSUME ReaderType, Current, CalmEnds, Writers PROVE Current' /\ CalmEnds'
<1>1. UNCHANGED <<at, request, doc>> /\ at \in {"idle", "dialog"} \cup Querying
  BY DEF Writers
<1>2. at \in Querying => writes' # 0
  BY DEF Writers, ReaderType
<1>3. CASE at \in Querying
  BY <1>2, <1>3 DEF Current, CalmEnds
<1>4. CASE at \in {"idle", "dialog"}
  BY <1>1, <1>4 DEF Current, CalmEnds, Counted, Selected, Collected, Matched
<1> QED BY <1>1, <1>3, <1>4

(* A confirmed row has a supporting item: the evidence of the database.    *)
LEMMA CurrentIsBacked ==
    ASSUME Database, ReaderType, Current, writes = 0, OfAssessment, at = "compose"
    PROVE  \A f \in Confirmed : Backed(f)
<1> SUFFICES ASSUME NEW f \in Confirmed PROVE Backed(f)
  OBVIOUS
<1>1. doc.rows = Rows(Wanted)
      /\ doc.items = Attached
  BY DEF Current, Selected, Collected
<1>2. f \in FindingIds /\ Exists(f) /\ status[f] = "confirmed"
  BY <1>1 DEF Confirmed, Listed, Rows, Wanted, Linked, Exists
<1>3. PICK e \in EvidenceIds : eFinding[e] = f /\ eAccepted[e] /\ eGood[e]
  BY <1>2 DEF Database, Sound, ConfirmedIsSupported, Support, EvidenceOf
<1>4. Item(e) \in doc.items
  BY <1>1, <1>2, <1>3 DEF Attached
<1>5. Item(e).f = f /\ Item(e).accepted /\ Item(e).good
  BY <1>3 DEF Item
<1> QED BY <1>4, <1>5 DEF Backed, ItemsOf

(* Each query answers what the database holds, and keeps earlier answers.  *)
LEMMA QueriesKeepCalm ==
    ASSUME Database, ReaderType, Current, CalmEnds, Query PROVE Current' /\ CalmEnds'
<1>1. UNCHANGED <<vars, request, writes>>
  BY QueriesKeep
<1> USE DEF Counted, Selected, Collected, Matched
<1>2. CASE QueryProject
  <2>1. /\ at' \in {"failed", "count", "findings"} /\ UNCHANGED doc
        /\ at' = "failed" => project = "deleted"
        /\ at' = "findings" => ~OfAssessment
    BY <1>2 DEF QueryProject, Goto, OfAssessment
  <2> QED BY <1>1, <2>1, SameAnswers DEF Current, CalmEnds
<1>3. CASE CountTraffic
  <2>1. at' = "outcomes" /\ doc' = [doc EXCEPT !.traffic = traffic = "kept"]
    BY <1>3 DEF CountTraffic, Goto
  <2>2. doc'.traffic = (traffic = "kept")
    BY <2>1 DEF ReaderType, Documents
  <2> QED BY <1>1, <2>1, <2>2, SameAnswers DEF Current, CalmEnds
<1>4. CASE QueryNotObserved \/ QueryGaps \/ QueryIncomplete
  <2>1. /\ at \in {"outcomes", "gaps", "incomplete"} /\ at' \in {"gaps", "incomplete", "findings"}
        /\ doc'.traffic = doc.traffic
    BY <1>4 DEF QueryNotObserved, QueryGaps, QueryIncomplete, Goto, ReaderType, Documents
  <2> QED BY <1>1, <2>1, SameAnswers DEF Current, CalmEnds
<1>5. CASE QueryFindings
  <2>1. /\ at = "findings" /\ at' \in {"evidence", "links", "targets"}
        /\ OfAssessment /\ at' = "targets" => request.scope = "project"
        /\ OfAssessment => at' \in {"links", "targets"}
    BY <1>5 DEF QueryFindings, Goto, OfAssessment
  <2>2. /\ doc'.traffic = doc.traffic /\ doc'.by = producer
        /\ OfAssessment => doc'.rows = Rows(FindingIds)
    BY <1>5 DEF QueryFindings, Goto, ReaderType, Documents, OfAssessment
  <2>3. OfAssessment /\ at' = "targets" => Wanted = FindingIds
    BY <2>1 DEF Wanted
  <2> QED BY <1>1, <2>1, <2>2, <2>3, SameAnswers DEF Current, CalmEnds
<1>6. CASE QueryLinks
  <2>1. at = "links" /\ at' = "targets" /\ doc' = [doc EXCEPT !.rows = Retained]
    BY <1>6 DEF QueryLinks, Goto
  <2>2. doc'.traffic = doc.traffic /\ doc'.by = doc.by /\ doc'.rows = Retained
    BY <2>1 DEF ReaderType, Documents
  <2>3. doc.rows = Rows(FindingIds) => Retained = Rows(Wanted)
    BY <2>1 DEF Retained, Rows, Wanted, Linked, ReaderType
  <2> QED BY <1>1, <2>1, <2>2, <2>3, SameAnswers DEF Current, CalmEnds
<1>7. CASE QueryTargets
  <2>1. at = "targets" /\ at' = "evidence"
    BY <1>7 DEF QueryTargets, Goto
  <2>2. doc'.traffic = doc.traffic /\ doc'.by = doc.by /\ doc'.rows = doc.rows
    BY <1>7 DEF QueryTargets, ReaderType, Documents
  <2> QED BY <1>1, <2>1, <2>2, SameAnswers DEF Current, CalmEnds
<1>8. CASE QueryEvidence
  <2>1. at = "evidence" /\ (OfAssessment => at' = "hits") /\ at' \in {"hits", "built"}
    BY <1>8 DEF QueryEvidence, Goto, OfAssessment
  <2>2. doc'.traffic = doc.traffic /\ doc'.by = doc.by /\ doc'.rows = doc.rows
    BY <1>8 DEF QueryEvidence, ReaderType, Documents
  <2>3. doc'.items = {Item(e) : e \in {e \in EvidenceIds : Exists(eFinding[e]) /\ InScope(e)}}
    BY <1>8 DEF QueryEvidence, ReaderType, Documents
  <2>4. OfAssessment => \A e : InScope(e)
    BY DEF InScope, OfAssessment
  <2>5. OfAssessment => doc'.items = Attached
    BY <2>3, <2>4 DEF Attached
  <2> QED BY <1>1, <2>1, <2>2, <2>5, SameAnswers DEF Current, CalmEnds
<1>9. CASE QueryHits
  <2>1. at = "hits" /\ at' = "compose" /\ doc' = [doc EXCEPT !.hits = OfRules]
    BY <1>9 DEF QueryHits, Goto, OfRules
  <2>2. /\ doc'.traffic = doc.traffic /\ doc'.by = doc.by /\ doc'.rows = doc.rows
        /\ doc'.items = doc.items
        /\ doc'.hits = OfRules
    BY <2>1 DEF ReaderType, Documents
  <2> QED BY <1>1, <2>1, <2>2, SameAnswers DEF Current, CalmEnds
<1>10. CASE Compose
  <2>1. at = "compose" /\ at' \in {"range", "refused"} /\ UNCHANGED doc
        /\ (at' = "refused" => ~\A f \in Confirmed : Backed(f))
    BY <1>10 DEF Compose, Goto
  <2>2. OfAssessment
    BY <2>1, ScopesAssumption DEF ReaderType, Querying, MissionStages, OfAssessment
  <2>3. writes = 0 => at' # "refused"
    BY <2>1, <2>2, CurrentIsBacked
  <2>4. CalmEnds'
    BY <1>1, <2>1, <2>3 DEF CalmEnds
  <2>5. Current'
    BY <1>1, <2>1, SameAnswers DEF Current
  <2> QED BY <2>4, <2>5
<1>11. CASE TrafficRange
  <2>1. /\ at = "range" /\ UNCHANGED doc /\ at' \in {"failed", "events"}
        /\ at' = "failed" => doc.traffic /\ traffic = "cleared"
    BY <1>11 DEF TrafficRange, Goto
  <2>2. OfAssessment
    BY <2>1, ScopesAssumption DEF ReaderType, Querying, MissionStages, OfAssessment
  <2>3. writes = 0 => at' # "failed"
    BY <2>1, <2>2 DEF Current
  <2>4. CalmEnds'
    BY <1>1, <2>1, <2>3 DEF CalmEnds
  <2>5. Current'
    BY <1>1, <2>1, SameAnswers DEF Current
  <2> QED BY <2>4, <2>5
<1>12. CASE QueryEvents
  <2>1. at = "events" /\ at' = "built" /\ doc' = [doc EXCEPT !.told = Told]
    BY <1>12 DEF QueryEvents, Goto
  <2>2. /\ doc'.traffic = doc.traffic /\ doc'.by = doc.by /\ doc'.rows = doc.rows
        /\ doc'.items = doc.items /\ doc'.hits = doc.hits /\ doc'.told = Told
    BY <2>1 DEF ReaderType, Documents
  <2>3. Told' = Told
    BY <1>1, <2>2, SameAnswers DEF Told, Listed
  <2> QED BY <1>1, <2>1, <2>2, <2>3, SameAnswers DEF Current, CalmEnds
<1> QED BY <1>2, <1>3, <1>4, <1>5, <1>6, <1>7, <1>8, <1>9, <1>10, <1>11, <1>12 DEF Query

LEMMA KeepsCalm ==
    ASSUME Database, ReaderType, Current, CalmEnds, ReportNext PROVE Current' /\ CalmEnds'
<1> USE DEF Counted, Selected, Collected, Matched
<1>1. CASE Begin \/ Confirm \/ Cancel
  <2>1. at' \in {"dialog", "project", "cancelled"}
    BY <1>1 DEF Begin, Confirm, Cancel, Goto
  <2> QED BY <2>1 DEF Current, CalmEnds
<1>2. CASE Writing
  <2>1. at' \in {"create", "json", "write", "unwritten", "exported"}
    BY <1>2, WritingKeeps
  <2> QED BY <2>1 DEF Current, CalmEnds
<1>3. CASE SomeoneElse
  <2>1. at \in {"create", "json", "write"} /\ UNCHANGED at
    BY <1>3 DEF SomeoneElse, reader
  <2> QED BY <2>1 DEF Current, CalmEnds
<1> QED BY <1>1, <1>2, <1>3, ReaderSteps, WritersKeepCalm, QueriesKeepCalm

(* An undisturbed report, finished, says what the database says.           *)
LEMMA CurrentIsComplete ==
    ASSUME Database, ReaderType, Current, at = "built", writes = 0, OfAssessment
    PROVE  Complete
<1>1. /\ doc.traffic = (traffic = "kept")
      /\ doc.rows = Rows(Wanted) /\ doc.by = producer
      /\ doc.items = Attached
      /\ doc.hits = OfRules
      /\ doc.told = Told
  BY DEF Current, Counted, Selected, Collected, Matched, ReaderType, Documents
<1>2. \A f \in FindingIds :
         doc.rows[f] = IF f \in Wanted /\ Exists(f) THEN status[f] ELSE "absent"
  BY <1>1 DEF Rows
<1>3. Wanted \subseteq FindingIds
  BY DEF Wanted, Linked
<1>4. Listed = {f \in Wanted : status[f] \in {"pending", "confirmed"}}
  BY <1>2, <1>3 DEF Listed, Exists, Present
<1>5. Confirmed = {f \in Wanted : status[f] = "confirmed"}
  BY <1>2, <1>3, <1>4 DEF Confirmed, Exists, Present
<1>6. Pending = {f \in Wanted : status[f] = "pending"}
  BY <1>4, <1>5 DEF Pending
<1>7. \A f \in Listed : f \in FindingIds /\ Exists(f)
  BY <1>3, <1>4 DEF Exists, Present
<1>8. Suspected = {f \in Pending : \E c \in Checks : vFinding[c] = f}
  <2>1. ASSUME NEW f \in Pending
        PROVE  doc.by[f] = "safe_verifier" <=> \E c \in Checks : vFinding[c] = f
    <3>1. f \in FindingIds /\ Exists(f)
      BY <1>7 DEF Pending
    <3> QED BY <1>1, <3>1, NoFindingAssumption DEF Database, Authored, Verifications
  <2> QED BY <2>1 DEF Suspected
<1>9. ASSUME NEW f \in Confirmed
      PROVE  /\ {i.e : i \in {j \in ItemsOf(f) : j.accepted /\ j.good}} = Support(f)
             /\ NeedsHumanReview(f) <=> \A e \in Support(f) : eCheck[e] = NoCheck
  <2>1. f \in FindingIds /\ Exists(f)
    BY <1>7 DEF Confirmed
  <2>2. \A e \in EvidenceIds : /\ Item(e).e = e /\ Item(e).f = eFinding[e]
                               /\ Item(e).accepted = eAccepted[e] /\ Item(e).good = eGood[e]
                               /\ Item(e).by = eCheck[e]
    BY DEF Item
  <2> DEFINE backing == {j \in ItemsOf(f) : j.accepted /\ j.good}
  <2>3. \A e \in Support(f) : Item(e) \in backing
    BY <1>1, <2>1, <2>2 DEF Support, EvidenceOf, ItemsOf, Attached
  <2>4. \A i \in backing : \E e \in Support(f) : i = Item(e)
    BY <1>1, <2>1, <2>2 DEF Support, EvidenceOf, ItemsOf, Attached
  <2>5. Support(f) \subseteq EvidenceIds
    BY DEF Support, EvidenceOf
  <2>6. NeedsHumanReview(f) <=> \A i \in backing : i.by = NoCheck
    BY DEF NeedsHumanReview
  <2> HIDE DEF backing
  <2>7. {i.e : i \in backing} = Support(f)
    BY <2>2, <2>3, <2>4, <2>5
  <2>8. (\A i \in backing : i.by = NoCheck) <=> \A e \in Support(f) : eCheck[e] = NoCheck
    BY <2>2, <2>3, <2>4, <2>5
  <2> QED BY <2>6, <2>7, <2>8 DEF backing
<1>10. doc.told = Listed
  BY <1>1, <1>4, <1>7 DEF Told
<1>11. "passive_rules" \in Methods <=> Listed \cap doc.hits # {}
  BY DEF Methods
<1>12. \A f \in Listed : f \in doc.hits <=> key[f] \in RuleKeys
  BY <1>1, <1>7 DEF Database, Authored, OfRules
<1>13. "bounded_traffic_capture" \in Methods <=> traffic = "kept"
  BY <1>1 DEF Methods
<1> QED BY <1>5, <1>6, <1>8, <1>9, <1>10, <1>11, <1>12, <1>13 DEF Complete

-----------------------------------------------------------------------------

ReportHolds == Database /\ ReaderType /\ Paired /\ Grounded /\ Current /\ CalmEnds

LEMMA InitReport == ReportInit => ReportHolds
<1> SUFFICES ASSUME ReportInit PROVE ReportHolds
  OBVIOUS
<1>1. ReaderType
  BY DEF ReportInit, ReaderType, Stages, NoDoc, NoRequest, Documents, Requests, Present, Querying
<1>2. Database
  BY InitDatabase DEF ReportInit
<1> QED BY <1>1, <1>2, PairInit, GroundedInit, CalmInit DEF ReportHolds

LEMMA NextReport == ReportHolds /\ [ReportNext]_reportVars => ReportHolds'
<1> SUFFICES ASSUME ReportHolds, [ReportNext]_reportVars PROVE ReportHolds'
  OBVIOUS
<1>1. CASE ReportNext
  <2>1. [Next]_vars
    BY <1>1, ReaderReads DEF Writers
  <2>2. Database'
    BY <2>1, NextDatabase DEF ReportHolds
  <2>3. ColumnType
    BY DEF ReportHolds, Database, Sound, TypeOK
  <2> QED BY <1>1, <2>2, <2>3, KeepsReaderType, KeepsPaired, KeepsGrounded, KeepsCalm
          DEF ReportHolds
<1>2. CASE UNCHANGED reportVars
  <2> USE <1>2 DEF reportVars, reader, files
  <2>1. Database'
    BY NextDatabase DEF ReportHolds
  <2>2. ReaderType' /\ Paired'
    BY DEF ReportHolds, ReaderType, Paired, FilesType, OwnFiles
  <2>3. Grounded'
    BY DEF ReportHolds, Grounded, vars, verification, OfAssessment, Confirmed, Listed, Backed,
           ItemsOf
  <2>4. Told' = Told
    BY SameAnswers DEF Told, Listed
  <2>5. Current' /\ CalmEnds'
    BY <2>4, SameAnswers DEF ReportHolds, Current, CalmEnds
  <2> QED BY <2>1, <2>2, <2>3, <2>5 DEF ReportHolds
<1> QED BY <1>1, <1>2

LEMMA AlwaysReport == ReportSpec => []ReportHolds
BY InitReport, NextReport, PTL DEF ReportSpec

(* An export hands out the two files it has made under one name, whoever   *)
(* makes files of these names meanwhile; any other file of it, and any     *)
(* file of an export that failed, is one the system refused to remove.     *)
THEOREM PairsAreWhole == ReportSpec => []PairIsWhole
<1>1. ReportHolds => PairIsWhole
  BY DEF ReportHolds, Paired, OwnFiles, PairIsWhole
<1> QED BY <1>1, AlwaysReport, PTL

(* Whatever is committed between its queries, an assessment report backs   *)
(* what it calls confirmed and contradicts itself nowhere: nothing is both *)
(* a gap and not observed, and evidence of a check among the gaps is shown *)
(* as accepted only beside the note that a person thought otherwise.       *)
THEOREM ReportsAreSound == ReportSpec => []ReportIsSound
<1>1. ReportHolds => ReportIsSound
  <2> SUFFICES ASSUME ReportHolds, at = "built", OfAssessment
               PROVE  /\ \A f \in Confirmed : \E i \in doc.items : i.f = f /\ i.accepted /\ i.good
                      /\ \A g \in doc.gaps : g.check \notin doc.notObserved
                      /\ \A i \in doc.items : i.by \notin doc.notObserved
                      /\ \A i \in doc.items, g \in doc.gaps : g.check = i.by =>
                            /\ g.why # "verification_incomplete"
                            /\ i.accepted => g.why = "human_judgement_conflict"
                      /\ doc.raw # {} => request.raw
    BY DEF ReportIsSound
  <2>1. \A f \in Confirmed : \E i \in doc.items : i.f = f /\ i.accepted /\ i.good
    BY DEF ReportHolds, Grounded, Backed, ItemsOf
  <2>2. doc.raw # {} => request.raw
    BY DEF ReportHolds, Grounded
  <2>3. \A g \in doc.gaps : g.check \notin doc.notObserved
    BY DEF ReportHolds, Grounded
  <2>4. NoCheck \notin doc.notObserved /\ \A g \in doc.gaps : g.check # NoCheck
    BY NoCheckAssumption DEF ReportHolds, ReaderType, Documents, Gaps
  <2>5. \A i \in doc.items : i.by \notin doc.notObserved
    BY <2>4 DEF ReportHolds, Grounded
  <2>6. ASSUME NEW i \in doc.items, NEW g \in doc.gaps, g.check = i.by
        PROVE  /\ g.why # "verification_incomplete"
               /\ i.accepted => g.why = "human_judgement_conflict"
    <3>1. verdict[i.by] = "confirmed" \/ (verdict[i.by] = "suspected" /\ ~i.accepted)
      BY <2>4, <2>6 DEF ReportHolds, Grounded
    <3> QED BY <2>6, <3>1 DEF ReportHolds, Grounded
  <2> QED BY <2>1, <2>2, <2>3, <2>5, <2>6
<1> QED BY <1>1, AlwaysReport, PTL

(* A report nobody disturbs is put together, and says of every finding in  *)
(* its scope what the database says.                                       *)
THEOREM CalmReportsAreComplete == ReportSpec => []CalmReportIsComplete
<1>1. ReportHolds => CalmReportIsComplete
  BY CurrentIsComplete DEF ReportHolds, CalmEnds, CalmReportIsComplete
<1> QED BY <1>1, AlwaysReport, PTL

-----------------------------------------------------------------------------
(* Analysis: a call from its preview to its end                            *)

CallFields == {"stage", "approved", "provider", "prompt", "sent", "round", "try", "kept"}

Before == {"none", "previewed", "enabled", "provider", "prompt"}

CallStages ==
    Before \cup {"asking", "valid", "invalid", "saved", "refused", "failed", "lost"}

CallShape(r) ==
    /\ r = [f \in CallFields |-> r[f]]
    /\ r.stage \in CallStages
    /\ r.round \in {1, 2}

(* A prompt that is still to be answered has not been charged for.         *)
Unbilled(r, b) ==
    /\ b \in [1 .. 2 -> {0, 1}]
    /\ r.stage \in Before => r.round = 1 /\ b[1] = 0 /\ b[2] = 0
    /\ r.stage = "asking" => b[r.round] = 0 /\ (r.round = 1 => b[2] = 0)

(* What was sent was approved; before the exchange is read nothing was.    *)
Asked(r) ==
    /\ r.stage \in Before => r.sent = NoContext
    /\ r.sent # NoContext => r.sent = r.approved

CallHolds(r, b) == CallShape(r) /\ Unbilled(r, b) /\ Asked(r)

CallsHold ==
    /\ call = [c \in Calls |-> call[c]]
    /\ billed = [c \in Calls |-> billed[c]]
    /\ \A c \in Calls : CallHolds(call[c], billed[c])

(* Runs, cache, hypotheses and usage.                                      *)
Answered == {c \in Calls : run[c] # "none"}

StoreHolds ==
    /\ run \in [Calls -> {"none", "valid", "invalid"}]
    /\ hypothesis \in [Calls -> {"none", "open", "touched"}]
    /\ cache \in Calls \cup {NoCall}
    /\ \A c \in Calls :
          /\ hypothesis[c] = "open" => cache = c \/ ~exchange.kept
          /\ hypothesis[c] # "none" => run[c] = "valid"
          /\ call[c].stage = "saved" <=> run[c] # "none"
    /\ cache # NoCall => run[cache] = "valid"
    /\ IsFiniteSet(Answered) /\ usage = Cardinality(Answered)

ExchangeShape ==
    exchange = [request |-> exchange.request, response |-> exchange.response,
                tags |-> exchange.tags, kept |-> exchange.kept]

AnalysisHolds == CallsHold /\ ExchangeShape /\ StoreHolds

LEMMA AnalysisInitHolds == AnalysisInit => AnalysisHolds
<1> SUFFICES ASSUME AnalysisInit PROVE AnalysisHolds
  OBVIOUS
<1>1. CallsHold
  <2>1. CallShape(Idle) /\ Asked(Idle)
    BY DEF CallShape, CallFields, Asked, Idle, CallStages, Before
  <2>2. Unbilled(Idle, <<0, 0>>)
    BY DEF Unbilled, Idle, Before
  <2> QED BY <2>1, <2>2 DEF AnalysisInit, CallsHold, CallHolds
<1>2. StoreHolds
  <2>1. Answered = {}
    BY DEF AnalysisInit, Answered
  <2>2. IsFiniteSet(Answered) /\ Cardinality(Answered) = 0
    BY <2>1, FS_EmptySet
  <2> QED BY <2>2 DEF AnalysisInit, StoreHolds, Idle
<1>3. ExchangeShape
  BY DEF AnalysisInit, ExchangeShape
<1> QED BY <1>1, <1>2, <1>3 DEF AnalysisHolds

(* The steps of the user and the rule worker.                              *)
Edits == SwitchAi \/ SelectProvider \/ SavePrompt \/ ResetPrompt \/ StoreTags \/ ClearExchange

LEMMA EditsHold == ASSUME AnalysisHolds, Edits PROVE AnalysisHolds'
<1> USE DEF AnalysisHolds
<1>1. UNCHANGED <<call, billed, run, hypothesis, usage>>
  BY DEF Edits, SwitchAi, SelectProvider, SavePrompt, ResetPrompt, StoreTags, ClearExchange, Edit,
         stored
<1>2. CallsHold'
  BY <1>1 DEF CallsHold
<1>3. Answered' = Answered
  BY <1>1 DEF Answered
<1>4. /\ ExchangeShape'
      /\ \/ exchange'.kept = exchange.kept /\ UNCHANGED cache
         \/ exchange'.kept = FALSE /\ cache' = NoCall
  <2>1. CASE ClearExchange
    BY <2>1 DEF ClearExchange, Edit, ExchangeShape
  <2>2. CASE StoreTags
    BY <2>2 DEF StoreTags, Edit, ExchangeShape, stored
  <2>3. CASE SwitchAi \/ SelectProvider \/ SavePrompt \/ ResetPrompt
    BY <2>3 DEF SwitchAi, SelectProvider, SavePrompt, ResetPrompt, Edit, ExchangeShape, stored
  <2> QED BY <2>1, <2>2, <2>3 DEF Edits
<1>5. StoreHolds'
  <2>1. CASE exchange'.kept = exchange.kept /\ UNCHANGED cache
    BY <1>1, <1>3, <2>1 DEF StoreHolds
  <2>2. CASE exchange'.kept = FALSE /\ cache' = NoCall
    BY <1>1, <1>3, <2>2 DEF StoreHolds
  <2> QED BY <1>4, <2>1, <2>2
<1> QED BY <1>2, <1>4, <1>5

LEMMA TouchHolds ==
    ASSUME AnalysisHolds, NEW c \in Calls, Touch(c) PROVE AnalysisHolds'
<1>1. UNCHANGED <<call, billed, run, cache, usage, exchange>>
      /\ hypothesis[c] = "open" /\ hypothesis' = [hypothesis EXCEPT ![c] = "touched"]
  BY DEF Touch, inputs
<1>2. Answered' = Answered
  BY <1>1 DEF Answered
<1> QED BY <1>1, <1>2 DEF AnalysisHolds, CallsHold, ExchangeShape, StoreHolds

(* A step of one call leaves the others alone; unless it saves, what is    *)
(* stored stays as it is.                                                  *)
Moves(c, r, b) ==
    /\ call' = [d \in Calls |-> IF d = c THEN r ELSE call[d]]
    /\ billed' = [d \in Calls |-> IF d = c THEN b ELSE billed[d]]
    /\ CallHolds(r, b)

LEMMA MovesHold ==
    ASSUME CallsHold, NEW c \in Calls, NEW r, NEW b, Moves(c, r, b) PROVE CallsHold'
BY DEF CallsHold, Moves

LEMMA UnsavedHolds ==
    ASSUME AnalysisHolds, NEW c \in Calls, NEW r, NEW b, Moves(c, r, b),
           UNCHANGED <<exchange, stored>>, call[c].stage # "saved", r.stage # "saved"
    PROVE  AnalysisHolds'
<1>1. CallsHold'
  BY MovesHold DEF AnalysisHolds
<1>2. \A d \in Calls : call'[d].stage = "saved" <=> call[d].stage = "saved"
  BY DEF Moves, AnalysisHolds, CallsHold
<1>3. Answered' = Answered
  BY DEF Answered, stored
<1> QED BY <1>1, <1>2, <1>3 DEF AnalysisHolds, ExchangeShape, StoreHolds, stored

(* A call that is over asks nothing more.                                  *)
LEMMA OverHolds ==
    ASSUME NEW stage \in {"refused", "failed", "lost", "saved"}, NEW b \in [1 .. 2 -> {0, 1}]
    PROVE  CallHolds(Over(stage), b) /\ Over(stage).stage = stage
BY DEF Over, Idle, CallHolds, CallShape, CallFields, Unbilled, Asked, CallStages, Before

(* A call that goes on: to the next read, ...                              *)
LEMMA ReadsOn ==
    ASSUME NEW r, NEW b, CallHolds(r, b), r.stage \in Before,
           NEW s \in Before, NEW v
    PROVE  /\ CallHolds([r EXCEPT !.stage = s], b)
           /\ CallHolds([r EXCEPT !.stage = s, !.approved = v], b)
           /\ CallHolds([r EXCEPT !.stage = s, !.provider = v], b)
           /\ CallHolds([r EXCEPT !.stage = s, !.prompt = v], b)
BY DEF CallHolds, CallShape, CallFields, Unbilled, Asked, CallStages, Before

(* ... to the request, when what was read is what was approved, ...        *)
LEMMA AsksNow ==
    ASSUME NEW r, NEW b, CallHolds(r, b), r.stage \in Before
    PROVE  CallHolds([r EXCEPT !.stage = "asking", !.sent = r.approved], b)
BY DEF CallHolds, CallShape, CallFields, Unbilled, Asked, CallStages, Before

(* ... to another try, which was not charged for, ...                      *)
LEMMA TriesAgain ==
    ASSUME NEW r, NEW b, CallHolds(r, b), NEW n
    PROVE  CallHolds([r EXCEPT !.try = n], b)
BY DEF CallHolds, CallShape, CallFields, Unbilled, Asked, CallStages, Before

(* ... to the second prompt, ...                                           *)
LEMMA AsksTwice ==
    ASSUME NEW r, NEW b, CallHolds(r, b), r.stage = "asking", r.round = 1, NEW n
    PROVE  CallHolds([r EXCEPT !.round = 2, !.try = n], [b EXCEPT ![1] = @ + 1])
<1>1. b \in [1 .. 2 -> {0, 1}] /\ b[1] = 0 /\ b[2] = 0
  BY DEF CallHolds, Unbilled
<1>2. [b EXCEPT ![1] = @ + 1] \in [1 .. 2 -> {0, 1}] /\ [b EXCEPT ![1] = @ + 1][2] = 0
  BY <1>1
<1> QED BY <1>2 DEF CallHolds, CallShape, CallFields, Unbilled, Asked, CallStages, Before

(* ... or to the transaction.                                              *)
LEMMA IsAnswered ==
    ASSUME NEW r, NEW b, CallHolds(r, b), NEW a \in [1 .. 2 -> {0, 1}],
           NEW s \in {"valid", "invalid"}, NEW v
    PROVE  /\ CallHolds([r EXCEPT !.stage = s], a)
           /\ CallHolds([r EXCEPT !.stage = s, !.kept = v], a)
BY DEF CallHolds, CallShape, CallFields, Unbilled, Asked, CallStages, Before

(* A step that is not charged for.                                         *)
LEMMA FreeStepHolds ==
    ASSUME AnalysisHolds, NEW c \in Calls, NEW r,
           call' = [d \in Calls |-> IF d = c THEN r ELSE call[d]],
           UNCHANGED <<inputs, billed, stored>>,
           CallHolds(r, billed[c]), call[c].stage # "saved", r.stage # "saved"
    PROVE  AnalysisHolds'
<1>1. Moves(c, r, billed[c])
  BY DEF Moves, AnalysisHolds, CallsHold
<1>2. UNCHANGED <<exchange, stored>>
  BY DEF inputs
<1> QED BY <1>1, <1>2, UnsavedHolds

(* The preview and the reads up to the request.                            *)
LEMMA ReadsHold ==
    ASSUME AnalysisHolds, NEW c \in Calls,
           Preview(c) \/ ReadEnabled(c) \/ ReadProvider(c) \/ ReadPrompt(c) \/ ReadExchange(c)
    PROVE  AnalysisHolds'
<1>1. CallsHold /\ CallHolds(call[c], billed[c]) /\ billed[c] \in [1 .. 2 -> {0, 1}]
  BY DEF AnalysisHolds, CallsHold, CallHolds, Unbilled
<1>2. UNCHANGED <<inputs, billed, stored>> /\ call[c].stage \in Before
  BY DEF Preview, ReadEnabled, ReadProvider, ReadPrompt, ReadExchange, Move, Before
<1>3. ASSUME NEW r, call' = [d \in Calls |-> IF d = c THEN r ELSE call[d]],
             CallHolds(r, billed[c]), r.stage # "saved"
      PROVE  AnalysisHolds'
  BY <1>2, <1>3, FreeStepHolds DEF Before
<1>4. CASE call' = [call EXCEPT ![c] = Over("refused")]
  <2>1. call' = [d \in Calls |-> IF d = c THEN Over("refused") ELSE call[d]]
    BY <1>1, <1>4 DEF CallsHold
  <2>2. CallHolds(Over("refused"), billed[c]) /\ Over("refused").stage = "refused"
    BY <1>1, OverHolds
  <2> QED BY <1>3, <2>1, <2>2
<1>5. CASE Preview(c)
  <2>1. PICK v : call' = [call EXCEPT ![c].stage = "previewed", ![c].approved = v]
    BY <1>5 DEF Preview
  <2> DEFINE r == [call[c] EXCEPT !.stage = "previewed", !.approved = v]
  <2>2. call' = [d \in Calls |-> IF d = c THEN r ELSE call[d]]
    BY <1>1, <2>1 DEF CallsHold
  <2>3. CallHolds(r, billed[c])
    BY <1>1, <1>2, ReadsOn DEF Before
  <2>4. r.stage = "previewed"
    BY <1>1 DEF CallHolds, CallShape, CallFields
  <2> QED BY <1>3, <2>2, <2>3, <2>4
<1>6. CASE ReadEnabled(c)
  <2> DEFINE r == [call[c] EXCEPT !.stage = "enabled"]
  <2>1. call' = [call EXCEPT ![c].stage = "enabled"] \/ call' = [call EXCEPT ![c] = Over("refused")]
    BY <1>6 DEF ReadEnabled, Move
  <2>2. call' = [call EXCEPT ![c].stage = "enabled"] =>
            call' = [d \in Calls |-> IF d = c THEN r ELSE call[d]]
    BY <1>1 DEF CallsHold
  <2>3. CallHolds(r, billed[c])
    BY <1>1, <1>2, ReadsOn DEF Before
  <2>4. r.stage = "enabled"
    BY <1>1 DEF CallHolds, CallShape, CallFields
  <2> QED BY <1>3, <1>4, <2>1, <2>2, <2>3, <2>4
<1>7. CASE ReadProvider(c)
  <2> DEFINE r == [call[c] EXCEPT !.stage = "provider", !.provider = settings.provider]
  <2>1. \/ call' = [call EXCEPT ![c].stage = "provider", ![c].provider = settings.provider]
        \/ call' = [call EXCEPT ![c] = Over("refused")]
    BY <1>7 DEF ReadProvider, Move
  <2>2. call' = [call EXCEPT ![c].stage = "provider", ![c].provider = settings.provider] =>
            call' = [d \in Calls |-> IF d = c THEN r ELSE call[d]]
    BY <1>1 DEF CallsHold
  <2>3. CallHolds(r, billed[c])
    BY <1>1, <1>2, ReadsOn DEF Before
  <2>4. r.stage = "provider"
    BY <1>1 DEF CallHolds, CallShape, CallFields
  <2> QED BY <1>3, <1>4, <2>1, <2>2, <2>3, <2>4
<1>8. CASE ReadPrompt(c)
  <2> DEFINE r == [call[c] EXCEPT !.stage = "prompt", !.prompt = settings.prompt]
  <2>1. call' = [call EXCEPT ![c].stage = "prompt", ![c].prompt = settings.prompt]
    BY <1>8 DEF ReadPrompt, Move
  <2>2. call' = [d \in Calls |-> IF d = c THEN r ELSE call[d]]
    BY <1>1, <2>1 DEF CallsHold
  <2>3. CallHolds(r, billed[c])
    BY <1>1, <1>2, ReadsOn DEF Before
  <2>4. r.stage = "prompt"
    BY <1>1 DEF CallHolds, CallShape, CallFields
  <2> QED BY <1>3, <2>2, <2>3, <2>4
<1>9. CASE ReadExchange(c)
  <2> DEFINE approved == call[c].approved
             r == [call[c] EXCEPT !.stage = "asking", !.sent = approved]
  <2>1. \/ call' = [call EXCEPT ![c].stage = "asking", ![c].sent = approved]
        \/ call' = [call EXCEPT ![c] = Over("refused")]
    BY <1>9 DEF ReadExchange, Move, IsApproved
  <2>2. call' = [call EXCEPT ![c].stage = "asking", ![c].sent = approved] =>
            call' = [d \in Calls |-> IF d = c THEN r ELSE call[d]]
    BY <1>1 DEF CallsHold
  <2>3. CallHolds(r, billed[c])
    BY <1>1, <1>2, AsksNow
  <2>4. r.stage = "asking"
    BY <1>1 DEF CallHolds, CallShape, CallFields
  <2> QED BY <1>3, <1>4, <2>1, <2>2, <2>3, <2>4
<1> QED BY <1>5, <1>6, <1>7, <1>8, <1>9

(* What a request or its failure charges.                                  *)
LEMMA BillCounts ==
    ASSUME CallsHold, NEW c \in Calls, call[c].stage = "asking", Bill(c)
    PROVE  /\ billed' = [d \in Calls |-> IF d = c THEN [billed[c] EXCEPT ![call[c].round] = @ + 1]
                                         ELSE billed[d]]
           /\ [billed[c] EXCEPT ![call[c].round] = @ + 1] \in [1 .. 2 -> {0, 1}]
<1>1. CallHolds(call[c], billed[c])
  BY DEF CallsHold
<1>2. billed[c] \in [1 .. 2 -> {0, 1}] /\ call[c].round \in 1 .. 2 /\ billed[c][call[c].round] = 0
  BY <1>1 DEF CallHolds, Unbilled, CallShape
<1> DEFINE n == call[c].round
           b == [billed[c] EXCEPT ![n] = @ + 1]
<1>3. b \in [1 .. 2 -> {0, 1}]
  <2>1. b = [i \in 1 .. 2 |-> IF i = n THEN 1 ELSE billed[c][i]]
    BY <1>2
  <2> QED BY <1>2, <2>1
<1>4. billed' = [billed EXCEPT ![c] = b]
  BY DEF Bill
<1> HIDE DEF b
<1>5. billed' = [d \in Calls |-> IF d = c THEN b ELSE billed[d]]
  BY <1>4 DEF CallsHold
<1> QED BY <1>3, <1>5 DEF b

LEMMA FailureHolds ==
    ASSUME AnalysisHolds, NEW c \in Calls, NEW failure, RequestFails(c, failure)
    PROVE  AnalysisHolds'
<1>1. CallsHold /\ CallHolds(call[c], billed[c]) /\ billed[c] \in [1 .. 2 -> {0, 1}]
  BY DEF AnalysisHolds, CallsHold, CallHolds, Unbilled
<1>2. UNCHANGED <<exchange, stored>> /\ call[c].stage = "asking"
  BY DEF RequestFails, inputs
<1>3. CASE Repeated(failure) /\ call[c].try = 1
  <2> DEFINE r == [call[c] EXCEPT !.try = 2]
  <2>1. call' = [call EXCEPT ![c].try = 2] /\ UNCHANGED <<inputs, billed, stored>>
    BY <1>3 DEF RequestFails, Repeated
  <2>2. call' = [d \in Calls |-> IF d = c THEN r ELSE call[d]]
    BY <1>1, <2>1 DEF CallsHold
  <2>3. CallHolds(r, billed[c])
    BY <1>1, TriesAgain
  <2>4. r.stage = "asking"
    BY <1>1, <1>2 DEF CallHolds, CallShape, CallFields
  <2> QED BY <1>2, <2>1, <2>2, <2>3, <2>4, FreeStepHolds
<1>4. CASE ~(Repeated(failure) /\ call[c].try = 1)
  <2>1. PICK b \in [1 .. 2 -> {0, 1}] : billed' = [d \in Calls |-> IF d = c THEN b ELSE billed[d]]
    <3>1. Bill(c) \/ UNCHANGED billed
      BY DEF RequestFails
    <3>2. CASE Bill(c)
      BY <1>1, <1>2, <3>2, BillCounts
    <3>3. CASE UNCHANGED billed
      BY <1>1, <3>3 DEF CallsHold
    <3> QED BY <3>1, <3>2, <3>3
  <2> DEFINE r == [call[c] EXCEPT !.stage = "invalid"]
  <2>2. \/ call' = [call EXCEPT ![c] = Over("failed")]
        \/ call' = [call EXCEPT ![c].stage = "invalid"]
    BY <1>4 DEF RequestFails, GiveUp
  <2>3. CASE call' = [call EXCEPT ![c] = Over("failed")]
    <3>1. CallHolds(Over("failed"), b) /\ Over("failed").stage = "failed"
      BY OverHolds
    <3>2. Moves(c, Over("failed"), b)
      BY <1>1, <2>1, <2>3, <3>1 DEF Moves, CallsHold
    <3> QED BY <1>2, <3>1, <3>2, UnsavedHolds
  <2>4. CASE call' = [call EXCEPT ![c].stage = "invalid"]
    <3>1. call' = [d \in Calls |-> IF d = c THEN r ELSE call[d]]
      BY <1>1, <2>4 DEF CallsHold
    <3>2. CallHolds(r, b)
      BY <1>1, IsAnswered
    <3>3. r.stage = "invalid"
      BY <1>1 DEF CallHolds, CallShape, CallFields
    <3>4. Moves(c, r, b)
      BY <2>1, <3>1, <3>2 DEF Moves
    <3> QED BY <1>2, <3>3, <3>4, UnsavedHolds
  <2> QED BY <2>2, <2>3, <2>4
<1> QED BY <1>3, <1>4

LEMMA AnswerHolds ==
    ASSUME AnalysisHolds, NEW c \in Calls, Answer(c) PROVE AnalysisHolds'
<1>1. CallsHold /\ CallHolds(call[c], billed[c]) /\ billed[c] \in [1 .. 2 -> {0, 1}]
  BY DEF AnalysisHolds, CallsHold, CallHolds, Unbilled
<1>2. UNCHANGED <<exchange, stored>> /\ call[c].stage = "asking" /\ Bill(c)
  BY DEF Answer, inputs
<1> DEFINE b == [billed[c] EXCEPT ![call[c].round] = @ + 1]
<1>3. billed' = [d \in Calls |-> IF d = c THEN b ELSE billed[d]] /\ b \in [1 .. 2 -> {0, 1}]
  BY <1>1, <1>2, BillCounts
<1>4. ASSUME NEW r, call' = [d \in Calls |-> IF d = c THEN r ELSE call[d]],
             CallHolds(r, b), r.stage # "saved"
      PROVE  AnalysisHolds'
  <2>1. Moves(c, r, b)
    BY <1>3, <1>4 DEF Moves
  <2> QED BY <1>2, <1>4, <2>1, UnsavedHolds
<1>5. PICK v :
         \/ call' = [call EXCEPT ![c].stage = "valid", ![c].kept = v]
         \/ call[c].round = 1 /\ call' = [call EXCEPT ![c].round = 2, ![c].try = 1]
         \/ call' = [call EXCEPT ![c].stage = "invalid"]
  BY DEF Answer
<1>6. CASE call' = [call EXCEPT ![c].stage = "valid", ![c].kept = v]
  <2> DEFINE r == [call[c] EXCEPT !.stage = "valid", !.kept = v]
  <2>1. call' = [d \in Calls |-> IF d = c THEN r ELSE call[d]]
    BY <1>1, <1>6 DEF CallsHold
  <2>2. CallHolds(r, b)
    BY <1>1, <1>3, IsAnswered
  <2>3. r.stage = "valid"
    BY <1>1 DEF CallHolds, CallShape, CallFields
  <2> QED BY <1>4, <2>1, <2>2, <2>3
<1>7. CASE call[c].round = 1 /\ call' = [call EXCEPT ![c].round = 2, ![c].try = 1]
  <2> DEFINE r == [call[c] EXCEPT !.round = 2, !.try = 1]
  <2>1. call' = [d \in Calls |-> IF d = c THEN r ELSE call[d]]
    BY <1>1, <1>7 DEF CallsHold
  <2>2. CallHolds(r, [billed[c] EXCEPT ![1] = @ + 1])
    BY <1>1, <1>2, <1>7, AsksTwice
  <2>3. b = [billed[c] EXCEPT ![1] = @ + 1]
    BY <1>7
  <2>4. r.stage = "asking"
    BY <1>1, <1>2 DEF CallHolds, CallShape, CallFields
  <2> QED BY <1>4, <2>1, <2>2, <2>3, <2>4
<1>8. CASE call' = [call EXCEPT ![c].stage = "invalid"]
  <2> DEFINE r == [call[c] EXCEPT !.stage = "invalid"]
  <2>1. call' = [d \in Calls |-> IF d = c THEN r ELSE call[d]]
    BY <1>1, <1>8 DEF CallsHold
  <2>2. CallHolds(r, b)
    BY <1>1, <1>3, IsAnswered
  <2>3. r.stage = "invalid"
    BY <1>1 DEF CallHolds, CallShape, CallFields
  <2> QED BY <1>4, <2>1, <2>2, <2>3
<1> QED BY <1>5, <1>6, <1>7, <1>8

LEMMA SaveFailsHolds ==
    ASSUME AnalysisHolds, NEW c \in Calls, SaveFails(c) PROVE AnalysisHolds'
<1>1. CallsHold /\ billed[c] \in [1 .. 2 -> {0, 1}]
  BY DEF AnalysisHolds, CallsHold, CallHolds, Unbilled
<1>2. UNCHANGED <<inputs, billed, stored>> /\ call[c].stage # "saved"
      /\ call' = [call EXCEPT ![c] = Over("lost")]
  BY DEF SaveFails
<1>3. CallHolds(Over("lost"), billed[c]) /\ Over("lost").stage = "lost"
  BY <1>1, OverHolds
<1>4. call' = [d \in Calls |-> IF d = c THEN Over("lost") ELSE call[d]]
  BY <1>1, <1>2 DEF CallsHold
<1> QED BY <1>2, <1>3, <1>4, FreeStepHolds

(* The transaction tells one more answer, and when it is valid every       *)
(* hypothesis nobody touched is its own.                                   *)
LEMMA SaveHolds ==
    ASSUME AnalysisHolds, NEW c \in Calls, Save(c) PROVE AnalysisHolds'
<1> USE DEF AnalysisHolds
<1>1. CallsHold /\ billed[c] \in [1 .. 2 -> {0, 1}] /\ StoreHolds
  BY DEF CallsHold, CallHolds, Unbilled
<1>2. UNCHANGED <<inputs, exchange, billed>> /\ call[c].stage \in {"valid", "invalid"}
      /\ call' = [call EXCEPT ![c] = Over("saved")]
  BY DEF Save, inputs
<1>3. CallHolds(Over("saved"), billed[c]) /\ Over("saved").stage = "saved"
  BY <1>1, OverHolds
<1>4. call' = [d \in Calls |-> IF d = c THEN Over("saved") ELSE call[d]]
  BY <1>1, <1>2 DEF CallsHold
<1>5. CallsHold'
  <2>1. Moves(c, Over("saved"), billed[c])
    BY <1>1, <1>2, <1>3, <1>4 DEF Moves, CallsHold
  <2> QED BY <1>1, <2>1, MovesHold
<1>6. run' = [run EXCEPT ![c] = call[c].stage] /\ usage' = usage + 1
  BY DEF Save
<1>7. run[c] = "none"
  BY <1>1, <1>2 DEF StoreHolds
<1>8. IsFiniteSet(Answered)' /\ (usage = Cardinality(Answered))'
  <2>1. Answered' = Answered \cup {c} /\ c \notin Answered
    BY <1>1, <1>2, <1>6, <1>7 DEF Answered, StoreHolds
  <2>2. IsFiniteSet(Answered') /\ Cardinality(Answered') = Cardinality(Answered) + 1
    BY <1>1, <2>1, FS_AddElement DEF StoreHolds
  <2> QED BY <1>1, <1>6, <2>2 DEF StoreHolds
<1>9. /\ run' \in [Calls -> {"none", "valid", "invalid"}]
      /\ \A d \in Calls : call'[d].stage = "saved" <=> run'[d] # "none"
      /\ \A d \in Calls : run[d] = "valid" => run'[d] = "valid"
  BY <1>1, <1>2, <1>3, <1>4, <1>6, <1>7 DEF StoreHolds
<1>10. CASE call[c].stage = "valid"
  <2>1. /\ cache' = c
        /\ hypothesis' = [d \in Calls |-> IF d = c THEN IF call[c].kept = {} THEN "none" ELSE "open"
                                          ELSE IF d \in Replaced(c) THEN "none"
                                          ELSE hypothesis[d]]
    BY <1>10 DEF Save
  <2>2. run'[c] = "valid"
    BY <1>1, <1>6, <1>10 DEF StoreHolds
  <2>3. hypothesis' \in [Calls -> {"none", "open", "touched"}]
    BY <1>1, <2>1 DEF StoreHolds
  <2>4. \A d \in Calls : /\ hypothesis'[d] = "open" => cache' = d
                         /\ hypothesis'[d] # "none" => run'[d] = "valid"
    BY <1>1, <1>9, <2>1, <2>2 DEF StoreHolds, Replaced
  <2> QED BY <1>2, <1>5, <1>8, <1>9, <2>1, <2>2, <2>3, <2>4 DEF StoreHolds, ExchangeShape
<1>11. CASE call[c].stage = "invalid"
  <2>1. UNCHANGED <<cache, hypothesis>>
    BY <1>11 DEF Save
  <2> QED BY <1>1, <1>2, <1>5, <1>8, <1>9, <2>1 DEF StoreHolds, ExchangeShape
<1> QED BY <1>2, <1>10, <1>11

LEMMA AnalysisNextHolds == AnalysisHolds /\ [AnalysisNext]_analysisVars => AnalysisHolds'
<1> SUFFICES ASSUME AnalysisHolds, [AnalysisNext]_analysisVars PROVE AnalysisHolds'
  OBVIOUS
<1>1. CASE Edits
  BY <1>1, EditsHold
<1>2. ASSUME NEW c \in Calls,
             \/ Touch(c) \/ Preview(c) \/ ReadEnabled(c) \/ ReadProvider(c) \/ ReadPrompt(c)
             \/ ReadExchange(c) \/ Answer(c) \/ Save(c) \/ SaveFails(c)
             \/ \E failure : RequestFails(c, failure)
      PROVE  AnalysisHolds'
  BY <1>2, TouchHolds, ReadsHold, AnswerHolds, SaveHolds, SaveFailsHolds, FailureHolds
<1>3. CASE UNCHANGED analysisVars
  BY <1>3 DEF analysisVars, inputs, stored, AnalysisHolds, CallsHold, ExchangeShape, StoreHolds,
              Answered
<1> QED BY <1>1, <1>2, <1>3 DEF AnalysisNext, Edits

LEMMA AlwaysAnalysis == AnalysisSpec => []AnalysisHolds
BY AnalysisInitHolds, AnalysisNextHolds, PTL DEF AnalysisSpec

(* What goes to the provider was approved as a whole, and no prompt that   *)
(* may have been charged for is put again.                                 *)
THEOREM OutgoingApproved == AnalysisSpec => []OutgoingIsApproved
<1>1. AnalysisHolds => OutgoingIsApproved
  <2> SUFFICES ASSUME AnalysisHolds, NEW c \in Calls
               PROVE  /\ call[c].sent # NoContext => call[c].sent = call[c].approved
                      /\ \A i \in 1 .. 2 : billed[c][i] <= 1
    BY DEF OutgoingIsApproved
  <2>1. CallHolds(call[c], billed[c])
    BY DEF AnalysisHolds, CallsHold
  <2>2. \A i \in 1 .. 2 : billed[c][i] \in {0, 1}
    BY <2>1 DEF CallHolds, Unbilled
  <2> QED BY <2>1, <2>2 DEF CallHolds, Asked
<1> QED BY <1>1, AlwaysAnalysis, PTL

(* However analyses of one exchange overlap, what is shown, kept, told     *)
(* and counted agrees.                                                     *)
THEOREM AnalysesAgree == AnalysisSpec => []AnalysisAgrees
<1>1. AnalysisHolds => AnalysisAgrees
  BY DEF AnalysisHolds, StoreHolds, AnalysisAgrees, Answered
<1> QED BY <1>1, AlwaysAnalysis, PTL

-----------------------------------------------------------------------------
(* Analysis: what a hypothesis may cite                                    *)

(* The bodies of a preview fit: a recursion that shortens them ends.       *)
LEMMA SmallestRank ==
    ASSUME NEW T \in SUBSET Nat, T # {} PROVE \E n \in T : \A m \in T : n <= m
<1> DEFINE R == StrictSubsetOrdering(Nat)
           Below(n) == {m \in Nat : m < n}
           B == {Below(n) : n \in T}
<1>1. IsWellFoundedOn(R, FiniteSubsetsOf(Nat))
  BY FS_StrictSubsetOrderingWellFounded
<1>2. \A n \in Nat : IsFiniteSet(Below(n))
  BY FS_BoundedSetOfNaturals
<1>3. B \subseteq FiniteSubsetsOf(Nat) /\ B # {}
  BY <1>2 DEF FiniteSubsetsOf
<1>4. PICK b \in B : \A c \in B : ~(<<c, b>> \in R)
  BY <1>1, <1>3, WFMin
<1>5. PICK n \in T : b = Below(n)
  OBVIOUS
<1>6. ASSUME NEW m \in T, m < n PROVE FALSE
  <2>1. Below(m) \subseteq Below(n) /\ m \in Below(n) /\ m \notin Below(m)
    BY <1>6
  <2>2. Below(m) \in B /\ Below(m) \in SUBSET Nat /\ Below(n) \in SUBSET Nat
    OBVIOUS
  <2> HIDE DEF Below, B
  <2>3. <<Below(m), Below(n)>> \in R
    BY <2>1, <2>2 DEF StrictSubsetOrdering
  <2> QED BY <1>4, <1>5, <2>2, <2>3
<1> QED BY <1>6

LEMMA UpTo ==
    ASSUME NEW N \in Nat, NEW T \in SUBSET (0 .. N), 0 \in T,
           \A n \in 1 .. N : n - 1 \in T => n \in T
    PROVE  N \in T
<1> SUFFICES ASSUME (0 .. N) \ T # {} PROVE FALSE
  OBVIOUS
<1>1. PICK n \in (0 .. N) \ T : \A m \in (0 .. N) \ T : n <= m
  <2>1. (0 .. N) \ T \in SUBSET Nat
    OBVIOUS
  <2> QED BY <2>1, SmallestRank
<1>2. n # 0 /\ n \in 0 .. N
  BY <1>1
<1>3. n - 1 \in 0 .. N /\ n \in 1 .. N /\ ~(n <= n - 1)
  BY <1>2
<1>4. n - 1 \in T
  BY <1>1, <1>3
<1> QED BY <1>1, <1>3, <1>4

(* A function that passes on to elements of lower rank exists, and its     *)
(* values are those it gives where it stops.                               *)
Passes(f, D, stop, leaf, next) ==
    f = [p \in D |-> IF p \in stop THEN leaf[p] ELSE f[next[p]]]

Descends(D, stop, leaf, next, rank, N, V) ==
    /\ leaf \in [D -> V] /\ next \in [D -> D] /\ rank \in [D -> 0 .. N]
    /\ \A p \in D \ stop : rank[next[p]] < rank[p]

LEMMA DescentExists ==
    ASSUME NEW D, NEW stop, NEW leaf, NEW next, NEW rank, NEW N \in Nat, NEW V,
           Descends(D, stop, leaf, next, rank, N, V)
    PROVE  \E f : Passes(f, D, stop, leaf, next)
<1> USE DEF Descends
<1> DEFINE Good(f, n) == \A p \in D : rank[p] <= n =>
                             f[p] = IF p \in stop THEN leaf[p] ELSE f[next[p]]
           T == {n \in 0 .. N : \E f \in [D -> V] : Good(f, n)}
<1>1. 0 \in T
  <2>1. \A p \in D : rank[p] <= 0 => p \in stop
    <3> SUFFICES ASSUME NEW p \in D, rank[p] <= 0, p \notin stop PROVE FALSE
      OBVIOUS
    <3>1. rank[next[p]] < rank[p] /\ rank[next[p]] \in 0 .. N /\ rank[p] \in 0 .. N
      OBVIOUS
    <3> QED BY <3>1
  <2>2. Good(leaf, 0)
    BY <2>1
  <2> QED BY <2>2
<1>2. ASSUME NEW n \in 1 .. N, n - 1 \in T PROVE n \in T
  <2>1. PICK f \in [D -> V] : Good(f, n - 1)
    BY <1>2
  <2> DEFINE g == [p \in D |-> IF rank[p] = n
                               THEN IF p \in stop THEN leaf[p] ELSE f[next[p]]
                               ELSE f[p]]
  <2>2. g \in [D -> V]
    OBVIOUS
  <2>3. ASSUME NEW p \in D, rank[p] <= n
        PROVE  g[p] = IF p \in stop THEN leaf[p] ELSE g[next[p]]
    <3>1. p \notin stop => g[next[p]] = f[next[p]]
      <4> SUFFICES ASSUME p \notin stop PROVE g[next[p]] = f[next[p]]
        OBVIOUS
      <4>1. next[p] \in D /\ rank[next[p]] < rank[p]
        OBVIOUS
      <4>2. rank[next[p]] \in 0 .. N /\ rank[p] \in 0 .. N
        BY <4>1
      <4>3. rank[next[p]] # n
        BY <2>3, <4>1, <4>2
      <4> QED BY <4>1, <4>3
    <3>2. CASE rank[p] = n
      BY <3>1, <3>2
    <3>3. CASE rank[p] # n
      <4>1. rank[p] <= n - 1
        BY <2>3, <3>3
      <4>2. f[p] = IF p \in stop THEN leaf[p] ELSE f[next[p]]
        BY <2>1, <4>1
      <4> QED BY <3>1, <3>3, <4>2
    <3> QED BY <3>2, <3>3
  <2> HIDE DEF g
  <2>4. Good(g, n)
    BY <2>3
  <2>5. n \in 0 .. N
    OBVIOUS
  <2> QED BY <2>2, <2>4, <2>5
<1> HIDE DEF T
<1>3. N \in T
  <2>1. T \in SUBSET (0 .. N)
    BY DEF T
  <2> QED BY <1>1, <1>2, <2>1, UpTo
<1>4. PICK f \in [D -> V] : Good(f, N)
  BY <1>3 DEF T
<1>5. \A p \in D : f[p] = IF p \in stop THEN leaf[p] ELSE f[next[p]]
  BY <1>4
<1>6. f = [p \in D |-> f[p]]
  OBVIOUS
<1>7. f = [p \in D |-> IF p \in stop THEN leaf[p] ELSE f[next[p]]]
  BY <1>5, <1>6
<1> QED BY <1>7 DEF Passes

LEMMA DescentEnds ==
    ASSUME NEW D, NEW stop, NEW leaf, NEW next, NEW rank, NEW N \in Nat, NEW V,
           Descends(D, stop, leaf, next, rank, N, V), NEW f, Passes(f, D, stop, leaf, next)
    PROVE  \A p \in D : f[p] \in V
<1> USE DEF Descends
<1> DEFINE T == {n \in 0 .. N : \A p \in D : rank[p] <= n => f[p] \in V}
<1>0. \A p \in D : f[p] = IF p \in stop THEN leaf[p] ELSE f[next[p]]
  <2>1. f = [p \in D |-> IF p \in stop THEN leaf[p] ELSE f[next[p]]]
    BY DEF Passes
  <2> DEFINE h == [p \in D |-> IF p \in stop THEN leaf[p] ELSE f[next[p]]]
  <2>2. \A p \in D : h[p] = IF p \in stop THEN leaf[p] ELSE f[next[p]]
    OBVIOUS
  <2>3. f = h
    BY <2>1
  <2> HIDE DEF h
  <2> QED BY <2>2, <2>3
<1>1. ASSUME NEW p \in D, \A q \in D : rank[q] < rank[p] => f[q] \in V PROVE f[p] \in V
  <2>1. next[p] \in D /\ leaf[p] \in V /\ (p \notin stop => rank[next[p]] < rank[p])
    OBVIOUS
  <2> QED BY <1>0, <1>1, <2>1
<1>2. 0 \in T
  <2> SUFFICES ASSUME NEW p \in D, rank[p] <= 0 PROVE f[p] \in V
    OBVIOUS
  <2>1. \A q \in D : ~(rank[q] < rank[p])
    <3> TAKE q \in D
    <3>1. rank[q] \in 0 .. N /\ rank[p] \in 0 .. N
      OBVIOUS
    <3> QED BY <3>1
  <2> QED BY <1>1, <2>1
<1>3. ASSUME NEW n \in 1 .. N, n - 1 \in T PROVE n \in T
  <2>1. \A q \in D : rank[q] <= n - 1 => f[q] \in V
    BY <1>3
  <2>2. ASSUME NEW p \in D, rank[p] <= n PROVE f[p] \in V
    <3>1. ASSUME NEW q \in D, rank[q] < rank[p] PROVE f[q] \in V
      <4>1. rank[q] \in 0 .. N /\ rank[p] \in 0 .. N
        OBVIOUS
      <4>2. rank[q] <= n - 1
        BY <2>2, <3>1, <4>1
      <4> QED BY <2>1, <4>2
    <3> QED BY <1>1, <3>1
  <2>3. n \in 0 .. N
    OBVIOUS
  <2> QED BY <2>2, <2>3
<1>4. T \in SUBSET (0 .. N)
  OBVIOUS
<1>5. N \in T
  <2> HIDE DEF T
  <2> QED BY <1>2, <1>3, <1>4, UpTo
<1>6. \A p \in D : rank[p] <= N
  <2> TAKE p \in D
  <2>1. rank[p] \in 0 .. N
    OBVIOUS
  <2> QED BY <2>1
<1> QED BY <1>5, <1>6

Fits(total) == {TooLong} \cup {p \in Nat \X Nat : p[1] + p[2] + Fixed <= total}

LEMMA ShorterShrinks ==
    ASSUME NEW n \in Nat \ {0}, NEW e \in Nat \ {0} PROVE Shorter(n, e) \in 0 .. n - 1
<1> DEFINE m == IF n > e THEN n - e ELSE 0
<1>1. m \in 0 .. n - 1
  OBVIOUS
<1>2. Shorter(n, e) = IF n <= m THEN n ELSE IF m <= Marker THEN 0 ELSE m
  BY DEF Shorter, Cut
<1> HIDE DEF m
<1> QED BY <1>1, <1>2

LEMMA FitFits ==
    ASSUME NEW total \in Nat, NEW req \in Nat, NEW res \in Nat
    PROVE  Fit(total, req, res) \in Fits(total)
<1> DEFINE D == (0 .. req) \X (0 .. res)
           stop == {p \in D : Fixed + p[1] + p[2] <= total \/ p = <<0, 0>>}
           leaf == [p \in D |-> IF Fixed + p[1] + p[2] <= total THEN p ELSE TooLong]
           next == [p \in D |-> IF p \in stop THEN p ELSE Shortened(p, Excess(p, total))]
           rank == [p \in D |-> p[1] + p[2]]
           body(f) == [p \in D |-> IF Fixed + p[1] + p[2] <= total THEN p
                                   ELSE IF p = <<0, 0>> THEN TooLong
                                   ELSE f[Shortened(p, Excess(p, total))]]
<1>1. Fixed \in Nat /\ Step \in Nat \ {0}
  BY SizesAssumption
<1>2. \A p \in D : /\ p[1] \in 0 .. req /\ p[2] \in 0 .. res /\ p = <<p[1], p[2]>>
                   /\ Excess(p, total) \in Nat \ {0}
  <2> TAKE p \in D
  <2>1. p[1] \in 0 .. req /\ p[2] \in 0 .. res /\ p = <<p[1], p[2]>>
    OBVIOUS
  <2> QED BY <1>1, <2>1 DEF Excess
<1>3. Descends(D, stop, leaf, next, rank, req + res, Fits(total))
  <2>1. leaf \in [D -> Fits(total)]
    <3> SUFFICES ASSUME NEW p \in D
                 PROVE  (IF Fixed + p[1] + p[2] <= total THEN p ELSE TooLong) \in Fits(total)
      OBVIOUS
    <3>1. p \in Nat \X Nat /\ Fixed + p[1] + p[2] = p[1] + p[2] + Fixed
      BY <1>1, <1>2
    <3> QED BY <3>1 DEF Fits
  <2>2. ASSUME NEW p \in D, p \notin stop
        PROVE  next[p] \in D /\ rank[next[p]] < rank[p]
    <3>1. /\ p[1] \in 0 .. req /\ p[2] \in 0 .. res /\ p = <<p[1], p[2]>>
          /\ Excess(p, total) \in Nat \ {0}
      BY <1>2
    <3>2. next[p] = Shortened(p, Excess(p, total)) /\ p # <<0, 0>>
      BY <2>2
    <3> HIDE DEF stop, next
    <3>3. CASE p[2] > 0
      <4>1. Shorter(p[2], Excess(p, total)) \in 0 .. p[2] - 1
        BY <3>1, <3>3, ShorterShrinks
      <4>2. PICK s \in 0 .. p[2] - 1 : next[p] = <<p[1], s>>
        BY <3>2, <3>3, <4>1 DEF Shortened
      <4>3. next[p] \in D /\ next[p][1] = p[1] /\ next[p][2] = s
        BY <3>1, <4>2
      <4>4. rank[next[p]] = p[1] + s
        BY <4>3
      <4> QED BY <3>1, <4>3, <4>4
    <3>4. CASE ~(p[2] > 0)
      <4>1. p[1] > 0 /\ p[2] = 0
        BY <3>1, <3>2, <3>4
      <4>2. Shorter(p[1], Excess(p, total)) \in 0 .. p[1] - 1
        BY <3>1, <4>1, ShorterShrinks
      <4>3. PICK s \in 0 .. p[1] - 1 : next[p] = <<s, 0>>
        BY <3>2, <3>4, <4>2 DEF Shortened
      <4>4. next[p] \in D /\ next[p][1] = s /\ next[p][2] = 0
        BY <3>1, <4>3
      <4>5. rank[next[p]] = s + 0
        BY <4>4
      <4> QED BY <3>1, <4>1, <4>4, <4>5
    <3> QED BY <3>3, <3>4
  <2>3. next \in [D -> D]
    <3>1. \A p \in D : next[p] \in D
      <4> TAKE p \in D
      <4>1. CASE p \in stop
        BY <4>1
      <4>2. CASE p \notin stop
        BY <2>2, <4>2
      <4> QED BY <4>1, <4>2
    <3> QED BY <3>1
  <2>4. rank \in [D -> 0 .. req + res]
    <3> SUFFICES ASSUME NEW p \in D PROVE p[1] + p[2] \in 0 .. req + res
      OBVIOUS
    <3>1. p[1] \in 0 .. req /\ p[2] \in 0 .. res
      OBVIOUS
    <3> QED BY <3>1
  <2> HIDE DEF D, stop, leaf, next, rank
  <2> QED BY <2>1, <2>2, <2>3, <2>4 DEF Descends
<1>4. ASSUME NEW f
      PROVE  [p \in D |-> IF p \in stop THEN leaf[p] ELSE f[next[p]]] = body(f)
  <2> SUFFICES ASSUME NEW p \in D
               PROVE  (IF p \in stop THEN leaf[p] ELSE f[next[p]]) = body(f)[p]
    OBVIOUS
  <2>1. CASE Fixed + p[1] + p[2] <= total
    <3>1. p \in stop /\ leaf[p] = p /\ body(f)[p] = p
      BY <2>1
    <3> HIDE DEF stop, leaf, body
    <3> QED BY <3>1
  <2>2. CASE ~(Fixed + p[1] + p[2] <= total)
    BY <2>2
  <2> QED BY <2>1, <2>2
<1>5. PICK f : Fit(total, req, res) = f[<<req, res>>] /\ f = body(f)
  <2> DEFINE Def(f) == f = [p \in (0 .. req) \X (0 .. res) |->
                                IF Fixed + p[1] + p[2] <= total THEN p
                                ELSE IF p = <<0, 0>> THEN TooLong
                                ELSE f[Shortened(p, Excess(p, total))]]
             fit == CHOOSE f : Def(f)
  <2>1. PICK f : Passes(f, D, stop, leaf, next)
    <3> HIDE DEF D, stop, leaf, next, rank, body
    <3> QED BY <1>3, DescentExists
  <2>2. f = [p \in D |-> IF p \in stop THEN leaf[p] ELSE f[next[p]]]
    BY <2>1 DEF Passes
  <2>3. f = body(f)
    <3> HIDE DEF D, stop, leaf, next, rank, body
    <3> QED BY <1>4, <2>2
  <2>4. \A g : Def(g) <=> g = body(g)
    OBVIOUS
  <2>5. Fit(total, req, res) = fit[<<req, res>>]
    BY DEF Fit
  <2>6. Def(f)
    <3> HIDE DEF Def, body
    <3> QED BY <2>3, <2>4
  <2> HIDE DEF Def, body
  <2>7. Def(fit)
    BY <2>6
  <2> QED BY <2>4, <2>5, <2>7
<1>6. Passes(f, D, stop, leaf, next)
  <2> HIDE DEF D, stop, leaf, next, rank, body
  <2> QED BY <1>4, <1>5 DEF Passes
<1>7. <<req, res>> \in D
  OBVIOUS
<1> HIDE DEF D, stop, leaf, next, rank, body
<1>8. f[<<req, res>>] \in Fits(total)
  <2>1. req + res \in Nat
    OBVIOUS
  <2> QED BY <1>3, <1>6, <1>7, <2>1, DescentEnds
<1> QED BY <1>5, <1>8

(* A calibrated hypothesis cites what it may, and in its band.             *)
Banded(h, parts) ==
    /\ h.refs \subseteq parts
    /\ h.cited = {} \/ h.cited # h.refs => h.confidence <= 25
    /\ h.refs \cap {"request.body", "response.body"} = {}
       /\ h.severity \in {"critical", "high", "medium"} => h.confidence <= 70

LEMMA CapOfHeaders ==
    ASSUME NEW refs, refs \cap {"request.body", "response.body"} = {},
           NEW severity \in {"critical", "high", "medium"}
    PROVE  Cap(severity, refs) \in 0 .. 70
<1>1. refs \cap Strong = {}
  BY DEF Strong
<1>2. \/ Cap(severity, refs) = Caps(45, 45, 45, 40)[severity]
      \/ Cap(severity, refs) = Caps(60, 70, 70, 100)[severity]
  BY <1>1 DEF Cap
<1> QED BY <1>2 DEF Caps

LEMMA CalibratedIsBanded ==
    ASSUME NEW h, h.confidence \in 0 .. 100, NEW parts
    PROVE  Banded(Calibrated(h, parts), parts)
<1> DEFINE g == Calibrated(h, parts)
           known == ToSet(h.refs) \cap parts
           cap == IF FullyGrounded(h, parts) THEN Cap(h.severity, known) ELSE 25
<1>1. /\ g.cited = ToSet(h.refs) /\ g.refs = known /\ g.severity = h.severity
      /\ g.confidence = Least(h.confidence, cap)
  BY DEF Calibrated
<1>2. ASSUME NEW n \in Nat, cap \in 0 .. n PROVE g.confidence <= n
  <2> HIDE DEF cap, g
  <2> QED BY <1>1, <1>2 DEF Least
<1>3. ASSUME g.cited = {} \/ g.cited # g.refs PROVE g.confidence <= 25
  <2>1. ~FullyGrounded(h, parts)
    BY <1>1, <1>3 DEF FullyGrounded
  <2> QED BY <1>2, <2>1
<1>4. ASSUME g.refs \cap {"request.body", "response.body"} = {},
             g.severity \in {"critical", "high", "medium"}
      PROVE  g.confidence <= 70
  <2>1. Cap(h.severity, known) \in 0 .. 70
    <3> HIDE DEF g, known
    <3> QED BY <1>1, <1>4, CapOfHeaders
  <2>2. cap \in 0 .. 70
    <3> HIDE DEF known
    <3> QED BY <2>1
  <2> QED BY <1>2, <2>2
<1> HIDE DEF g
<1>5. g.refs \subseteq parts
  BY <1>1
<1> QED BY <1>3, <1>4, <1>5 DEF Banded, g

LEMMA KeptAreBanded ==
    ASSUME NEW answer \in Answers, NEW parts, NEW h \in Kept(answer, parts)
    PROVE  Banded(h, parts)
<1>1. PICK i \in DOMAIN answer.hypotheses : h = Calibrated(answer.hypotheses[i], parts)
  BY DEF Kept
<1>2. answer.hypotheses[i].confidence \in 0 .. 100
  BY AnswersAssumption
<1> QED BY <1>1, <1>2, CalibratedIsBanded

(* By the time an answer is kept, the bodies it may cite fit the policy    *)
(* that was approved.                                                      *)
Measured == exchange.request.size \in Nat /\ exchange.response.size \in Nat

Fitting(x) ==
    x.policy \in Policies /\ x.bodies[1] + x.bodies[2] + Fixed <= x.policy.total

FoundedCall(r) ==
    /\ r.stage \in Before \ {"none"} => r.approved.policy \in Policies
    /\ r.stage \in {"asking", "valid"} => Fitting(r.sent)
    /\ r.stage # "valid" => r.kept = {}
    /\ \A h \in r.kept : Banded(h, Parts(r.sent.bodies))

Founded == Measured /\ \A c \in Calls : FoundedCall(call[c])

LEMMA BodiesFit ==
    ASSUME Measured, NEW policy \in Policies
    PROVE  Bodies(policy) \in Fits(policy.total)
<1>1. policy.limit \in Nat /\ policy.total \in Nat
  BY SizesAssumption
<1>2. ASSUME NEW n \in Nat PROVE Cut(n, policy.limit) \in Nat
  BY <1>1, SizesAssumption DEF Cut
<1>3. ASSUME NEW b, b.size \in Nat PROVE Prepared(b, policy.limit, policy) \in Nat
  BY <1>2, <1>3 DEF Prepared
<1>4. /\ Prepared(exchange.request, policy.limit, policy) \in Nat
      /\ Prepared(exchange.response, policy.limit, policy) \in Nat
  BY <1>3 DEF Measured
<1> QED BY <1>1, <1>4, FitFits DEF Bodies

LEMMA FoundedInit == AnalysisInit => Founded
<1> SUFFICES ASSUME AnalysisInit PROVE Founded
  OBVIOUS
<1>1. Measured
  BY SizesAssumption DEF AnalysisInit, Measured
<1>2. \A c \in Calls : FoundedCall(call[c])
  BY DEF AnalysisInit, FoundedCall, Idle, Before
<1> QED BY <1>1, <1>2 DEF Founded

(* A step of one call that changes no exchange.                            *)
LEMMA FoundedStep ==
    ASSUME AnalysisHolds, Founded, UNCHANGED exchange, NEW c \in Calls, NEW r,
           call' = [call EXCEPT ![c] = r], FoundedCall(r)
    PROVE  Founded'
<1>1. call = [d \in Calls |-> call[d]]
  BY DEF AnalysisHolds, CallsHold
<1>2. \A d \in Calls : FoundedCall(call'[d])
  BY <1>1 DEF Founded
<1>3. (\A d \in Calls : FoundedCall(call[d]))'
  BY <1>2 DEF FoundedCall, Fitting, Banded
<1> QED BY <1>3 DEF Founded, Measured

LEMMA OverIsFounded == ASSUME NEW stage \in {"refused", "failed", "lost", "saved"}
                       PROVE  FoundedCall(Over(stage))
BY DEF Over, Idle, FoundedCall, Before

LEMMA FoundedReads ==
    ASSUME AnalysisHolds, Founded, NEW c \in Calls,
           Preview(c) \/ ReadEnabled(c) \/ ReadProvider(c) \/ ReadPrompt(c)
    PROVE  Founded'
<1>1. UNCHANGED exchange /\ CallShape(call[c]) /\ FoundedCall(call[c])
  BY DEF Preview, ReadEnabled, ReadProvider, ReadPrompt, Move, inputs, AnalysisHolds, CallsHold,
         CallHolds, Founded
<1>2. CASE call' = [call EXCEPT ![c] = Over("refused")]
  BY <1>1, <1>2, FoundedStep, OverIsFounded
<1>3. ASSUME NEW r, call' = [call EXCEPT ![c] = r], r.stage \in Before \ {"none"},
             r.approved.policy \in Policies, r.kept = {}
      PROVE  Founded'
  <2>1. FoundedCall(r)
    BY <1>3 DEF FoundedCall, Before
  <2> QED BY <1>1, <1>3, <2>1, FoundedStep
<1>4. CASE Preview(c)
  <2>1. PICK policy \in Policies :
           call' = [call EXCEPT ![c].stage = "previewed",
                         ![c].approved = Context(settings.provider, settings.prompt, policy)]
    BY <1>4 DEF Preview
  <2> DEFINE r == [call[c] EXCEPT !.stage = "previewed",
                       !.approved = Context(settings.provider, settings.prompt, policy)]
  <2>2. Context(settings.provider, settings.prompt, policy).policy = policy
    BY DEF Context
  <2>3. /\ r.stage = "previewed" /\ r.kept = call[c].kept
        /\ r.approved = Context(settings.provider, settings.prompt, policy)
    BY <1>1 DEF CallShape, CallFields
  <2>4. call[c].kept = {}
    BY <1>1, <1>4 DEF Preview, FoundedCall
  <2>5. call' = [call EXCEPT ![c] = r]
    BY <2>1
  <2> HIDE DEF r
  <2> QED BY <1>3, <2>2, <2>3, <2>4, <2>5 DEF Before
<1>5. ASSUME NEW r, call' = [call EXCEPT ![c] = r], r.stage \in Before \ {"none"},
             call[c].stage \in Before \ {"none"},
             r.approved = call[c].approved, r.kept = call[c].kept
      PROVE  Founded'
  BY <1>1, <1>3, <1>5 DEF FoundedCall, Before
<1>6. CASE ReadEnabled(c) /\ settings.enabled
  <2> DEFINE r == [call[c] EXCEPT !.stage = "enabled"]
  <2>1. call' = [call EXCEPT ![c] = r]
    BY <1>6 DEF ReadEnabled, Move
  <2>2. r.stage = "enabled" /\ r.approved = call[c].approved /\ r.kept = call[c].kept
    BY <1>1 DEF CallShape, CallFields
  <2> HIDE DEF r
  <2> QED BY <1>5, <1>6, <2>1, <2>2 DEF ReadEnabled, Move, Before
<1>7. CASE call' = [call EXCEPT ![c].stage = "provider", ![c].provider = settings.provider]
           /\ ReadProvider(c)
  <2> DEFINE r == [call[c] EXCEPT !.stage = "provider", !.provider = settings.provider]
  <2>1. call' = [call EXCEPT ![c] = r]
    BY <1>7
  <2>2. r.stage = "provider" /\ r.approved = call[c].approved /\ r.kept = call[c].kept
    BY <1>1 DEF CallShape, CallFields
  <2> HIDE DEF r
  <2> QED BY <1>5, <1>7, <2>1, <2>2 DEF ReadProvider, Move, Before
<1>8. CASE ReadPrompt(c)
  <2> DEFINE r == [call[c] EXCEPT !.stage = "prompt", !.prompt = settings.prompt]
  <2>1. call' = [call EXCEPT ![c] = r]
    BY <1>8 DEF ReadPrompt, Move
  <2>2. r.stage = "prompt" /\ r.approved = call[c].approved /\ r.kept = call[c].kept
    BY <1>1 DEF CallShape, CallFields
  <2> HIDE DEF r
  <2> QED BY <1>5, <1>8, <2>1, <2>2 DEF ReadPrompt, Move, Before
<1>9. CASE ReadEnabled(c) /\ ~settings.enabled
  BY <1>2, <1>9 DEF ReadEnabled, Move
<1>10. CASE ReadProvider(c)
  BY <1>2, <1>7, <1>10 DEF ReadProvider, Move
<1> QED BY <1>4, <1>6, <1>8, <1>9, <1>10

(* The request is made only when the bodies fit.                           *)
LEMMA FoundedRequest ==
    ASSUME AnalysisHolds, Founded, NEW c \in Calls, ReadExchange(c) PROVE Founded'
<1>1. UNCHANGED exchange /\ CallShape(call[c]) /\ FoundedCall(call[c]) /\ call[c].stage = "prompt"
  BY DEF ReadExchange, Move, inputs, AnalysisHolds, CallsHold, CallHolds, Founded
<1> DEFINE read == Context(call[c].provider, call[c].prompt, call[c].approved.policy)
           r == [call[c] EXCEPT !.stage = "asking", !.sent = read]
<1>2. CASE call' = [call EXCEPT ![c] = Over("refused")]
  BY <1>1, <1>2, FoundedStep, OverIsFounded
<1>3. CASE call' = [call EXCEPT ![c].stage = "asking", ![c].sent = read] /\ read.bodies # TooLong
  <2>1. call[c].approved.policy \in Policies /\ call[c].kept = {}
    BY <1>1 DEF FoundedCall, Before
  <2>2. read.policy = call[c].approved.policy /\ read.bodies = Bodies(call[c].approved.policy)
    BY DEF Context
  <2>3. read.bodies \in Fits(read.policy.total)
    BY <2>1, <2>2, BodiesFit DEF Founded
  <2>4. Fitting(read)
    BY <1>3, <2>1, <2>2, <2>3 DEF Fits, Fitting
  <2>5. r.stage = "asking" /\ r.sent = read /\ r.kept = call[c].kept
    BY <1>1 DEF CallShape, CallFields
  <2>6. call' = [call EXCEPT ![c] = r]
    BY <1>3
  <2> HIDE DEF r, read
  <2>7. FoundedCall(r)
    BY <2>1, <2>4, <2>5 DEF FoundedCall, Before
  <2> QED BY <1>1, <2>6, <2>7, FoundedStep
<1> QED BY <1>2, <1>3 DEF ReadExchange, Move

LEMMA FoundedFailure ==
    ASSUME AnalysisHolds, Founded, NEW c \in Calls, NEW failure, RequestFails(c, failure)
    PROVE  Founded'
<1>1. UNCHANGED exchange /\ CallShape(call[c]) /\ FoundedCall(call[c]) /\ call[c].stage = "asking"
  BY DEF RequestFails, inputs, AnalysisHolds, CallsHold, CallHolds, Founded
<1>2. CASE call' = [call EXCEPT ![c].try = 2]
  <2> DEFINE r == [call[c] EXCEPT !.try = 2]
  <2>1. r.stage = "asking" /\ r.sent = call[c].sent /\ r.kept = call[c].kept
    BY <1>1 DEF CallShape, CallFields
  <2>2. call' = [call EXCEPT ![c] = r]
    BY <1>2
  <2> HIDE DEF r
  <2>3. FoundedCall(r)
    BY <1>1, <2>1 DEF FoundedCall, Before
  <2> QED BY <1>1, <2>2, <2>3, FoundedStep
<1>3. CASE call' = [call EXCEPT ![c] = Over("failed")]
  BY <1>1, <1>3, FoundedStep, OverIsFounded
<1>4. CASE call' = [call EXCEPT ![c].stage = "invalid"]
  <2> DEFINE r == [call[c] EXCEPT !.stage = "invalid"]
  <2>1. r.stage = "invalid" /\ r.kept = call[c].kept
    BY <1>1 DEF CallShape, CallFields
  <2>2. call' = [call EXCEPT ![c] = r]
    BY <1>4
  <2> HIDE DEF r
  <2>3. FoundedCall(r)
    BY <1>1, <2>1 DEF FoundedCall, Before
  <2> QED BY <1>1, <2>2, <2>3, FoundedStep
<1>5. \/ call' = [call EXCEPT ![c].try = 2]
      \/ call' = [call EXCEPT ![c] = Over("failed")]
      \/ call' = [call EXCEPT ![c].stage = "invalid"]
  BY DEF RequestFails, GiveUp
<1> QED BY <1>2, <1>3, <1>4, <1>5

LEMMA FoundedAnswer ==
    ASSUME AnalysisHolds, Founded, NEW c \in Calls, Answer(c) PROVE Founded'
<1>1. UNCHANGED exchange /\ CallShape(call[c]) /\ FoundedCall(call[c]) /\ call[c].stage = "asking"
  BY DEF Answer, inputs, AnalysisHolds, CallsHold, CallHolds, Founded
<1>2. PICK answer \in Answers :
         \/ call' = [call EXCEPT ![c].stage = "valid",
                                 ![c].kept = Kept(answer, Parts(call[c].sent.bodies))]
         \/ call' = [call EXCEPT ![c].round = 2, ![c].try = 1]
         \/ call' = [call EXCEPT ![c].stage = "invalid"]
  BY DEF Answer
<1>3. CASE call' = [call EXCEPT ![c].stage = "valid",
                                ![c].kept = Kept(answer, Parts(call[c].sent.bodies))]
  <2> DEFINE parts == Parts(call[c].sent.bodies)
             r == [call[c] EXCEPT !.stage = "valid", !.kept = Kept(answer, parts)]
  <2>1. r.stage = "valid" /\ r.sent = call[c].sent /\ r.kept = Kept(answer, parts)
    BY <1>1 DEF CallShape, CallFields
  <2>2. call' = [call EXCEPT ![c] = r]
    BY <1>3
  <2>3. \A h \in Kept(answer, parts) : Banded(h, parts)
    BY KeptAreBanded
  <2> HIDE DEF r
  <2>4. FoundedCall(r)
    BY <1>1, <2>1, <2>3 DEF FoundedCall, Before
  <2> QED BY <1>1, <2>2, <2>4, FoundedStep
<1>4. CASE call' = [call EXCEPT ![c].round = 2, ![c].try = 1]
  <2> DEFINE r == [call[c] EXCEPT !.round = 2, !.try = 1]
  <2>1. r.stage = "asking" /\ r.sent = call[c].sent /\ r.kept = call[c].kept
    BY <1>1 DEF CallShape, CallFields
  <2>2. call' = [call EXCEPT ![c] = r]
    BY <1>4
  <2> HIDE DEF r
  <2>3. FoundedCall(r)
    BY <1>1, <2>1 DEF FoundedCall, Before
  <2> QED BY <1>1, <2>2, <2>3, FoundedStep
<1>5. CASE call' = [call EXCEPT ![c].stage = "invalid"]
  <2> DEFINE r == [call[c] EXCEPT !.stage = "invalid"]
  <2>1. r.stage = "invalid" /\ r.kept = call[c].kept
    BY <1>1 DEF CallShape, CallFields
  <2>2. call' = [call EXCEPT ![c] = r]
    BY <1>5
  <2> HIDE DEF r
  <2>3. FoundedCall(r)
    BY <1>1, <2>1 DEF FoundedCall, Before
  <2> QED BY <1>1, <2>2, <2>3, FoundedStep
<1> QED BY <1>2, <1>3, <1>4, <1>5

LEMMA FoundedEdits == ASSUME Founded, Edits PROVE Founded'
<1>1. /\ UNCHANGED call
      /\ exchange'.request = exchange.request /\ exchange'.response = exchange.response
  <2>1. CASE ClearExchange
    BY <2>1 DEF ClearExchange, Edit
  <2>2. CASE StoreTags
    BY <2>2 DEF StoreTags, Edit
  <2>3. CASE SwitchAi \/ SelectProvider \/ SavePrompt \/ ResetPrompt
    BY <2>3 DEF SwitchAi, SelectProvider, SavePrompt, ResetPrompt, Edit
  <2> QED BY <2>1, <2>2, <2>3 DEF Edits
<1> QED BY <1>1 DEF Founded, Measured, FoundedCall, Fitting, Banded

LEMMA FoundedNext ==
    Founded /\ AnalysisHolds /\ [AnalysisNext]_analysisVars => Founded'
<1> SUFFICES ASSUME Founded, AnalysisHolds, [AnalysisNext]_analysisVars PROVE Founded'
  OBVIOUS
<1>1. CASE Edits
  BY <1>1, FoundedEdits
<1>2. ASSUME NEW c \in Calls, Save(c) \/ SaveFails(c) PROVE Founded'
  <2>1. PICK stage \in {"saved", "lost"} : call' = [call EXCEPT ![c] = Over(stage)]
    BY <1>2 DEF Save, SaveFails
  <2>2. UNCHANGED exchange
    BY <1>2 DEF Save, SaveFails, inputs
  <2> QED BY <2>1, <2>2, FoundedStep, OverIsFounded
<1>3. CASE UNCHANGED <<call, exchange>>
  BY <1>3 DEF Founded, Measured, FoundedCall, Fitting, Banded
<1>4. ASSUME NEW c \in Calls, Touch(c) PROVE Founded'
  BY <1>3, <1>4 DEF Touch, inputs
<1>5. CASE UNCHANGED analysisVars
  BY <1>3, <1>5 DEF analysisVars, inputs
<1> QED BY <1>1, <1>2, <1>4, <1>5, FoundedReads, FoundedRequest, FoundedFailure, FoundedAnswer
        DEF AnalysisNext, Edits

(* A kept hypothesis cites only parts that were sent with its own request  *)
(* and is no surer than what it cites allows; the bodies that were sent    *)
(* fit the limit the user approved.                                        *)
THEOREM HypothesesGrounded == AnalysisSpec => []HypothesesAreGrounded
<1>1. AnalysisInit => Founded
  BY FoundedInit
<1>2. Founded /\ AnalysisHolds /\ [AnalysisNext]_analysisVars => Founded'
  BY FoundedNext
<1>3. Founded => HypothesesAreGrounded
  BY DEF Founded, FoundedCall, Fitting, Banded, HypothesesAreGrounded
<1> QED BY <1>1, <1>2, <1>3, AlwaysAnalysis, PTL DEF AnalysisSpec

-----------------------------------------------------------------------------
(***************************************************************************)
(* Conditions.  What recurses over them is a function whose value at a     *)
(* condition depends on its values at the condition's parts; such a        *)
(* function exists, as parts are nested less deep.                         *)
(***************************************************************************)

USE DEF Jars, BodyTargets, Leaves

(* The parts of a condition are conditions.                                *)
LEMMA PartsAreConditions ==
    \A c \in AllConditions : Children(c) \subseteq AllConditions
<1> SUFFICES ASSUME NEW c \in AllConditions, NEW d \in Children(c) PROVE d \in AllConditions
  OBVIOUS
<1>1. PICK n \in DOMAIN Conditions : c \in Conditions[n]
  BY DEF AllConditions
<1>2. d \in UNION {Conditions[m] : m \in 1 .. n - 1}
  BY <1>1, ConditionsAssumption
<1>3. n \in 1 .. Len(Conditions) /\ Len(Conditions) \in Nat
  BY ConditionsAssumption
<1>4. PICK m \in 1 .. n - 1 : d \in Conditions[m]
  BY <1>2
<1>5. m \in DOMAIN Conditions
  BY <1>3, <1>4, ConditionsAssumption
<1> QED BY <1>4, <1>5 DEF AllConditions

(* What holds of a condition when it holds of its parts holds of all.      *)
LEMMA UpTheTree ==
    ASSUME NEW D \in SUBSET AllConditions, \A c \in D : Children(c) \subseteq D,
           NEW T \in SUBSET D, \A c \in D : Children(c) \subseteq T => c \in T
    PROVE  T = D
<1> DEFINE N == Len(Conditions)
           S == {n \in 0 .. N : \A m \in 1 .. n : D \cap Conditions[m] \subseteq T}
<1>1. N \in Nat /\ DOMAIN Conditions = 1 .. N
  BY ConditionsAssumption
<1>2. 0 \in S
  BY <1>1
<1>3. ASSUME NEW n \in 1 .. N, n - 1 \in S PROVE n \in S
  <2>1. ASSUME NEW m \in 1 .. n, NEW c \in D \cap Conditions[m] PROVE c \in T
    <3>1. ASSUME NEW d \in Children(c) PROVE d \in T
      <4>1. d \in D /\ m \in DOMAIN Conditions
        BY <1>1, <3>1
      <4>2. d \in UNION {Conditions[k] : k \in 1 .. m - 1}
        BY <3>1, <4>1, ConditionsAssumption
      <4>3. PICK k \in 1 .. m - 1 : d \in Conditions[k]
        BY <4>2
      <4>4. k \in 1 .. n - 1
        BY <1>1, <4>3
      <4> QED BY <1>3, <4>1, <4>3, <4>4
    <3> QED BY <3>1
  <2>2. n \in 0 .. N
    BY <1>1
  <2> QED BY <2>1, <2>2
<1>4. N \in S
  <2>1. S \in SUBSET (0 .. N)
    OBVIOUS
  <2> HIDE DEF S
  <2> QED BY <1>1, <1>2, <1>3, <2>1, UpTo
<1>5. ASSUME NEW c \in D PROVE c \in T
  <2>1. PICK n \in 1 .. N : c \in Conditions[n]
    BY <1>1 DEF AllConditions
  <2> QED BY <1>4, <2>1
<1> QED BY <1>5

(* A step that looks only at what f says of the parts of a condition.      *)
LooksDown(step, D, V) ==
    /\ step \in [D -> [[D -> V] -> V]]
    /\ \A c \in D : \A f, g \in [D -> V] :
          (\A d \in Children(c) : f[d] = g[d]) => step[c][f] = step[c][g]

(* The function that makes such steps, for all conditions or for some that *)
(* take in their parts, exists.                                            *)
LEMMA StepsExist ==
    ASSUME NEW D \in SUBSET AllConditions, \A c \in D : Children(c) \subseteq D,
           NEW V, V # {}, NEW step, LooksDown(step, D, V)
    PROVE  \E f \in [D -> V] : f = [c \in D |-> step[c][f]]
<1> DEFINE N == Len(Conditions)
           Good(f, n) == \A m \in 1 .. n : \A c \in D \cap Conditions[m] : f[c] = step[c][f]
           T == {n \in 0 .. N : \E f \in [D -> V] : Good(f, n)}
<1>0. N \in Nat /\ DOMAIN Conditions = 1 .. N
  BY ConditionsAssumption
<1>1. 0 \in T
  <2>1. PICK x \in V : TRUE
    OBVIOUS
  <2>2. [c \in D |-> x] \in [D -> V] /\ Good([c \in D |-> x], 0) /\ 0 \in 0 .. N
    BY <1>0
  <2> QED BY <2>2
<1>2. ASSUME NEW n \in 1 .. N, n - 1 \in T PROVE n \in T
  <2>1. PICK f \in [D -> V] : Good(f, n - 1)
    BY <1>2
  <2> DEFINE g == [c \in D |-> IF c \in Conditions[n] THEN step[c][f] ELSE f[c]]
  <2>2. g \in [D -> V]
    BY DEF LooksDown
  <2>3. ASSUME NEW m \in 1 .. n, NEW c \in D \cap Conditions[m] PROVE g[c] = step[c][g]
    <3>1. g[c] = step[c][f]
      <4>1. CASE c \in Conditions[n]
        BY <4>1
      <4>2. CASE c \notin Conditions[n]
        <5>1. m \in 1 .. n - 1
          BY <1>0, <4>2
        <5> QED BY <2>1, <4>2, <5>1
      <4> QED BY <4>1, <4>2
    <3>2. ASSUME NEW d \in Children(c) PROVE f[d] = g[d]
      <4>1. d \in D
        BY <3>2
      <4>2. c \in Conditions[m] /\ m \in DOMAIN Conditions
        BY <1>0, <2>3
      <4>3. d \in UNION {Conditions[k] : k \in 1 .. m - 1}
        BY <3>2, <4>2, ConditionsAssumption
      <4>4. PICK k \in 1 .. m - 1 : d \in Conditions[k]
        BY <4>3
      <4>5. k \in 1 .. n - 1
        BY <1>0, <4>4
      <4>6. f[d] = step[d][f]
        BY <2>1, <4>1, <4>4, <4>5
      <4> QED BY <4>1, <4>6
    <3>3. step[c][f] = step[c][g]
      BY <2>2, <3>2 DEF LooksDown
    <3> QED BY <3>1, <3>3
  <2> HIDE DEF g
  <2>4. Good(g, n)
    BY <2>3
  <2>5. n \in 0 .. N
    BY <1>0
  <2> QED BY <2>2, <2>4, <2>5
<1> HIDE DEF T
<1>3. N \in T
  <2>1. T \in SUBSET (0 .. N)
    BY DEF T
  <2> QED BY <1>0, <1>1, <1>2, <2>1, UpTo
<1>4. PICK f \in [D -> V] : Good(f, N)
  BY <1>3 DEF T
<1>5. \A c \in D : f[c] = step[c][f]
  BY <1>0, <1>4 DEF AllConditions
<1>6. f = [c \in D |-> f[c]]
  OBVIOUS
<1>7. f = [c \in D |-> step[c][f]]
  BY <1>5, <1>6
<1> QED BY <1>7

(* A condition is loaded when it and its parts are in order.               *)
LEMMA LoadedConditions ==
    \A c \in AllConditions : ConditionCompiles[c] =>
        /\ c.op \in {"all", "any"} => c.of # <<>>
        /\ c.op = "for_each" => c.on.target \in Jars
        /\ \A d \in Children(c) : ConditionCompiles[d]
<1> DEFINE D == AllConditions
           Fine(c) == /\ c.op \in Leaves => SelectorCompiles(c.on)
                      /\ c.op \in {"all", "any"} => c.of # <<>>
                      /\ c.op = "for_each" => c.on.target \in Jars
           step == [c \in D |-> [f \in [D -> BOOLEAN] |-> Fine(c) /\ \A d \in Children(c) : f[d]]]
           Def(f) == f = [c \in D |->
                             /\ c.op \in Leaves => SelectorCompiles(c.on)
                             /\ c.op \in {"all", "any"} => c.of # <<>>
                             /\ c.op = "for_each" => c.on.target \in Jars
                             /\ \A d \in Children(c) : f[d]]
<1>1. LooksDown(step, D, BOOLEAN)
  BY DEF LooksDown
<1>2. PICK f \in [D -> BOOLEAN] : f = [c \in D |-> step[c][f]]
  <2>1. BOOLEAN # {}
    OBVIOUS
  <2> HIDE DEF step
  <2> QED BY <1>1, <2>1, StepsExist, PartsAreConditions
<1>3. \A c \in D : step[c][f] = (Fine(c) /\ \A d \in Children(c) : f[d])
  OBVIOUS
<1>4. Def(f)
  BY <1>2, <1>3
<1>5. Def(ConditionCompiles)
  BY <1>4 DEF ConditionCompiles
<1> QED BY <1>5

(* So is that every negation is plain.                                     *)
LEMMA PlainConditions ==
    \A c \in AllConditions : Plain[c] =>
        /\ c.op = "not" => Targets[c.of] \cap BodyTargets \subseteq {Primary[c.of].target}
        /\ \A d \in Children(c) : Plain[d]
<1> DEFINE D == AllConditions
           Fine(c) == c.op = "not" =>
                         Targets[c.of] \cap BodyTargets \subseteq {Primary[c.of].target}
           step == [c \in D |-> [f \in [D -> BOOLEAN] |-> Fine(c) /\ \A d \in Children(c) : f[d]]]
           Def(f) == f = [c \in D |->
                             /\ c.op = "not" =>
                                   Targets[c.of] \cap BodyTargets \subseteq {Primary[c.of].target}
                             /\ \A d \in Children(c) : f[d]]
<1>1. LooksDown(step, D, BOOLEAN)
  BY DEF LooksDown
<1>2. PICK f \in [D -> BOOLEAN] : f = [c \in D |-> step[c][f]]
  <2>1. BOOLEAN # {}
    OBVIOUS
  <2> HIDE DEF step
  <2> QED BY <1>1, <2>1, StepsExist, PartsAreConditions
<1>3. \A c \in D : step[c][f] = (Fine(c) /\ \A d \in Children(c) : f[d])
  OBVIOUS
<1>4. Def(f)
  BY <1>2, <1>3
<1>5. Def(Plain)
  BY <1>4 DEF Plain
<1> QED BY <1>5

(* What a condition looks at is what its parts look at.                    *)
LEMMA TargetsOfParts ==
    \A c \in AllConditions :
        Targets[c] = IF c.op \in Leaves THEN {c.on.target}
                     ELSE UNION {Targets[d] : d \in Children(c)}
<1> DEFINE D == AllConditions
           S == {c.on.target : c \in D}
           V == SUBSET S
           step == [c \in D |-> [f \in [D -> V] |-> IF c.op \in Leaves THEN {c.on.target}
                                                    ELSE UNION {f[d] : d \in Children(c)}]]
           Def(f) == f = [c \in D |-> IF c.op \in Leaves THEN {c.on.target}
                                      ELSE UNION {f[d] : d \in Children(c)}]
<1>1. ASSUME NEW c \in D, NEW f \in [D -> V] PROVE step[c][f] \in V
  <2>1. \A d \in Children(c) : f[d] \in V
    BY PartsAreConditions
  <2> QED BY <2>1
<1>2. step \in [D -> [[D -> V] -> V]]
  BY <1>1
<1>3. ASSUME NEW c \in D, NEW f \in [D -> V], NEW g \in [D -> V],
             \A d \in Children(c) : f[d] = g[d]
      PROVE  step[c][f] = step[c][g]
  <2>1. {f[d] : d \in Children(c)} = {g[d] : d \in Children(c)}
    BY <1>3
  <2> QED BY <2>1
<1>4. LooksDown(step, D, V)
  BY <1>2, <1>3 DEF LooksDown
<1>5. PICK f \in [D -> V] : f = [c \in D |-> step[c][f]]
  <2>1. V # {}
    OBVIOUS
  <2> HIDE DEF step, V
  <2> QED BY <1>4, <2>1, StepsExist, PartsAreConditions
<1>6. Def(f)
  BY <1>5
<1>7. Def(Targets)
  BY <1>6 DEF Targets
<1> QED BY <1>7

-----------------------------------------------------------------------------
(* What conditions say *)

(* The least of a set of naturals is one of them.                          *)
LEMMA LeastIsIn == \A S \in SUBSET Nat : S # {} => Min(S) \in S
BY SmallestRank DEF Min

(* The parts of a loaded condition are loaded.                             *)
LEMMA PartsAreLoaded == \A c \in Loaded : Children(c) \subseteq Loaded
BY LoadedConditions, PartsAreConditions DEF Loaded

(* How a condition has parts.                                              *)
LEMMA KindsOfConditions ==
    \A c \in AllConditions :
        /\ c.op \in Leaves \cup {"all", "any", "not", "for_each"}
        /\ c.op \in Leaves => c.on.target \in Jars \cup BodyTargets \cup {"query", "status"}
        /\ c.op \in {"all", "any"} => /\ DOMAIN c.of \subseteq Nat
                                      /\ \A i \in DOMAIN c.of : c.of[i] \in Children(c)
                                      /\ c.of # <<>> => 1 \in DOMAIN c.of
        /\ c.op \in {"not", "for_each"} => c.of \in Children(c)
<1> SUFFICES ASSUME NEW n \in DOMAIN Conditions, NEW c \in Conditions[n]
             PROVE  /\ c.op \in Leaves \cup {"all", "any", "not", "for_each"}
                    /\ c.op \in Leaves =>
                          c.on.target \in Jars \cup BodyTargets \cup {"query", "status"}
                    /\ c.op \in {"all", "any"} => /\ DOMAIN c.of \subseteq Nat
                                                  /\ \A i \in DOMAIN c.of : c.of[i] \in Children(c)
                                                  /\ c.of # <<>> => 1 \in DOMAIN c.of
                    /\ c.op \in {"not", "for_each"} => c.of \in Children(c)
  BY DEF AllConditions
<1>1. /\ c.op \in Leaves \cup {"all", "any", "not", "for_each"}
      /\ c.op \in Leaves => c.on.target \in Jars \cup BodyTargets \cup {"query", "status"}
      /\ c.op \in {"all", "any"} => c.of \in Seq(Children(c))
  BY ConditionsAssumption
<1>2. \A s \in Seq(Children(c)) :
         /\ DOMAIN s \subseteq Nat /\ \A i \in DOMAIN s : s[i] \in Children(c)
         /\ s # <<>> => 1 \in DOMAIN s
  OBVIOUS
<1>3. c.op \in {"all", "any"} => /\ DOMAIN c.of \subseteq Nat
                                 /\ \A i \in DOMAIN c.of : c.of[i] \in Children(c)
                                 /\ c.of # <<>> => 1 \in DOMAIN c.of
  BY <1>1, <1>2
<1>4. c.op \in {"not", "for_each"} => c.of \in Children(c)
  BY DEF Children
<1> QED BY <1>1, <1>2, <1>3, <1>4

(* What an evaluation is made of: whatever is found where.                 *)
Paths(v) ==
    {NoMatch.path}
    \cup {Compared(c, v, scope).path : c \in Loaded, scope \in CookieScopes(v)}
    \cup {MissingMatch(c.on, v, scope).path : c \in Loaded, scope \in CookieScopes(v)}
    \cup {MissingMatch(Primary[c.of], v, scope).path : c \in Loaded, scope \in CookieScopes(v)}

Marks(v) ==
    BOOLEAN \cup {Compared(c, v, scope).incomplete : c \in Loaded, scope \in CookieScopes(v)}

Results(v) == [held : BOOLEAN, path : Paths(v), incomplete : Marks(v)]

(* Exchanges have jars, and each of their cookies is a scope.              *)
LEMMA CookiesAreScopes ==
    ASSUME NEW v, \A t \in Jars : v.cookies[t] \in Seq(ToSet(v.cookies[t])),
           NEW c \in Loaded, c.op = "for_each"
    PROVE  /\ Cookies(c, v) \in SUBSET Nat
           /\ \A j \in Cookies(c, v) : <<c.on.target, j>> \in CookieScopes(v)
<1>1. c.on.target \in Jars
  BY LoadedConditions DEF Loaded
<1>2. \A j \in Cookies(c, v) : j \in DOMAIN v.cookies[c.on.target]
  BY DEF Cookies
<1>3. DOMAIN v.cookies[c.on.target] \subseteq Nat
  BY <1>1
<1>4. ASSUME NEW j \in Cookies(c, v) PROVE <<c.on.target, j>> \in CookieScopes(v)
  BY <1>1, <1>2 DEF CookieScopes
<1> QED BY <1>2, <1>3, <1>4

(* Each kind of condition says something of that form.                     *)
LEMMA SaysAResult ==
    ASSUME NEW v, \A t \in Jars : v.cookies[t] \in Seq(ToSet(v.cookies[t])),
           NEW c \in Loaded, NEW said \in [Loaded -> [CookieScopes(v) -> Results(v)]],
           NEW scope \in CookieScopes(v)
    PROVE  Combined(c, v, scope, said) \in Results(v)
<1> DEFINE is == {i \in DOMAIN c.of : said[c.of[i]][scope].held}
           js == {j \in Cookies(c, v) : said[c.of][<<c.on.target, j>>].held}
<1>1. c \in AllConditions /\ Children(c) \subseteq Loaded
  BY PartsAreLoaded DEF Loaded
<1>2. NoMatch \in Results(v)
  BY DEF Results, Marks, Paths, NoMatch
<1>3. ASSUME NEW d \in Loaded, NEW s \in CookieScopes(v) PROVE said[d][s] \in Results(v)
  OBVIOUS
<1>4. CASE c.op \in Leaves \ {"missing"}
  <2>1. Combined(c, v, scope, said) = Compared(c, v, scope)
    BY <1>4 DEF Combined
  <2>2. \E h \in BOOLEAN : \E p, m :
           Compared(c, v, scope) = [held |-> h, path |-> p, incomplete |-> m]
    BY DEF Compared, NoMatch, Match
  <2>3. Compared(c, v, scope).path \in Paths(v) /\ Compared(c, v, scope).incomplete \in Marks(v)
    BY DEF Paths, Marks
  <2> HIDE DEF is, js
  <2>4. Compared(c, v, scope) \in Results(v)
    BY <2>2, <2>3 DEF Results
  <2> QED BY <2>1, <2>4
<1>5. CASE c.op = "missing"
  <2>1. Combined(c, v, scope, said) \in {MissingMatch(c.on, v, scope), NoMatch}
    BY <1>5 DEF Combined
  <2>2. MissingMatch(c.on, v, scope).path \in Paths(v)
    BY DEF Paths
  <2>3. MissingMatch(c.on, v, scope) \in Results(v)
    BY <2>2 DEF MissingMatch, Match, Results, Marks
  <2> QED BY <1>2, <2>1, <2>3
<1>6. CASE c.op = "all"
  <2>1. Combined(c, v, scope, said) =
           IF is = {} \/ is # DOMAIN c.of THEN NoMatch
           ELSE Match(said[c.of[1]][scope].path, \E i \in is : said[c.of[i]][scope].incomplete)
    BY <1>6 DEF Combined
  <2>2. is # {} /\ is = DOMAIN c.of => 1 \in DOMAIN c.of
    BY <1>1, <1>6, KindsOfConditions, LoadedConditions DEF Loaded
  <2>3. 1 \in DOMAIN c.of => said[c.of[1]][scope] \in Results(v)
    BY <1>1, <1>3, <1>6, KindsOfConditions
  <2>4. 1 \in DOMAIN c.of =>
           Match(said[c.of[1]][scope].path, \E i \in is : said[c.of[i]][scope].incomplete)
              \in Results(v)
    BY <2>3 DEF Match, Results, Marks
  <2> QED BY <1>2, <2>1, <2>2, <2>4
<1>7. CASE c.op = "any"
  <2>1. Combined(c, v, scope, said) = IF is = {} THEN NoMatch ELSE said[c.of[Min(is)]][scope]
    BY <1>7 DEF Combined
  <2>2. is # {} => Min(is) \in is
    BY <1>1, <1>7, KindsOfConditions, LeastIsIn
  <2>3. is # {} => c.of[Min(is)] \in Loaded
    BY <1>1, <1>7, <2>2, KindsOfConditions
  <2> HIDE DEF is
  <2> QED BY <1>2, <1>3, <2>1, <2>3
<1>8. CASE c.op = "not"
  <2>1. Combined(c, v, scope, said) \in {MissingMatch(Primary[c.of], v, scope), NoMatch}
    BY <1>8 DEF Combined
  <2>2. MissingMatch(Primary[c.of], v, scope).path \in Paths(v)
    BY DEF Paths
  <2>3. MissingMatch(Primary[c.of], v, scope) \in Results(v)
    BY <2>2 DEF MissingMatch, Match, Results, Marks
  <2> QED BY <1>2, <2>1, <2>3
<1>9. CASE c.op = "for_each"
  <2>1. Combined(c, v, scope, said) =
           IF js = {} THEN NoMatch ELSE said[c.of][<<c.on.target, Min(js)>>]
    BY <1>9 DEF Combined
  <2>2. js \in SUBSET Nat /\ \A j \in js : <<c.on.target, j>> \in CookieScopes(v)
    BY <1>9, CookiesAreScopes
  <2>3. js # {} => Min(js) \in js
    BY <2>2, LeastIsIn
  <2>4. c.of \in Loaded
    BY <1>1, <1>9, KindsOfConditions
  <2> HIDE DEF js
  <2> QED BY <1>2, <1>3, <2>1, <2>2, <2>3, <2>4
<1> QED BY <1>1, <1>4, <1>5, <1>6, <1>7, <1>8, <1>9, KindsOfConditions

(* It depends on what the parts say.                                       *)
LEMMA SaysWhatPartsSay ==
    ASSUME NEW v, NEW c \in Loaded, NEW scope, NEW f, NEW g,
           \A d \in Children(c) : f[d] = g[d]
    PROVE  Combined(c, v, scope, f) = Combined(c, v, scope, g)
<1>1. c \in AllConditions
  BY DEF Loaded
<1>2. CASE c.op \in Leaves
  BY <1>2 DEF Combined
<1>3. CASE c.op \in {"all", "any"}
  <2>1. \A i \in DOMAIN c.of : f[c.of[i]] = g[c.of[i]]
    BY <1>1, <1>3, KindsOfConditions
  <2>2. DOMAIN c.of \subseteq Nat /\ (c.of # <<>> => 1 \in DOMAIN c.of) /\ c.of # <<>>
    BY <1>1, <1>3, KindsOfConditions, LoadedConditions DEF Loaded
  <2>3. {i \in DOMAIN c.of : f[c.of[i]][scope].held}
           = {i \in DOMAIN c.of : g[c.of[i]][scope].held}
    BY <2>1
  <2> DEFINE is == {i \in DOMAIN c.of : f[c.of[i]][scope].held}
             mark == \E i \in is : f[c.of[i]][scope].incomplete
             other == \E i \in is : g[c.of[i]][scope].incomplete
  <2>4. mark = other
    BY <2>1
  <2>5. is # {} => Min(is) \in DOMAIN c.of
    BY <2>2, LeastIsIn
  <2>6. CASE c.op = "all"
    <3>1. Combined(c, v, scope, f) =
             IF is = {} \/ is # DOMAIN c.of THEN NoMatch
             ELSE Match(f[c.of[1]][scope].path, mark)
      BY <2>6 DEF Combined
    <3>2. Combined(c, v, scope, g) =
             IF is = {} \/ is # DOMAIN c.of THEN NoMatch
             ELSE Match(g[c.of[1]][scope].path, other)
      BY <2>3, <2>6 DEF Combined
    <3>3. f[c.of[1]] = g[c.of[1]]
      BY <2>1, <2>2
    <3> HIDE DEF is, mark, other
    <3> QED BY <2>4, <3>1, <3>2, <3>3
  <2>7. CASE c.op = "any"
    <3>1. Combined(c, v, scope, f) = IF is = {} THEN NoMatch ELSE f[c.of[Min(is)]][scope]
      BY <2>7 DEF Combined
    <3>2. Combined(c, v, scope, g) = IF is = {} THEN NoMatch ELSE g[c.of[Min(is)]][scope]
      BY <2>3, <2>7 DEF Combined
    <3> HIDE DEF is
    <3> QED BY <2>1, <2>5, <3>1, <3>2
  <2> QED BY <1>3, <2>6, <2>7
<1>4. CASE c.op \in {"not", "for_each"}
  <2>1. f[c.of] = g[c.of]
    BY <1>1, <1>4, KindsOfConditions
  <2> QED BY <1>4, <2>1 DEF Combined
<1> QED BY <1>1, <1>2, <1>3, <1>4, KindsOfConditions

(* So the evaluation exists, and says of a condition what its kind says    *)
(* given what it says of its parts.                                        *)
LEMMA EvaluationHolds ==
    ASSUME NEW v, \A t \in Jars : v.cookies[t] \in Seq(ToSet(v.cookies[t]))
    PROVE  /\ Evaluate(v) \in [Loaded -> [CookieScopes(v) -> Results(v)]]
           /\ \A c \in Loaded : \A scope \in CookieScopes(v) :
                 Evaluate(v)[c][scope] = Combined(c, v, scope, Evaluate(v))
<1> DEFINE D == Loaded
           V == [CookieScopes(v) -> Results(v)]
           step == [c \in D |-> [f \in [D -> V] |->
                       [scope \in CookieScopes(v) |-> Combined(c, v, scope, f)]]]
           Def(f) == f = [c \in D |-> [scope \in CookieScopes(v) |-> Combined(c, v, scope, f)]]
<1>1. step \in [D -> [[D -> V] -> V]]
  <2>1. ASSUME NEW c \in D, NEW f \in [D -> V], NEW scope \in CookieScopes(v)
        PROVE  Combined(c, v, scope, f) \in Results(v)
    BY SaysAResult
  <2> QED BY <2>1
<1>2. ASSUME NEW c \in D, NEW f \in [D -> V], NEW g \in [D -> V],
             \A d \in Children(c) : f[d] = g[d]
      PROVE  step[c][f] = step[c][g]
  <2>1. \A scope \in CookieScopes(v) : Combined(c, v, scope, f) = Combined(c, v, scope, g)
    BY <1>2, SaysWhatPartsSay
  <2> QED BY <2>1
<1>3. LooksDown(step, D, V)
  BY <1>1, <1>2 DEF LooksDown
<1>4. PICK f \in [D -> V] : f = [c \in D |-> step[c][f]]
  <2>1. V # {}
    <3>1. NoMatch \in Results(v)
      BY DEF Results, Marks, Paths, NoMatch
    <3>2. [scope \in CookieScopes(v) |-> NoMatch] \in V
      BY <3>1
    <3> QED BY <3>2
  <2>2. D \in SUBSET AllConditions
    BY DEF Loaded
  <2>3. \A c \in D : Children(c) \subseteq D
    BY PartsAreLoaded
  <2> HIDE DEF step, V, D
  <2> QED BY <1>3, <2>1, <2>2, <2>3, StepsExist
<1>5. Def(f)
  BY <1>4
<1> DEFINE said == CHOOSE g : Def(g)
<1>6. Def(said)
  BY <1>5
<1>7. Evaluate(v) = said
  BY DEF Evaluate
<1>8. \A c \in D : said[c] = [scope \in CookieScopes(v) |-> Combined(c, v, scope, said)]
  <2> HIDE DEF said
  <2> QED BY <1>6
<1>9. said \in [D -> V]
  <2> DEFINE T == {c \in D : said[c] \in V}
  <2>1. ASSUME NEW c \in D, Children(c) \subseteq T PROVE c \in T
    <3> DEFINE h == [d \in D |-> IF d \in Children(c) THEN said[d] ELSE f[d]]
    <3>1. h \in [D -> V] /\ \A d \in Children(c) : h[d] = said[d]
      BY <2>1, PartsAreLoaded
    <3> HIDE DEF h, said, V
    <3>2. ASSUME NEW scope \in CookieScopes(v) PROVE Combined(c, v, scope, said) \in Results(v)
      <4>1. Combined(c, v, scope, h) \in Results(v)
        BY <3>1, SaysAResult DEF V
      <4>2. Combined(c, v, scope, h) = Combined(c, v, scope, said)
        BY <3>1, SaysWhatPartsSay
      <4> QED BY <4>1, <4>2
    <3>3. said[c] \in V
      BY <1>8, <3>2 DEF V
    <3> QED BY <3>3
  <2>2. T = D
    <3>1. D \in SUBSET AllConditions /\ \A c \in D : Children(c) \subseteq D
      BY PartsAreLoaded DEF Loaded
    <3> HIDE DEF T, D
    <3>2. T \in SUBSET D
      BY DEF T
    <3> QED BY <2>1, <3>1, <3>2, UpTheTree
  <2>3. \A c \in D : said[c] \in V
    BY <2>2
  <2>4. said = [c \in D |-> said[c]]
    <3> HIDE DEF said
    <3> QED BY <1>6
  <2> HIDE DEF said, V
  <2> QED BY <2>3, <2>4
<1> HIDE DEF said
<1> QED BY <1>7, <1>8, <1>9

-----------------------------------------------------------------------------
(* Hits on cut bodies *)

CutBodies(v) == {t \in BodyTargets : v.bodies[t].cut}

(* Two exchanges that differ in bodies that are cut in the first.          *)
Alike(v, w) ==
    /\ v.cookies = w.cookies /\ v.query = w.query /\ v.status = w.status
    /\ \A t \in BodyTargets \ CutBodies(v) : v.bodies[t] = w.bodies[t]
    /\ \A t \in Jars : v.cookies[t] \in Seq(ToSet(v.cookies[t]))
    /\ \A t \in BodyTargets : v.bodies[t].cut \in BOOLEAN

(* A body that is not cut is whole.                                        *)
LEMMA WholeBodiesStay == ASSUME NEW body, ~body.cut PROVE Completions(body) = {body}
BY SMT DEF Completions

(* However a cut body goes on, the exchange is alike.                      *)
LEMMA WholeIsAlike ==
    ASSUME NEW v \in Exchanges, NEW w \in Whole(v) PROVE Alike(v, w)
<1>1. /\ v \in [status : {v.status}, cookies : {v.cookies}, query : {v.query},
                bodies : [BodyTargets -> {v.bodies[t] : t \in BodyTargets}]]
      /\ \A t \in BodyTargets : v.bodies[t].cut \in BOOLEAN
      /\ \A t \in Jars : v.cookies[t] \in Seq(ToSet(v.cookies[t]))
  BY ExchangesAssumption
<1>2. PICK q \in Completions(v.bodies["request_body"]),
           p \in Completions(v.bodies["response_body"]) :
          w = [v EXCEPT !.bodies = [request_body |-> q, response_body |-> p]]
  BY DEF Whole
<1>3. w.cookies = v.cookies /\ w.query = v.query /\ w.status = v.status
  BY <1>1, <1>2
<1>4. w.bodies = [request_body |-> q, response_body |-> p]
  BY <1>1, <1>2
<1>5. \A body : ~body.cut => Completions(body) = {body}
  BY WholeBodiesStay
<1>6. ~v.bodies["request_body"].cut => w.bodies["request_body"] = v.bodies["request_body"]
  BY <1>1, <1>2, <1>4, <1>5
<1>7. ~v.bodies["response_body"].cut => w.bodies["response_body"] = v.bodies["response_body"]
  BY <1>1, <1>2, <1>4, <1>5
<1>8. \A t \in BodyTargets \ CutBodies(v) : v.bodies[t] = w.bodies[t]
  BY <1>6, <1>7 DEF CutBodies
<1> QED BY <1>1, <1>3, <1>8 DEF Alike

(* What is not read in a cut body is read alike.                           *)
LEMMA SameCandidates ==
    ASSUME NEW v, NEW w, Alike(v, w), NEW s, NEW scope,
           s.target \in Jars \cup BodyTargets \cup {"query", "status"},
           s.target \notin CutBodies(v)
    PROVE  Candidates(s, v, scope) = Candidates(s, w, scope)
<1>1. CASE s.target \in Jars
  BY <1>1 DEF Candidates, Alike
<1>2. CASE s.target \in BodyTargets
  <2>1. v.bodies[s.target] = w.bodies[s.target]
    BY <1>2 DEF Alike
  <2> QED BY <1>2, <2>1 DEF Candidates
<1>3. CASE s.target \in {"query", "status"}
  BY <1>3 DEF Candidates, Alike
<1> QED BY <1>1, <1>2, <1>3

(* What is found in a cut body is marked.                                  *)
LEMMA CutIsMarked ==
    ASSUME NEW v, NEW c, NEW scope, c.on.target \in CutBodies(v), Compared(c, v, scope).held
    PROVE  Compared(c, v, scope).incomplete
<1> DEFINE ds == Candidates(c.on, v, scope)
           is == {i \in DOMAIN ds : Holds(c.op, c.value, ds[i].value)}
           body == v.bodies[c.on.target]
<1>1. ds = FromBody(c.on, body) /\ body.cut
  BY DEF Candidates, CutBodies
<1>2. ds = <<>> \/ \E path, value : ds = <<Candidate(path, value, body.cut)>>
  <2> HIDE DEF body
  <2> QED BY <1>1 DEF FromBody
<1>3. is # {} /\ Compared(c, v, scope) = Match(ds[Min(is)].path, ds[Min(is)].incomplete)
  <2> HIDE DEF ds
  <2>1. Compared(c, v, scope) =
            IF is = {} THEN NoMatch ELSE Match(ds[Min(is)].path, ds[Min(is)].incomplete)
    BY DEF Compared, ds
  <2> QED BY <2>1 DEF NoMatch
<1>4. is \in SUBSET {1}
  <2> HIDE DEF body
  <2> QED BY <1>2
<1>5. Min(is) = 1
  BY <1>3, <1>4, LeastIsIn
<1>6. ds[1].incomplete
  <2>1. ds # <<>>
    <3> HIDE DEF ds
    <3> QED BY <1>3
  <2>2. ds[1].incomplete = body.cut
    <3> HIDE DEF body, ds
    <3> QED BY <1>2, <2>1 DEF Candidate
  <2> QED BY <1>1, <2>2
<1> QED
  <2> HIDE DEF ds, is
  <2> QED BY <1>3, <1>5, <1>6 DEF Match

(* What looks at no cut body holds alike.                                  *)
LEMMA HoldsAlike ==
    ASSUME NEW v, NEW w, Alike(v, w)
    PROVE  \A c \in Loaded : Targets[c] \cap CutBodies(v) = {} =>
              \A scope \in CookieScopes(v) :
                 Evaluate(v)[c][scope].held <=> Evaluate(w)[c][scope].held
<1> DEFINE Says(c) == \A scope \in CookieScopes(v) :
                         Evaluate(v)[c][scope].held <=> Evaluate(w)[c][scope].held
           T == {c \in Loaded : Targets[c] \cap CutBodies(v) = {} => Says(c)}
<1>1. \A t \in Jars : v.cookies[t] \in Seq(ToSet(v.cookies[t]))
  BY DEF Alike
<1>2. v.cookies = w.cookies /\ CookieScopes(v) = CookieScopes(w)
  BY DEF Alike, CookieScopes
<1>3. \A t \in Jars : w.cookies[t] \in Seq(ToSet(w.cookies[t]))
  BY <1>1, <1>2
<1> DEFINE f == Evaluate(v)
           g == Evaluate(w)
<1>4. \A c \in Loaded : \A scope \in CookieScopes(v) :
         f[c][scope] = Combined(c, v, scope, f) /\ g[c][scope] = Combined(c, w, scope, g)
  BY <1>1, <1>2, <1>3, EvaluationHolds
<1> HIDE DEF f, g
<1>5. ASSUME NEW c \in Loaded, Children(c) \subseteq T, Targets[c] \cap CutBodies(v) = {},
             NEW scope \in CookieScopes(v)
      PROVE  Combined(c, v, scope, f).held <=> Combined(c, w, scope, g).held
  <2>1. c \in AllConditions /\ Children(c) \subseteq Loaded
    BY PartsAreLoaded DEF Loaded
  <2>2. c.op \notin Leaves => \A d \in Children(c) : Targets[d] \cap CutBodies(v) = {}
    BY <1>5, <2>1, TargetsOfParts
  <2>3. c.op \notin Leaves =>
           \A d \in Children(c) : \A s \in CookieScopes(v) : f[d][s].held <=> g[d][s].held
    BY <1>5, <2>2 DEF f, g
  <2>4. CASE c.op \in Leaves
    <3>1. Targets[c] = {c.on.target}
      BY <2>1, <2>4, TargetsOfParts
    <3>2. /\ c.on.target \in Jars \cup BodyTargets \cup {"query", "status"}
          /\ c.on.target \notin CutBodies(v)
      BY <1>5, <2>1, <2>4, <3>1, KindsOfConditions
    <3>3. Candidates(c.on, v, scope) = Candidates(c.on, w, scope)
      BY <3>2, SameCandidates
    <3>4. CASE c.op = "missing"
      BY <3>3, <3>4 DEF Combined, MissingMatch, Match, NoMatch
    <3>5. CASE c.op # "missing"
      <4>1. Compared(c, v, scope) = Compared(c, w, scope)
        BY <3>3 DEF Compared
      <4> QED BY <2>4, <3>5, <4>1 DEF Combined
    <3> QED BY <3>4, <3>5
  <2>5. CASE c.op \in {"all", "any"}
    <3>1. \A i \in DOMAIN c.of : c.of[i] \in Children(c)
      BY <2>1, <2>5, KindsOfConditions
    <3>2. \A i \in DOMAIN c.of : f[c.of[i]][scope].held <=> g[c.of[i]][scope].held
      BY <2>3, <2>5, <3>1
    <3> DEFINE is == {i \in DOMAIN c.of : f[c.of[i]][scope].held}
               ks == {i \in DOMAIN c.of : g[c.of[i]][scope].held}
    <3>3. is = ks
      BY <3>2
    <3>4. DOMAIN c.of \subseteq Nat
      BY <2>1, <2>5, KindsOfConditions
    <3>5. is # {} => Min(is) \in is
      BY <3>4, LeastIsIn
    <3>6. CASE c.op = "all"
      <4>1. Combined(c, v, scope, f).held <=> ~(is = {} \/ is # DOMAIN c.of)
        BY <3>6 DEF Combined, NoMatch, Match
      <4>2. Combined(c, w, scope, g).held <=> ~(ks = {} \/ ks # DOMAIN c.of)
        BY <3>6 DEF Combined, NoMatch, Match
      <4> QED BY <3>3, <4>1, <4>2
    <3>7. CASE c.op = "any"
      <4>1. Combined(c, v, scope, f) = IF is = {} THEN NoMatch ELSE f[c.of[Min(is)]][scope]
        BY <3>7 DEF Combined
      <4>2. Combined(c, w, scope, g) = IF ks = {} THEN NoMatch ELSE g[c.of[Min(ks)]][scope]
        BY <3>7 DEF Combined
      <4>3. is # {} => f[c.of[Min(is)]][scope].held /\ g[c.of[Min(ks)]][scope].held
        BY <3>3, <3>5
      <4> HIDE DEF is, ks
      <4> QED BY <3>3, <4>1, <4>2, <4>3
    <3> QED BY <2>5, <3>6, <3>7
  <2>6. CASE c.op = "not"
    <3>1. f[c.of][scope].held <=> g[c.of][scope].held
      BY <2>1, <2>3, <2>6, KindsOfConditions
    <3>2. Combined(c, v, scope, f).held <=> ~f[c.of][scope].held
      BY <2>6 DEF Combined, NoMatch, MissingMatch, Match
    <3>3. Combined(c, w, scope, g).held <=> ~g[c.of][scope].held
      BY <2>6 DEF Combined, NoMatch, MissingMatch, Match
    <3> QED BY <3>1, <3>2, <3>3
  <2>7. CASE c.op = "for_each"
    <3> DEFINE is == {j \in Cookies(c, v) : f[c.of][<<c.on.target, j>>].held}
               ks == {j \in Cookies(c, w) : g[c.of][<<c.on.target, j>>].held}
    <3>1. Cookies(c, v) = Cookies(c, w)
      BY <1>2 DEF Cookies
    <3>2. /\ Cookies(c, v) \in SUBSET Nat
          /\ \A j \in Cookies(c, v) : <<c.on.target, j>> \in CookieScopes(v)
      BY <1>1, <2>7, CookiesAreScopes
    <3>3. \A j \in Cookies(c, v) :
             f[c.of][<<c.on.target, j>>].held <=> g[c.of][<<c.on.target, j>>].held
      BY <2>1, <2>3, <2>7, <3>2, KindsOfConditions
    <3>4. is = ks
      BY <3>1, <3>3
    <3>5. is # {} => Min(is) \in is
      BY <3>2, LeastIsIn
    <3>6. Combined(c, v, scope, f) =
             IF is = {} THEN NoMatch ELSE f[c.of][<<c.on.target, Min(is)>>]
      BY <2>7 DEF Combined
    <3>7. Combined(c, w, scope, g) =
             IF ks = {} THEN NoMatch ELSE g[c.of][<<c.on.target, Min(ks)>>]
      BY <2>7 DEF Combined
    <3>8. is # {} => /\ f[c.of][<<c.on.target, Min(is)>>].held
                     /\ g[c.of][<<c.on.target, Min(ks)>>].held
      BY <3>4, <3>5
    <3> HIDE DEF is, ks
    <3> QED BY <3>4, <3>6, <3>7, <3>8
  <2> QED BY <2>1, <2>4, <2>5, <2>6, <2>7, KindsOfConditions
<1>6. ASSUME NEW c \in Loaded, Children(c) \subseteq T PROVE c \in T
  <2>1. ASSUME Targets[c] \cap CutBodies(v) = {}, NEW scope \in CookieScopes(v)
        PROVE  f[c][scope].held <=> g[c][scope].held
    BY <1>4, <1>5, <1>6, <2>1
  <2> QED BY <2>1 DEF f, g
<1>7. T = Loaded
  <2>1. Loaded \in SUBSET AllConditions /\ \A c \in Loaded : Children(c) \subseteq Loaded
    BY PartsAreLoaded DEF Loaded
  <2>2. T \in SUBSET Loaded
    OBVIOUS
  <2> HIDE DEF T
  <2> QED BY <1>6, <2>1, <2>2, UpTheTree
<1> QED BY <1>7

(* In a plain condition what holds and is not marked holds however the cut *)
(* bodies go on.                                                           *)
LEMMA UnmarkedHolds ==
    ASSUME NEW v, NEW w, Alike(v, w)
    PROVE  \A c \in Loaded : Plain[c] =>
              \A scope \in CookieScopes(v) :
                 Evaluate(v)[c][scope].held /\ ~Evaluate(v)[c][scope].incomplete
                 => Evaluate(w)[c][scope].held
<1> DEFINE f == Evaluate(v)
           g == Evaluate(w)
           Keeps(c) == \A scope \in CookieScopes(v) :
                          f[c][scope].held /\ ~f[c][scope].incomplete => g[c][scope].held
           T == {c \in Loaded : Plain[c] => Keeps(c)}
<1>1. \A t \in Jars : v.cookies[t] \in Seq(ToSet(v.cookies[t]))
  BY DEF Alike
<1>2. v.cookies = w.cookies /\ CookieScopes(v) = CookieScopes(w)
  BY DEF Alike, CookieScopes
<1>3. \A t \in Jars : w.cookies[t] \in Seq(ToSet(w.cookies[t]))
  BY <1>1, <1>2
<1>4. \A c \in Loaded : \A scope \in CookieScopes(v) :
         f[c][scope] = Combined(c, v, scope, f) /\ g[c][scope] = Combined(c, w, scope, g)
  BY <1>1, <1>2, <1>3, EvaluationHolds
<1>5. \A c \in Loaded : Targets[c] \cap CutBodies(v) = {} =>
         \A scope \in CookieScopes(v) : f[c][scope].held <=> g[c][scope].held
  BY HoldsAlike
<1> HIDE DEF f, g
<1>6. ASSUME NEW c \in Loaded, Children(c) \subseteq T, Plain[c], NEW scope \in CookieScopes(v),
             f[c][scope].held, ~f[c][scope].incomplete
      PROVE  g[c][scope].held
  <2>1. c \in AllConditions /\ Children(c) \subseteq Loaded
    BY PartsAreLoaded DEF Loaded
  <2>2. \A d \in Children(c) : Keeps(d)
    BY <1>6, <2>1, PlainConditions
  <2>3. /\ f[c][scope] = Combined(c, v, scope, f)
        /\ g[c][scope] = Combined(c, w, scope, g)
    BY <1>4
  <2>4. CASE c.op \in Leaves
    <3>1. Targets[c] = {c.on.target}
      BY <2>1, <2>4, TargetsOfParts
    <3>2. c.on.target \notin CutBodies(v)
      <4> SUFFICES ASSUME c.on.target \in CutBodies(v) PROVE FALSE
        OBVIOUS
      <4>1. CASE c.op = "missing"
        <5>1. f[c][scope] \in {MissingMatch(c.on, v, scope), NoMatch}
          BY <2>3, <4>1 DEF Combined
        <5>2. MissingMatch(c.on, v, scope).incomplete
          BY DEF MissingMatch, Match, CutBodies
        <5>3. ~NoMatch.held
          BY DEF NoMatch
        <5> QED BY <1>6, <5>1, <5>2, <5>3
      <4>2. CASE c.op # "missing"
        <5>1. f[c][scope] = Compared(c, v, scope)
          BY <2>3, <2>4, <4>2 DEF Combined
        <5>2. Compared(c, v, scope).held
          BY <1>6, <5>1
        <5>3. Compared(c, v, scope).incomplete
          BY <5>2, CutIsMarked
        <5> QED BY <1>6, <5>1, <5>3
      <4> QED BY <4>1, <4>2
    <3> QED BY <1>5, <1>6, <3>1, <3>2
  <2>5. CASE c.op \in {"all", "any"}
    <3>1. \A i \in DOMAIN c.of : c.of[i] \in Children(c)
      BY <2>1, <2>5, KindsOfConditions
    <3> DEFINE is == {i \in DOMAIN c.of : f[c.of[i]][scope].held}
               ks == {i \in DOMAIN c.of : g[c.of[i]][scope].held}
    <3>2. DOMAIN c.of \subseteq Nat
      BY <2>1, <2>5, KindsOfConditions
    <3>3. is # {} => Min(is) \in is
      BY <3>2, LeastIsIn
    <3>4. ks # {} => Min(ks) \in ks
      BY <3>2, LeastIsIn
    <3>5. CASE c.op = "all"
      <4> DEFINE mark == \E i \in is : f[c.of[i]][scope].incomplete
      <4>1. f[c][scope] = IF is = {} \/ is # DOMAIN c.of THEN NoMatch
                          ELSE Match(f[c.of[1]][scope].path, mark)
        BY <2>3, <3>5 DEF Combined
      <4>2. is # {} /\ is = DOMAIN c.of /\ ~mark
        <5> HIDE DEF is, mark
        <5> QED BY <1>6, <4>1 DEF NoMatch, Match
      <4>3. \A i \in DOMAIN c.of : f[c.of[i]][scope].held /\ ~f[c.of[i]][scope].incomplete
        BY <4>2
      <4>4. \A i \in DOMAIN c.of : g[c.of[i]][scope].held
        BY <2>2, <3>1, <4>3
      <4>5. ks # {} /\ ks = DOMAIN c.of
        BY <4>2, <4>4
      <4> DEFINE other == \E i \in ks : g[c.of[i]][scope].incomplete
      <4>6. g[c][scope] = IF ks = {} \/ ks # DOMAIN c.of THEN NoMatch
                          ELSE Match(g[c.of[1]][scope].path, other)
        BY <2>3, <3>5 DEF Combined
      <4> HIDE DEF ks, other
      <4> QED BY <4>5, <4>6 DEF Match
    <3>6. CASE c.op = "any"
      <4>1. f[c][scope] = IF is = {} THEN NoMatch ELSE f[c.of[Min(is)]][scope]
        BY <2>3, <3>6 DEF Combined
      <4>2. g[c][scope] = IF ks = {} THEN NoMatch ELSE g[c.of[Min(ks)]][scope]
        BY <2>3, <3>6 DEF Combined
      <4>3. is # {} /\ f[c][scope] = f[c.of[Min(is)]][scope]
        <5> HIDE DEF is
        <5> QED BY <1>6, <4>1 DEF NoMatch
      <4>4. Min(is) \in DOMAIN c.of /\ g[c.of[Min(is)]][scope].held
        <5>1. Min(is) \in DOMAIN c.of /\ c.of[Min(is)] \in Children(c)
          BY <3>1, <3>3, <4>3
        <5> HIDE DEF is
        <5> QED BY <1>6, <2>2, <4>3, <5>1
      <4>5. ks # {}
        <5>1. PICK i \in DOMAIN c.of : g[c.of[i]][scope].held
          BY <4>4
        <5> QED BY <5>1
      <4>6. g[c.of[Min(ks)]][scope].held
        BY <3>4, <4>5
      <4> HIDE DEF ks
      <4> QED BY <4>2, <4>5, <4>6
    <3> QED BY <2>5, <3>5, <3>6
  <2>6. CASE c.op = "not"
    <3>1. c.of \in Children(c) /\ c.of \in Loaded
      BY <2>1, <2>6, KindsOfConditions
    <3>2. f[c][scope] =
             IF f[c.of][scope].held THEN NoMatch ELSE MissingMatch(Primary[c.of], v, scope)
      BY <2>3, <2>6 DEF Combined
    <3>3. ~f[c.of][scope].held /\ f[c][scope] = MissingMatch(Primary[c.of], v, scope)
      BY <1>6, <3>2 DEF NoMatch
    <3>4. Primary[c.of].target \notin CutBodies(v)
      <4>1. ~MissingMatch(Primary[c.of], v, scope).incomplete
        BY <1>6, <3>3
      <4> QED BY <4>1 DEF MissingMatch, Match, CutBodies
    <3>5. Targets[c.of] \cap BodyTargets \subseteq {Primary[c.of].target}
      BY <1>6, <2>1, <2>6, PlainConditions
    <3>6. Targets[c.of] \cap CutBodies(v) = {}
      BY <3>4, <3>5 DEF CutBodies
    <3>7. ~g[c.of][scope].held
      BY <1>5, <3>1, <3>3, <3>6
    <3>8. g[c][scope] = MissingMatch(Primary[c.of], w, scope)
      BY <2>3, <2>6, <3>7 DEF Combined
    <3> QED BY <3>8 DEF MissingMatch, Match
  <2>7. CASE c.op = "for_each"
    <3> DEFINE is == {j \in Cookies(c, v) : f[c.of][<<c.on.target, j>>].held}
               ks == {j \in Cookies(c, w) : g[c.of][<<c.on.target, j>>].held}
    <3>1. Cookies(c, v) = Cookies(c, w)
      BY <1>2 DEF Cookies
    <3>2. /\ Cookies(c, v) \in SUBSET Nat
          /\ \A j \in Cookies(c, v) : <<c.on.target, j>> \in CookieScopes(v)
      BY <1>1, <2>7, CookiesAreScopes
    <3>3. is # {} => Min(is) \in is
      BY <3>2, LeastIsIn
    <3>4. ks # {} => Min(ks) \in ks
      BY <3>1, <3>2, LeastIsIn
    <3>5. f[c][scope] = IF is = {} THEN NoMatch ELSE f[c.of][<<c.on.target, Min(is)>>]
      BY <2>3, <2>7 DEF Combined
    <3>6. g[c][scope] = IF ks = {} THEN NoMatch ELSE g[c.of][<<c.on.target, Min(ks)>>]
      BY <2>3, <2>7 DEF Combined
    <3>7. is # {} /\ f[c][scope] = f[c.of][<<c.on.target, Min(is)>>]
      <4> HIDE DEF is
      <4> QED BY <1>6, <3>5 DEF NoMatch
    <3>8. PICK j \in Cookies(c, v) : f[c.of][<<c.on.target, j>>] = f[c][scope]
      BY <3>3, <3>7
    <3>9. g[c.of][<<c.on.target, j>>].held
      <4>1. c.of \in Children(c) /\ <<c.on.target, j>> \in CookieScopes(v)
        BY <2>1, <2>7, <3>2, <3>8, KindsOfConditions
      <4>2. Keeps(c.of)
        BY <2>2, <4>1
      <4> QED BY <1>6, <3>8, <4>1, <4>2
    <3>10. ks # {}
      BY <3>1, <3>9
    <3>11. g[c.of][<<c.on.target, Min(ks)>>].held
      BY <3>4, <3>10
    <3> HIDE DEF ks
    <3> QED BY <3>6, <3>10, <3>11
  <2> QED BY <2>1, <2>4, <2>5, <2>6, <2>7, KindsOfConditions
<1>7. ASSUME NEW c \in Loaded, Children(c) \subseteq T PROVE c \in T
  BY <1>6, <1>7
<1>8. T = Loaded
  <2>1. Loaded \in SUBSET AllConditions /\ \A c \in Loaded : Children(c) \subseteq Loaded
    BY PartsAreLoaded DEF Loaded
  <2>2. T \in SUBSET Loaded
    OBVIOUS
  <2> HIDE DEF T
  <2> QED BY <1>7, <2>1, <2>2, UpTheTree
<1> QED BY <1>8 DEF f, g

-----------------------------------------------------------------------------
(* Where a query parameter is found *)

(* Two sets that a map carries onto each other are as large.               *)
LEMMA CarriedOver ==
    ASSUME NEW A, NEW B, IsFiniteSet(A), NEW h \in [A -> B],
           \A k, l \in A : h[k] = h[l] => k = l, \A b \in B : \E k \in A : h[k] = b
    PROVE  Cardinality(A) = Cardinality(B)
<1>1. h \in Bijection(A, B)
  BY DEF Bijection, Injection, IsInjective, Surjection
<1> QED BY <1>1, FS_Bijection DEF ExistsBijection

(* A parameter keeps its place among those of its name when one of another *)
(* name goes.                                                              *)
LEMMA PlacesStay ==
    ASSUME NEW q, q \in Seq(ToSet(q)), NEW i \in DOMAIN q, NEW j \in 1 .. Len(q) - 1,
           Without(q, i)[j].name # q[i].name
    PROVE  /\ Without(q, i)[j] = q[IF j < i THEN j ELSE j + 1]
           /\ Occurrence(Without(q, i), j) = Occurrence(q, IF j < i THEN j ELSE j + 1)
<1> DEFINE r == Without(q, i)
           Up(k) == IF k < i THEN k ELSE k + 1
           A == {k \in 1 .. j - 1 : r[k].name = r[j].name}
           B == {k \in 1 .. Up(j) - 1 : q[k].name = q[Up(j)].name}
           h == [k \in A |-> Up(k)]
<1>1. Len(q) \in Nat /\ DOMAIN q = 1 .. Len(q) /\ i \in 1 .. Len(q)
  OBVIOUS
<1>2. \A k \in 1 .. Len(q) - 1 : r[k] = q[Up(k)]
  BY DEF Without
<1>3. \A k \in 1 .. j - 1 : k \in 1 .. Len(q) - 1 /\ Up(k) \in 1 .. Up(j) - 1
  BY <1>1
<1>4. r[j] = q[Up(j)]
  BY <1>2
<1> HIDE DEF r
<1>5. h \in [A -> B]
  <2>1. ASSUME NEW k \in A PROVE Up(k) \in B
    <3>1. k \in 1 .. j - 1 /\ r[k].name = r[j].name
      OBVIOUS
    <3>2. r[k] = q[Up(k)] /\ Up(k) \in 1 .. Up(j) - 1
      BY <1>2, <1>3, <3>1
    <3> HIDE DEF Up
    <3> QED BY <1>4, <3>1, <3>2
  <2> QED BY <2>1
<1>6. \A k, l \in A : h[k] = h[l] => k = l
  BY <1>1
<1>7. ASSUME NEW b \in B PROVE \E k \in A : h[k] = b
  <2>1. q[b].name = r[j].name /\ b \in 1 .. Up(j) - 1
    BY <1>4
  <2>2. b # i
    BY <2>1 DEF r
  <2> DEFINE k == IF b < i THEN b ELSE b - 1
  <2>3. k \in 1 .. j - 1 /\ Up(k) = b
    BY <1>1, <2>1, <2>2
  <2>4. r[k] = q[b]
    BY <1>2, <1>3, <2>3
  <2> HIDE DEF k
  <2>5. k \in A
    BY <2>1, <2>3, <2>4
  <2>6. h[k] = Up(k)
    BY <2>5
  <2> HIDE DEF h
  <2> QED BY <2>3, <2>5, <2>6
<1>8. IsFiniteSet(A)
  <2>1. IsFiniteSet(1 .. j - 1)
    BY FS_Interval
  <2> QED BY <2>1, FS_Subset
<1>9. Cardinality(A) = Cardinality(B)
  <2> HIDE DEF A, B, h
  <2> QED BY <1>5, <1>6, <1>7, <1>8, CarriedOver
<1> QED BY <1>4, <1>9 DEF Occurrence, r

(* So it is found where it was.                                            *)
LEMMA NamesStay ==
    ASSUME NEW q, q \in Seq(ToSet(q)), NEW i \in DOMAIN q, NEW n, n # q[i].name
    PROVE  Named(Without(q, i), n) = Named(q, n)
<1> DEFINE r == Without(q, i)
           Up(k) == IF k < i THEN k ELSE k + 1
           At(s, k) == Candidate(<<"query", s[k].name, Occurrence(s, k)>>, <<s[k].value>>, FALSE)
<1>1. Len(q) \in Nat /\ DOMAIN q = 1 .. Len(q) /\ i \in 1 .. Len(q)
  OBVIOUS
<1>2. DOMAIN r = 1 .. Len(q) - 1
  BY DEF Without
<1>3. \A s : Named(s, n) = {At(s, k) : k \in {l \in DOMAIN s : s[l].name = n}}
  BY DEF Named, Fields, ToSet, Candidate
<1>4. ASSUME NEW k \in 1 .. Len(q) - 1, r[k].name = n
      PROVE  At(r, k) = At(q, Up(k)) /\ Up(k) \in DOMAIN q /\ q[Up(k)].name = n
  <2>1. r[k] = q[Up(k)] /\ Occurrence(r, k) = Occurrence(q, Up(k))
    BY <1>4, PlacesStay
  <2>2. Up(k) \in DOMAIN q
    BY <1>1
  <2> HIDE DEF r, Up
  <2>3. At(r, k) = At(q, Up(k))
    BY <2>1
  <2> QED BY <1>4, <2>1, <2>2, <2>3
<1>5. ASSUME NEW l \in DOMAIN q, q[l].name = n
      PROVE  \E k \in 1 .. Len(q) - 1 : r[k].name = n /\ Up(k) = l
  <2> DEFINE k == IF l < i THEN l ELSE l - 1
  <2>1. l # i
    BY <1>5
  <2>2. k \in 1 .. Len(q) - 1 /\ Up(k) = l
    BY <1>1, <2>1
  <2>3. r[k] = q[Up(k)]
    BY <2>2 DEF Without
  <2> QED BY <1>5, <2>2, <2>3
<1> HIDE DEF r, At, Up
<1>6. Named(r, n) = {At(r, k) : k \in {l \in 1 .. Len(q) - 1 : r[l].name = n}}
  BY <1>2, <1>3
<1>7. Named(q, n) = {At(q, k) : k \in {l \in DOMAIN q : q[l].name = n}}
  BY <1>3
<1>8. Named(r, n) = Named(q, n)
  BY <1>4, <1>5, <1>6, <1>7
<1> QED BY <1>8 DEF r

-----------------------------------------------------------------------------
(* A hit of more confidence than cut bodies allow is of a match that is    *)
(* not marked.                                                             *)
LEMMA SureHits ==
    ASSUME NEW rule, NEW v, Compiles(rule),
           \E hit \in Hits(<<rule>>, v, 2) : hit.confidence > MaxCutConfidence
    PROVE  \E m \in Matches(rule.condition, v) : ~m.incomplete
<1>1. PICK hit \in Hits(<<rule>>, v, 2) : hit.confidence > MaxCutConfidence
  OBVIOUS
<1>2. PICK m \in Matches(rule.condition, v) : hit.confidence = Confidence(rule, m)
  BY DEF Hits
<1>3. rule.confidence \in 1 .. 100
  BY DEF Compiles
<1> QED BY <1>1, <1>2, <1>3 DEF Confidence, MaxCutConfidence

(* Such a match is one of the whole exchange, too.                         *)
LEMMA SureMatches ==
    ASSUME NEW v, NEW w, Alike(v, w), NEW c \in Loaded, Plain[c],
           NEW m \in Matches(c, v), ~m.incomplete
    PROVE  Matches(c, w) # {}
<1>1. c \in AllConditions /\ Children(c) \subseteq Loaded
  BY PartsAreLoaded DEF Loaded
<1>2. \A t \in Jars : v.cookies[t] \in Seq(ToSet(v.cookies[t]))
  BY DEF Alike
<1>3. CASE c.op = "for_each"
  <2>1. PICK j \in Cookies(c, v) : m = Evaluate(v)[c.of][<<c.on.target, j>>] /\ m.held
    BY <1>3 DEF Matches
  <2>2. c.of \in Children(c) /\ c.of \in Loaded /\ Plain[c.of]
    BY <1>1, <1>3, KindsOfConditions, PlainConditions
  <2>3. <<c.on.target, j>> \in CookieScopes(v)
    BY <1>2, <1>3, CookiesAreScopes
  <2>4. Evaluate(w)[c.of][<<c.on.target, j>>].held
    BY <2>1, <2>2, <2>3, UnmarkedHolds
  <2>5. Cookies(c, v) = Cookies(c, w)
    BY DEF Cookies, Alike
  <2>6. Evaluate(w)[c.of][<<c.on.target, j>>] \in Matches(c, w)
    BY <1>3, <2>4, <2>5 DEF Matches
  <2> QED BY <2>6
<1>4. CASE c.op # "for_each"
  <2>1. m = Evaluate(v)[c][NoScope] /\ m.held
    BY <1>4 DEF Matches
  <2>2. NoScope \in CookieScopes(v)
    BY DEF CookieScopes
  <2>3. Evaluate(w)[c][NoScope].held
    BY <2>1, <2>2, UnmarkedHolds
  <2>4. Evaluate(w)[c][NoScope] \in Matches(c, w)
    BY <1>4, <2>3 DEF Matches
  <2> QED BY <2>4
<1> QED BY <1>3, <1>4

(* A rule that hits with more confidence than a cut body allows hits the   *)
(* whole exchange, whatever the rule, the exchange and the rest of its     *)
(* bodies; and parameters are found whatever others there are.             *)
THEOREM HitsAreWhole == RulesSpec => []HitsOutliveTheCut
<1>1. RulesInit => HitsOutliveTheCut
  <2> SUFFICES ASSUME RulesInit PROVE HitsOutliveTheCut
    OBVIOUS
  <2>1. PICK c \in AllConditions, v \in Exchanges, n \in Confidences :
            example = [rule |-> [condition |-> c, confidence |-> n], exchange |-> v]
    BY DEF RulesInit
  <2> DEFINE rule == [condition |-> c, confidence |-> n]
  <2>2. example.rule = rule /\ rule.condition = c /\ example.exchange = v
    BY <2>1
  <2> HIDE DEF rule
  <2>3. ASSUME Compiles(rule), Plain[c],
               \E hit \in Hits(<<rule>>, v, 2) : hit.confidence > MaxCutConfidence,
               NEW w \in Whole(v)
        PROVE  Matches(c, w) # {}
    <3>1. PICK m \in Matches(c, v) : ~m.incomplete
      BY <2>2, <2>3, SureHits
    <3>2. c \in Loaded
      BY <2>2, <2>3 DEF Compiles, Loaded
    <3> QED BY <2>3, <3>1, <3>2, SureMatches, WholeIsAlike
  <2>4. ASSUME NEW i \in DOMAIN v.query,
               NEW name \in {v.query[j].name : j \in DOMAIN v.query} \ {v.query[i].name}
        PROVE  Named(Without(v.query, i), name) = Named(v.query, name)
    <3>1. v.query \in Seq(ToSet(v.query))
      BY ExchangesAssumption
    <3> QED BY <3>1, NamesStay
  <2> QED BY <2>2, <2>3, <2>4 DEF HitsOutliveTheCut
<1>2. HitsOutliveTheCut /\ [FALSE]_example => HitsOutliveTheCut'
  BY DEF HitsOutliveTheCut
<1> QED BY <1>1, <1>2, PTL DEF RulesSpec
=============================================================================
