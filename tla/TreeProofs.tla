----------------------------- MODULE TreeProofs -----------------------------
(***************************************************************************)
(* Proofs about the test plan (Tree) for every set of keys, findings and   *)
(* planned trees and every bound.                                          *)
(***************************************************************************)
EXTENDS Tree, TLAPS, SequenceTheorems, FiniteSetTheorems

-----------------------------------------------------------------------------
(* Planned trees and diffs *)

LEMMA PlanKeysTyped ==
  ASSUME NEW t \in Seq(Item)
  PROVE  /\ PlanKeys(t) \subseteq Keys
         /\ \A k \in PlanKeys(t) : ItemOf(t, k) \in Item
  <1>1. \A i \in 1..Len(t) : t[i] \in Item
    OBVIOUS
  <1>2. \A i \in 1..Len(t) : t[i].key \in Keys
    BY <1>1 DEF Item
  <1>3. ASSUME NEW k \in PlanKeys(t) PROVE ItemOf(t, k) \in Item
    <2>1. \E i \in 1..Len(t) : t[i].key = k
      BY DEF PlanKeys
    <2>2. (CHOOSE i \in 1..Len(t) : t[i].key = k) \in 1..Len(t)
      BY <2>1
    <2>. QED BY <1>1, <2>2 DEF ItemOf
  <1>. QED BY <1>2, <1>3 DEF PlanKeys

LEMMA DiffTyped ==
  ASSUME TypeOK, NEW t \in Seq(Item)
  PROVE  Diff(t) \in DiffType
  <1>1. \A k : Changed(t, k) \subseteq Fields BY DEF Changed
  <1>2. \A k : Mutable(t, k) \subseteq Fields BY <1>1 DEF Mutable
  <1>3. PlanKeys(t) \subseteq Keys BY PlanKeysTyped
  <1>4. Active \subseteq Keys BY DEF Active, ActiveIn, TypeOK
  <1>5. Common(t) \subseteq Keys BY <1>4 DEF Common
  <1>6. \A k \in Keys : Protected(k) \in BOOLEAN BY DEF Protected
  <1>7. Diff(t).additions \in SUBSET Keys BY <1>3 DEF Diff
  <1>8. Diff(t).updates \in SUBSET (Keys \X SUBSET Fields) BY <1>2, <1>5 DEF Diff
  <1>9. Diff(t).preserved \in SUBSET [key: Keys, changed: SUBSET Fields, whole: BOOLEAN]
    BY <1>1, <1>5, <1>6 DEF Diff
  <1>10. Diff(t).omitted \in SUBSET Keys BY <1>4 DEF Diff
  <1>11. Diff(t).archives \in SUBSET Keys BY <1>4 DEF Diff
  <1>12. Diff(t) = [additions |-> Diff(t).additions, updates |-> Diff(t).updates,
                    preserved |-> Diff(t).preserved, omitted |-> Diff(t).omitted,
                    archives |-> Diff(t).archives]
    BY DEF Diff
  <1>. HIDE DEF Diff
  <1>. QED BY <1>7, <1>8, <1>9, <1>10, <1>11, <1>12 DEF DiffType

(* Only unprotected common nodes are updated, and no locked field is.      *)
LEMMA UpdatesRespect ==
  ASSUME TypeOK, NEW t \in Seq(Item), NEW k \in Keys
  PROVE  /\ UpdatedFields(Diff(t), k) \subseteq Fields
         /\ UpdatedFields(Diff(t), k) \cap node[k].locks = {}
         /\ UpdatedFields(Diff(t), k) # {} => k \in Common(t) /\ ~Protected(k)
  <1>1. ASSUME NEW f \in UpdatedFields(Diff(t), k)
        PROVE  f \in Mutable(t, k) /\ k \in Common(t) /\ ~Protected(k)
    BY DEF UpdatedFields, Diff
  <1>2. \A f \in UpdatedFields(Diff(t), k) : f \in Fields \ node[k].locks
    BY <1>1 DEF Mutable, Changed
  <1>. QED BY <1>1, <1>2

LEMMA MergedTyped ==
  ASSUME TypeOK, NEW t \in Seq(Item)
  PROVE  Merged(t, Diff(t)) \in [Keys -> NodeType]
  <1>. DEFINE d == Diff(t)
  <1>. SUFFICES ASSUME NEW k \in Keys PROVE Merged(t, d)[k] \in NodeType
    BY DEF Merged
  <1>1. node[k] \in NodeType BY DEF TypeOK
  <1>2. Blank \in NodeType BY TextsAssumption DEF Blank, NodeType, Status
  <1>3. k \in PlanKeys(t) => ItemOf(t, k) \in Item BY PlanKeysTyped
  <1>4. CASE k \in d.additions
    <2>1. k \in PlanKeys(t) BY <1>4 DEF Diff
    <2>2. ItemOf(t, k) \in Item BY <1>3, <2>1
    <2>3. Merged(t, d)[k] = [Blank EXCEPT !.parent = ItemOf(t, k).parent,
              !.prereqs = ItemOf(t, k).prereqs, !.cites = ItemOf(t, k).cites,
              !.text = ItemOf(t, k).text]
      BY <1>4 DEF Merged
    <2>. HIDE DEF d
    <2>. QED BY <1>2, <2>2, <2>3 DEF NodeType, Item
  <1>5. CASE k \notin d.additions /\ k \in d.archives
    <2>1. Merged(t, d)[k] = [node[k] EXCEPT !.archived = TRUE] BY <1>5 DEF Merged
    <2>. HIDE DEF d
    <2>. QED BY <1>1, <2>1 DEF NodeType
  <1>6. CASE k \notin d.additions /\ k \notin d.archives
    <2>. DEFINE U == UpdatedFields(d, k)
    <2>1. U # {} => ItemOf(t, k) \in Item
      BY UpdatesRespect, <1>3 DEF Common
    <2>2. Merged(t, d)[k] =
            [node[k] EXCEPT !.parent = IF "parent" \in U THEN ItemOf(t, k).parent ELSE @,
                            !.prereqs = IF "prereqs" \in U THEN ItemOf(t, k).prereqs ELSE @,
                            !.cites = IF "cites" \in U THEN ItemOf(t, k).cites ELSE @,
                            !.text = IF "text" \in U THEN ItemOf(t, k).text ELSE @]
      BY <1>6 DEF Merged
    <2>. HIDE DEF U, d
    <2>3. CASE U = {}
      BY <1>1, <2>2, <2>3 DEF NodeType
    <2>4. CASE ItemOf(t, k) \in Item
      BY <1>1, <2>2, <2>4 DEF NodeType, Item
    <2>. QED BY <2>1, <2>3, <2>4
  <1>. QED BY <1>4, <1>5, <1>6

-----------------------------------------------------------------------------
(* Types *)

LEMMA NodeChanged ==
  ASSUME NEW n \in NodeType
  PROVE  /\ [n EXCEPT !.archived = TRUE] \in NodeType
         /\ \A s \in Status : [n EXCEPT !.status = s] \in NodeType
         /\ \A x \in Texts, L \in SUBSET Fields, P \in SUBSET Keys :
                [n EXCEPT !.text = x, !.locks = L, !.prereqs = P] \in NodeType
  BY DEF NodeType

LEMMA ProposalChanged ==
  ASSUME NEW p \in ProposalType
  PROVE  /\ [p EXCEPT !.status = "rejected"] \in ProposalType
         /\ [p EXCEPT !.status = "applied"] \in ProposalType
  BY DEF ProposalType

LEMMA SupersededTyped ==
  ASSUME NEW p \in ProposalType
  PROVE  Superseded(p) \in ProposalType
  BY DEF Superseded, ProposalType

LEMMA InitType == Init => TypeOK
  <1>1. Blank \in NodeType BY TextsAssumption DEF Blank, NodeType, Status
  <1>. QED BY <1>1 DEF Init, TypeOK

LEMMA ManualType ==
  ASSUME TypeOK, Manual
  PROVE  TypeOK'
  <1>1. Blank \in NodeType BY TextsAssumption DEF Blank, NodeType, Status
  <1>2. ByPerson => /\ log' \in Seq(Nat)
                    /\ UNCHANGED <<mark, proposals, call, finding, epoch>>
    BY DEF ByPerson, TypeOK
  <1>. USE DEF TypeOK
  <1>3. CASE \E k \in ManualKeys, p \in Keys \cup {Root}, P \in SUBSET Keys : CreateManual(k, p, P)
    <2>1. PICK k \in ManualKeys, p \in Keys \cup {Root}, P \in SUBSET Keys : CreateManual(k, p, P)
      BY <1>3
    <2>2. k \in Keys BY DEF Keys
    <2>3. [Blank EXCEPT !.source = "manual", !.locks = Fields, !.parent = p, !.prereqs = P]
            \in NodeType
      BY <1>1 DEF NodeType
    <2>4. node' \in [Keys -> NodeType] /\ row' \subseteq Keys /\ ByPerson
      BY <2>1, <2>2, <2>3 DEF CreateManual
    <2>. QED BY <1>2, <2>4
  <1>4. CASE \E k \in Keys, e \in Edits : UpdateManual(k, e)
    <2>1. PICK k \in Keys, e \in Edits : UpdateManual(k, e) BY <1>4
    <2>2. e \in [text: Texts, prereqs: SUBSET Keys, locks: SUBSET Fields]
      BY EditsAssumption DEF Fields
    <2>3. [node[k] EXCEPT !.text = e.text, !.locks = e.locks, !.prereqs = e.prereqs] \in NodeType
      BY <2>2, NodeChanged
    <2>4. node' \in [Keys -> NodeType] /\ row' = row /\ ByPerson
      BY <2>1, <2>3 DEF UpdateManual
    <2>. QED BY <1>2, <2>4
  <1>5. CASE \E k \in Keys, s \in Moves : UpdateStatus(k, s)
    <2>1. PICK k \in Keys, s \in Moves : UpdateStatus(k, s) BY <1>5
    <2>2. [node[k] EXCEPT !.status = s] \in NodeType
      BY NodeChanged, MovesAssumption DEF Status
    <2>3. node' \in [Keys -> NodeType] /\ row' = row /\ ByPerson
      BY <2>1, <2>2 DEF UpdateStatus
    <2>. QED BY <1>2, <2>3
  <1>6. CASE \E k \in Keys : ArchiveNode(k)
    <2>1. PICK k \in Keys : ArchiveNode(k) BY <1>6
    <2>2. \A q \in Keys : [node[q] EXCEPT !.archived = TRUE] \in NodeType
      BY NodeChanged
    <2>3. node' \in [Keys -> NodeType] /\ row' = row /\ ByPerson
      BY <2>1, <2>2 DEF ArchiveNode
    <2>. QED BY <1>2, <2>3
  <1>. QED BY <1>3, <1>4, <1>5, <1>6 DEF Manual

LEMMA EvidenceType ==
  ASSUME TypeOK, Evidence
  PROVE  TypeOK'
  <1>. USE DEF TypeOK
  <1>1. ASSUME NEW reason \in {"finding", "task"}, MarkUpdate(reason)
        PROVE  /\ epoch' \in Nat /\ mark' \in {"none", "finding", "task"}
               /\ proposals' \in Seq(ProposalType)
               /\ UNCHANGED <<row, log, call, finding>>
    <2>1. DOMAIN proposals = 1..Len(proposals) /\ Len(proposals) \in Nat
      OBVIOUS
    <2>2. \A i \in 1..Len(proposals) : Superseded(proposals[i]) \in ProposalType
      BY SupersededTyped
    <2>. QED BY <1>1, <2>1, <2>2 DEF MarkUpdate
  <1>2. CASE \E f \in Findings : LinkFindingEvidence(f)
    BY <1>1, <1>2 DEF LinkFindingEvidence
  <1>3. CASE \E k \in Keys : LinkTaskEvidence(k)
    <2>1. PICK k \in Keys : LinkTaskEvidence(k) BY <1>3
    <2>2. [node[k] EXCEPT !.evidence = @ + 1] \in NodeType
      <3>1. node[k] \in NodeType OBVIOUS
      <3>. HIDE DEF TypeOK
      <3>. QED BY <3>1 DEF NodeType
    <2>3. node' \in [Keys -> NodeType] /\ MarkUpdate("task")
      BY <2>1, <2>2 DEF LinkTaskEvidence
    <2>. QED BY <1>1, <2>3
  <1>4. CASE \E f \in Findings : VerifierEvidence(f) \/ NewFinding(f) \/ ReviewFinding(f)
    BY <1>4 DEF VerifierEvidence, NewFinding, ReviewFinding, plan
  <1>. QED BY <1>2, <1>3, <1>4 DEF Evidence

LEMMA PlannerType ==
  ASSUME TypeOK, Planner
  PROVE  TypeOK'
  <1>. USE DEF TypeOK
  <1>1. CASE \E op \in Operations, k \in Keys \cup {Root} : Prepare(op, k)
    <2>1. PICK op \in Operations, k \in Keys \cup {Root} : Prepare(op, k) BY <1>1
    <2>2. revision \in Nat BY DEF revision
    <2>3. Active \subseteq Keys BY DEF Active, ActiveIn
    <2>4. [q \in Keys |-> IF q \in Active THEN node[q].evidence ELSE 0] \in [Keys -> Nat]
      BY <2>3 DEF NodeType
    <2>5. Digest \in DigestType
      <3>1. [f \in Accepted |-> finding[f]] \in [Accepted -> {"pending", "confirmed"}]
        BY DEF Accepted
      <3>2. Accepted \in SUBSET Findings BY DEF Accepted
      <3>3. [f \in Accepted |-> finding[f]]
                \in UNION {[S -> {"pending", "confirmed"}] : S \in SUBSET Findings}
        BY <3>1, <3>2
      <3>. QED BY <2>2, <2>3, <2>4, <3>3 DEF Digest, DigestType
    <2>6. call' \in CallType BY <2>1, <2>5 DEF Prepare, CallType
    <2>. QED BY <2>1, <2>6 DEF Prepare, plan
  <1>2. CASE CallEnds
    BY <1>2 DEF CallEnds, plan
  <1>3. CASE Answer
    <2>1. call \in CallType BY <1>3 DEF Answer
    <2>2. PICK t \in Answers :
            /\ t \in Seq(Item)
            /\ proposals' =
                IF Known(t) THEN proposals
                ELSE Append(proposals, [status |-> "pending", base |-> call.seen.base,
                                        op |-> call.op, target |-> call.target, tree |-> t,
                                        diff |-> Diff(t), made |-> epoch])
      BY <1>3 DEF Answer, Normal
    <2>3. Diff(t) \in DiffType BY <2>2, DiffTyped
    <2>4. call.seen.base \in Nat BY <2>1 DEF CallType, DigestType
    <2>5. [status |-> "pending", base |-> call.seen.base, op |-> call.op, target |-> call.target,
           tree |-> t, diff |-> Diff(t), made |-> epoch] \in ProposalType
      BY <2>1, <2>2, <2>3, <2>4 DEF CallType, ProposalType
    <2>6. proposals' \in Seq(ProposalType) BY <2>2, <2>5
    <2>. QED BY <1>3, <2>6 DEF Answer, plan
  <1>4. CASE \E i \in DOMAIN proposals : Reject(i)
    <2>1. PICK i \in DOMAIN proposals : Reject(i) BY <1>4
    <2>2. proposals[i] \in ProposalType OBVIOUS
    <2>3. [proposals[i] EXCEPT !.status = "rejected"] \in ProposalType BY <2>2, ProposalChanged
    <2>4. proposals' \in Seq(ProposalType) BY <2>1, <2>3 DEF Reject
    <2>. QED BY <2>1, <2>4 DEF Reject, plan
  <1>5. CASE \E i \in DOMAIN proposals : Apply(i)
    <2>1. PICK i \in DOMAIN proposals : Apply(i) BY <1>5
    <2>2. proposals[i] \in ProposalType /\ i \in Nat OBVIOUS
    <2>3. proposals[i].tree \in Seq(Item) BY <2>2 DEF ProposalType
    <2>4. node' \in [Keys -> NodeType] BY <2>1, <2>3, MergedTyped DEF Apply
    <2>5. Diff(proposals[i].tree).additions \subseteq Keys
      BY <2>3, DiffTyped DEF DiffType
    <2>6. row' \subseteq Keys BY <2>1, <2>5 DEF Apply
    <2>7. DOMAIN proposals = 1..Len(proposals) /\ Len(proposals) \in Nat
      OBVIOUS
    <2>8. ASSUME NEW j \in 1..Len(proposals)
          PROVE  /\ [proposals[j] EXCEPT !.status = "applied"] \in ProposalType
                 /\ Superseded(proposals[j]) \in ProposalType
      <3>1. proposals[j] \in ProposalType OBVIOUS
      <3>. QED BY <3>1, ProposalChanged, SupersededTyped
    <2>9. proposals' \in Seq(ProposalType) BY <2>1, <2>7, <2>8 DEF Apply
    <2>10. log' \in Seq(Nat) BY <2>1, <2>2 DEF Apply
    <2>. QED BY <2>1, <2>4, <2>6, <2>9, <2>10 DEF Apply
  <1>. QED BY <1>1, <1>2, <1>3, <1>4, <1>5 DEF Planner, Operations

(* The tables keep their types under every operation.                      *)
THEOREM TypeCorrect == Spec => []TypeOK
  <1>1. TypeOK /\ [Next]_vars => TypeOK'
    <2>1. TypeOK /\ UNCHANGED vars => TypeOK' BY DEF TypeOK, vars
    <2>. QED BY <2>1, ManualType, EvidenceType, PlannerType DEF Next
  <1>. QED BY InitType, <1>1, PTL DEF Spec

-----------------------------------------------------------------------------
(* Applying a proposal *)

(* What every step does to the log and the proposals.                      *)
LogStep ==
    \/ log' = log /\ proposals' = proposals
    \/ log' = Append(log, 0) /\ proposals' = proposals
    \/ /\ log' = log
       /\ proposals' = [i \in DOMAIN proposals |-> Superseded(proposals[i])]
    \/ /\ log' = log
       /\ \E i \in DOMAIN proposals :
            /\ proposals[i].status = "pending"
            /\ proposals' = [proposals EXCEPT ![i].status = "rejected"]
    \/ /\ log' = log
       /\ \E p \in ProposalType : /\ p.status = "pending" /\ p.base = Len(log)
                                  /\ proposals' = Append(proposals, p)
    \/ \E i \in DOMAIN proposals :
            /\ proposals[i].status = "pending" /\ proposals[i].base = Len(log)
            /\ log' = Append(log, i)
            /\ proposals' = [j \in DOMAIN proposals |->
                                IF j = i THEN [proposals[j] EXCEPT !.status = "applied"]
                                ELSE Superseded(proposals[j])]

(* An applied proposal stands in the log right after its base, and the log *)
(* names only proposals that exist.                                        *)
Ledger ==
    /\ \A i \in DOMAIN proposals : proposals[i].status = "applied"
                                     => proposals[i].base + 1 <= Len(log)
    /\ \A n \in DOMAIN log : log[n] = 0 \/ log[n] \in DOMAIN proposals
    /\ AppliedOnce

LEMMA AnswerAppends ==
  ASSUME TypeOK, Answer
  PROVE  \/ proposals' = proposals
         \/ \E p \in ProposalType : /\ p.status = "pending" /\ p.base = Len(log)
                                    /\ p.made = epoch
                                    /\ proposals' = Append(proposals, p)
  <1>1. call \in CallType BY DEF Answer, TypeOK
  <1>2. PICK t \in Answers :
          /\ t \in Seq(Item)
          /\ proposals' =
              IF Known(t) THEN proposals
              ELSE Append(proposals, [status |-> "pending", base |-> call.seen.base,
                                      op |-> call.op, target |-> call.target, tree |-> t,
                                      diff |-> Diff(t), made |-> epoch])
    BY DEF Answer, Normal
  <1>3. Diff(t) \in DiffType BY <1>2, DiffTyped
  <1>4. call.seen.base \in Nat BY <1>1 DEF CallType, DigestType
  <1>5. call.seen.base = Len(log) BY DEF Answer, SameContext, Digest, revision
  <1>. DEFINE p == [status |-> "pending", base |-> call.seen.base, op |-> call.op,
                    target |-> call.target, tree |-> t, diff |-> Diff(t),
                    made |-> epoch]
  <1>6. p \in ProposalType BY <1>1, <1>2, <1>3, <1>4 DEF CallType, ProposalType, TypeOK
  <1>7. p.status = "pending" /\ p.base = Len(log) /\ p.made = epoch BY <1>5
  <1>8. proposals' = proposals \/ proposals' = Append(proposals, p) BY <1>2
  <1>. QED BY <1>6, <1>7, <1>8

LEMMA EveryLogStep ==
  ASSUME TypeOK, [Next]_vars
  PROVE  LogStep
  <1>1. CASE UNCHANGED vars BY <1>1 DEF LogStep, vars
  <1>2. CASE Manual
    BY <1>2 DEF Manual, CreateManual, UpdateManual, UpdateStatus, ArchiveNode, ByPerson, LogStep
  <1>3. CASE Evidence
    BY <1>3 DEF Evidence, LinkFindingEvidence, LinkTaskEvidence, VerifierEvidence,
                NewFinding, ReviewFinding, MarkUpdate, plan,
                LogStep
  <1>4. CASE Answer
    BY <1>4, AnswerAppends DEF LogStep, Answer, plan
  <1>5. CASE CallEnds \/ \E op \in {"generate", "expand", "alternative"},
                            k \in Keys \cup {Root} : Prepare(op, k)
    BY <1>5 DEF CallEnds, Prepare, plan, LogStep
  <1>6. CASE \E i \in DOMAIN proposals : Reject(i)
    BY <1>6 DEF Reject, plan, LogStep
  <1>7. CASE \E i \in DOMAIN proposals : Apply(i)
    BY <1>7 DEF Apply, Applicable, revision, LogStep
  <1>. QED BY <1>1, <1>2, <1>3, <1>4, <1>5, <1>6, <1>7 DEF Next, Planner

LEMMA SupersededKeeps ==
  ASSUME NEW p \in ProposalType
  PROVE  /\ Superseded(p).base = p.base /\ Superseded(p).made = p.made
         /\ Superseded(p).status = "applied" <=> p.status = "applied"
         /\ Superseded(p).status # "pending"
  BY DEF Superseded, ProposalType

LEMMA LedgerStep ==
  ASSUME TypeOK, Ledger, LogStep
  PROVE  Ledger'
  <1>. DEFINE P == DOMAIN proposals
              L == DOMAIN log
  <1>1. /\ P = 1..Len(proposals) /\ Len(proposals) \in Nat
        /\ L = 1..Len(log) /\ Len(log) \in Nat
        /\ log \in Seq(Nat) /\ proposals \in Seq(ProposalType)
    BY DEF TypeOK
  <1>2. \A i \in P : proposals[i] \in ProposalType /\ proposals[i].base \in Nat
    <2>1. \A i \in P : proposals[i] \in ProposalType BY <1>1
    <2>. QED BY <2>1 DEF ProposalType
  <1>3. ASSUME log' = log, DOMAIN proposals' = P,
               \A i \in P : /\ proposals'[i].base = proposals[i].base
                            /\ proposals'[i].status = "applied" <=> proposals[i].status = "applied"
        PROVE  Ledger'
    BY <1>3 DEF Ledger, AppliedOnce
  <1>4. ASSUME NEW x \in Nat, log' = Append(log, x)
        PROVE  /\ DOMAIN log' = L \cup {Len(log) + 1} /\ Len(log') = Len(log) + 1
               /\ \A n \in L : log'[n] = log[n] /\ n # Len(log) + 1
               /\ log'[Len(log) + 1] = x
    BY <1>1, <1>4
  <1>5. CASE log' = log /\ proposals' = proposals
    BY <1>3, <1>5
  <1>6. CASE log' = Append(log, 0) /\ proposals' = proposals
    <2>1. \A i \in P : proposals[i].status = "applied" => proposals[i].base # Len(log)
      BY <1>1, <1>2 DEF Ledger
    <2>2. \A i \in P : proposals[i].base + 1 = Len(log) + 1 => proposals[i].base = Len(log)
      BY <1>1, <1>2
    <2>3. \A i \in P : i # 0 BY <1>1
    <2>4. AppliedOnce' BY <1>4, <1>6, <2>1, <2>2, <2>3 DEF Ledger, AppliedOnce
    <2>5. \A i \in P : proposals[i].status = "applied" => proposals[i].base + 1 <= Len(log')
      BY <1>1, <1>2, <1>4, <1>6 DEF Ledger
    <2>. QED BY <1>4, <1>6, <2>4, <2>5 DEF Ledger
  <1>7. CASE log' = log /\ proposals' = [i \in P |-> Superseded(proposals[i])]
    BY <1>2, <1>3, <1>7, SupersededKeeps
  <1>8. CASE /\ log' = log
             /\ \E i \in P : /\ proposals[i].status = "pending"
                            /\ proposals' = [proposals EXCEPT ![i].status = "rejected"]
    <2>1. PICK i \in P : /\ proposals[i].status = "pending"
                         /\ proposals' = [proposals EXCEPT ![i].status = "rejected"]
      BY <1>8
    <2>2. \A j \in P : /\ proposals'[j].base = proposals[j].base
                       /\ proposals'[j].status = "applied" <=> proposals[j].status = "applied"
      BY <1>2, <2>1 DEF ProposalType
    <2>. QED BY <1>3, <1>8, <2>1, <2>2
  <1>9. CASE /\ log' = log
             /\ \E p \in ProposalType : /\ p.status = "pending" /\ p.base = Len(log)
                                        /\ proposals' = Append(proposals, p)
    <2>1. PICK p \in ProposalType : p.status = "pending" /\ proposals' = Append(proposals, p)
      BY <1>9
    <2>2. /\ DOMAIN proposals' = P \cup {Len(proposals) + 1}
          /\ \A i \in P : proposals'[i] = proposals[i]
          /\ proposals'[Len(proposals) + 1] = p
      BY <1>1, <2>1
    <2>3. \A n \in L : log[n] # Len(proposals) + 1
      BY <1>1 DEF Ledger
    <2>. QED BY <1>9, <2>1, <2>2, <2>3 DEF Ledger, AppliedOnce
  <1>10. CASE \E i \in P :
            /\ proposals[i].status = "pending" /\ proposals[i].base = Len(log)
            /\ log' = Append(log, i)
            /\ proposals' = [j \in P |-> IF j = i THEN [proposals[j] EXCEPT !.status = "applied"]
                                        ELSE Superseded(proposals[j])]
    <2>1. PICK i \in P :
            /\ proposals[i].status = "pending" /\ proposals[i].base = Len(log)
            /\ log' = Append(log, i)
            /\ proposals' = [j \in P |-> IF j = i THEN [proposals[j] EXCEPT !.status = "applied"]
                                        ELSE Superseded(proposals[j])]
      BY <1>10
    <2>2. i \in Nat BY <1>1
    <2>3. DOMAIN proposals' = P BY <2>1
    <2>4. proposals'[i].status = "applied" /\ proposals'[i].base = Len(log)
      BY <1>2, <2>1 DEF ProposalType
    <2>5. \A j \in P \ {i} :
            /\ proposals'[j].base = proposals[j].base
            /\ proposals'[j].status = "applied" <=> proposals[j].status = "applied"
      BY <1>2, <2>1, SupersededKeeps
    <2>6. \A j \in P : proposals[j].status = "applied" => proposals[j].base + 1 <= Len(log)
      BY DEF Ledger
    <2>7. \A j \in P : proposals[j].status = "applied"
                       => proposals[j].base + 1 # Len(log) + 1 /\ proposals[j].base + 1 <= Len(log) + 1
      BY <1>1, <1>2, <2>6
    <2>8. \A j \in P : proposals'[j].status = "applied" => proposals'[j].base + 1 <= Len(log')
      BY <1>1, <1>4, <2>1, <2>2, <2>4, <2>5, <2>7
    <2>9. \A n \in L : log[n] # i
      BY <2>1 DEF Ledger, AppliedOnce
    <2>10. \A n \in DOMAIN log' : log'[n] = i <=> n = Len(log) + 1
      BY <1>4, <2>1, <2>2, <2>9
    <2>11. ASSUME NEW j \in P \ {i}, NEW n \in DOMAIN log'
           PROVE  log'[n] = j <=> proposals'[j].status = "applied" /\ n = proposals'[j].base + 1
      BY <1>4, <2>1, <2>2, <2>5, <2>7 DEF Ledger, AppliedOnce
    <2>12. AppliedOnce' BY <2>3, <2>4, <2>10, <2>11 DEF AppliedOnce
    <2>13. \A n \in DOMAIN log' : log'[n] = 0 \/ log'[n] \in P
      BY <1>4, <2>1, <2>2 DEF Ledger
    <2>. QED BY <2>3, <2>8, <2>12, <2>13 DEF Ledger
  <1>. QED BY <1>5, <1>6, <1>7, <1>8, <1>9, <1>10 DEF LogStep

(* No proposal is merged twice, and of the proposals made for a revision   *)
(* at most one is: apply_proposal compares the base with the revision in   *)
(* the transaction that increments it.                                     *)
THEOREM ProposalsApplyOnce == Spec => []AppliedOnce
  <1>1. Init => Ledger BY DEF Init, Ledger, AppliedOnce
  <1>2. TypeOK /\ Ledger /\ [Next]_vars => Ledger'
    BY EveryLogStep, LedgerStep
  <1>3. Ledger => AppliedOnce BY DEF Ledger
  <1>. QED BY <1>1, <1>2, <1>3, TypeCorrect, PTL DEF Spec

-----------------------------------------------------------------------------
(* Evidence and pending proposals *)

(* A person who links evidence supersedes what is pending in the same      *)
(* transaction, so that no pending proposal is older than any evidence a   *)
(* person linked, to a finding or to a node.  Verifiers are no part of it. *)
THEOREM PendingIsFresh == Spec => []PendingHasSeenEvidence
  <1>1. Init => PendingHasSeenEvidence BY DEF Init, PendingHasSeenEvidence
  <1>2. TypeOK /\ PendingHasSeenEvidence /\ [Next]_vars => PendingHasSeenEvidence'
    <2>. SUFFICES ASSUME TypeOK, PendingHasSeenEvidence, [Next]_vars
                  PROVE  PendingHasSeenEvidence'
      OBVIOUS
    <2>. DEFINE P == DOMAIN proposals
    <2>1. /\ P = 1..Len(proposals) /\ Len(proposals) \in Nat /\ proposals \in Seq(ProposalType)
      BY DEF TypeOK
    <2>2. \A i \in P : proposals[i] \in ProposalType BY <2>1
    <2>3. ASSUME epoch' = epoch, DOMAIN proposals' = P,
                 \A i \in P : proposals'[i].status = "pending"
                    => proposals[i].status = "pending" /\ proposals'[i].made = proposals[i].made
          PROVE  PendingHasSeenEvidence'
      BY <2>3 DEF PendingHasSeenEvidence
    <2>4. CASE UNCHANGED <<proposals, epoch>>
      BY <2>3, <2>4
    <2>5. ASSUME NEW r, MarkUpdate(r) PROVE PendingHasSeenEvidence'
      <3>1. DOMAIN proposals' = P BY <2>5 DEF MarkUpdate
      <3>2. \A i \in P : proposals'[i].status # "pending"
        BY <2>2, <2>5, SupersededKeeps DEF MarkUpdate
      <3>. QED BY <3>1, <3>2 DEF PendingHasSeenEvidence
    <2>6. CASE Evidence
      BY <2>4, <2>5, <2>6 DEF Evidence, LinkFindingEvidence, LinkTaskEvidence, VerifierEvidence,
                              NewFinding, ReviewFinding
    <2>7. CASE Answer
      <3>1. \/ proposals' = proposals
            \/ \E p \in ProposalType : p.made = epoch /\ proposals' = Append(proposals, p)
        BY <2>7, AnswerAppends
      <3>2. epoch' = epoch BY <2>7 DEF Answer
      <3>3. ASSUME NEW p \in ProposalType, p.made = epoch, proposals' = Append(proposals, p)
            PROVE  PendingHasSeenEvidence'
        <4>1. /\ DOMAIN proposals' = P \cup {Len(proposals) + 1}
              /\ \A i \in P : proposals'[i] = proposals[i]
              /\ proposals'[Len(proposals) + 1] = p
          BY <2>1, <3>3
        <4>. QED BY <3>2, <3>3, <4>1 DEF PendingHasSeenEvidence
      <3>. QED BY <2>4, <3>1, <3>2, <3>3
    <2>8. CASE \E i \in P : Reject(i)
      <3>1. PICK i \in P : Reject(i) BY <2>8
      <3>2. \A j \in P : proposals'[j].status = "pending"
                => proposals[j].status = "pending" /\ proposals'[j].made = proposals[j].made
        BY <2>2, <3>1 DEF Reject, ProposalType
      <3>. QED BY <2>3, <3>1, <3>2 DEF Reject
    <2>9. CASE \E i \in P : Apply(i)
      <3>1. PICK i \in P : Apply(i) BY <2>9
      <3>2. \A j \in P : proposals'[j].status # "pending"
        BY <2>2, <3>1, SupersededKeeps DEF Apply, ProposalType
      <3>. QED BY <3>1, <3>2 DEF Apply, PendingHasSeenEvidence
    <2>10. CASE Manual
      BY <2>4, <2>10 DEF Manual, CreateManual, UpdateManual, UpdateStatus, ArchiveNode, ByPerson
    <2>11. CASE CallEnds \/ \E op \in {"generate", "expand", "alternative"},
                              k \in Keys \cup {Root} : Prepare(op, k)
      BY <2>4, <2>11 DEF CallEnds, Prepare
    <2>12. CASE UNCHANGED vars BY <2>4, <2>12 DEF vars
    <2>. QED BY <2>6, <2>7, <2>8, <2>9, <2>10, <2>11, <2>12 DEF Next, Planner
  <1>. QED BY <1>1, <1>2, TypeCorrect, PTL DEF Spec

-----------------------------------------------------------------------------
(* What a merge may change *)

LEMMA SeedsKept ==
  ASSUME NEW t, NEW k \in Active \ PlanKeys(t), Active \subseteq Keys,
         Protected(k) \/ node[k].locks # {}
  PROVE  k \in Kept(t)
  BY DEF Kept, Closure

LEMMA ArchivedFields ==
  ASSUME NEW n \in NodeType
  PROVE  \A f \in {"source", "status", "locks", "evidence"} : [n EXCEPT !.archived = TRUE][f] = n[f]
  BY DEF NodeType

LEMMA MergeKeeps ==
  ASSUME TypeOK, NEW t \in Seq(Item), Mergeable(t, Diff(t)), NEW k \in Active
  PROVE  LET after == Merged(t, Diff(t))[k] IN
         /\ Protected(k) => after = node[k]
         /\ node[k].locks # {} => ~after.archived
         /\ \A f \in node[k].locks \cup {"source", "status", "locks", "evidence"} :
                after[f] = node[k][f]
  <1>. DEFINE d == Diff(t)
              U == UpdatedFields(d, k)
              new == ItemOf(t, k)
  <1>1. Active \subseteq Keys BY DEF Active, ActiveIn, TypeOK
  <1>2. node[k] \in NodeType /\ ~node[k].archived BY <1>1 DEF Active, ActiveIn, TypeOK
  <1>3. k \notin d.additions BY DEF Diff
  <1>4. k \in d.archives => ~Protected(k) /\ node[k].locks = {}
    BY <1>1, SeedsKept DEF Diff
  <1>5. U \cap node[k].locks = {} /\ (U # {} => ~Protected(k))
    BY <1>1, UpdatesRespect
  <1>6. CASE k \in d.archives
    <2>1. Merged(t, d)[k] = [node[k] EXCEPT !.archived = TRUE]
      BY <1>1, <1>3, <1>6 DEF Merged
    <2>. HIDE DEF d
    <2>2. \A f \in {"source", "status", "locks", "evidence"} : Merged(t, d)[k][f] = node[k][f]
      BY <1>2, <2>1, ArchivedFields
    <2>. QED BY <1>4, <1>6, <2>2 DEF d
  <1>7. CASE k \notin d.archives
    <2>. DEFINE w == Merged(t, d)[k]
                n == node[k]
                p == new.parent
                P == new.prereqs
                c == new.cites
                x == new.text
    <2>1. w = [n EXCEPT !.parent = IF "parent" \in U THEN p ELSE @,
                        !.prereqs = IF "prereqs" \in U THEN P ELSE @,
                        !.cites = IF "cites" \in U THEN c ELSE @,
                        !.text = IF "text" \in U THEN x ELSE @]
      BY <1>1, <1>3, <1>7 DEF Merged
    <2>. HIDE DEF U, d, new, w, p, P, c, x
    <2>2. /\ w.archived = n.archived
          /\ U = {} => w = n
          /\ \A f \in {"source", "status", "locks", "evidence"} : w[f] = n[f]
          /\ \A f \in Fields : f \notin U => w[f] = n[f]
      <3>. HIDE DEF n
      <3>1. n \in NodeType BY <1>2 DEF n
      <3>2. w.archived = n.archived BY <3>1, <2>1 DEF NodeType
      <3>3. /\ w["source"] = n["source"] /\ w["status"] = n["status"]
            /\ w["locks"] = n["locks"] /\ w["evidence"] = n["evidence"]
        BY <3>1, <2>1 DEF NodeType
      <3>4. /\ "parent" \notin U => w["parent"] = n["parent"]
            /\ "prereqs" \notin U => w["prereqs"] = n["prereqs"]
            /\ "cites" \notin U => w["cites"] = n["cites"]
            /\ "text" \notin U => w["text"] = n["text"]
        BY <3>1, <2>1 DEF NodeType
      <3>5. U = {} => w = n BY <3>1, <2>1 DEF NodeType
      <3>6. \A f \in {"source", "status", "locks", "evidence"} : w[f] = n[f] BY <3>3
      <3>7. \A f \in Fields : f \notin U => w[f] = n[f] BY <3>4 DEF Fields
      <3>. QED BY <3>2, <3>5, <3>6, <3>7
    <2>3. node[k].locks \subseteq Fields BY <1>2 DEF NodeType
    <2>. QED BY <1>2, <1>5, <2>2, <2>3 DEF w, d
  <1>. QED BY <1>6, <1>7

LEMMA MergesAreApplied ==
  ASSUME TypeOK, [Next]_vars, Merges
  PROVE  \E i \in DOMAIN proposals : Apply(i) /\ log'[Len(log')] = i
  <1>1. log \in Seq(Nat) /\ Len(log) \in Nat BY DEF TypeOK
  <1>2. \A x \in Nat : Append(log, x)[Len(Append(log, x))] = x BY <1>1
  <1>3. \A i \in DOMAIN proposals : i \in Nat BY DEF TypeOK
  <1>4. ~ByPerson BY <1>2 DEF Merges, ByPerson
  <1>5. ~Manual BY <1>4 DEF Manual, CreateManual, UpdateManual, UpdateStatus, ArchiveNode
  <1>6. ~Evidence
    BY DEF Evidence, LinkFindingEvidence, LinkTaskEvidence, VerifierEvidence,
           NewFinding, ReviewFinding, MarkUpdate, plan, Merges
  <1>7. \E i \in DOMAIN proposals : Apply(i)
    BY <1>5, <1>6 DEF Next, Planner, Prepare, CallEnds, Answer, Reject, plan, vars, Merges
  <1>8. PICK i \in DOMAIN proposals : Apply(i) BY <1>7
  <1>9. log' = Append(log, i) BY <1>8 DEF Apply
  <1>. QED BY <1>2, <1>3, <1>8, <1>9

(* Re-planning loses nothing a person did: whatever the model answers,     *)
(* protected nodes, locked fields and all that is not the model's to write *)
(* are after a merge what they were before it.                             *)
THEOREM HumanWorkIsKept == Spec => HumanWorkKept
  <1>1. ASSUME TypeOK, [Next]_vars, Merges, NEW k \in Active
        PROVE  /\ \/ node[k].source = "manual" \/ node[k].evidence > 0 \/ node[k].status # "todo"
                  => node'[k] = node[k]
               /\ node[k].locks # {} => ~node'[k].archived
               /\ \A f \in node[k].locks \cup {"source", "status", "locks", "evidence"} :
                    node'[k][f] = node[k][f]
    <2>1. PICK i \in DOMAIN proposals : Apply(i) BY <1>1, MergesAreApplied
    <2>. DEFINE t == proposals[i].tree
    <2>2. proposals[i] \in ProposalType BY <1>1, <2>1 DEF TypeOK
    <2>3. t \in Seq(Item) BY <2>2 DEF ProposalType
    <2>4. Mergeable(t, Diff(t)) /\ node' = Merged(t, Diff(t)) BY <2>1 DEF Apply
    <2>. QED BY <1>1, <2>3, <2>4, MergeKeeps DEF Protected
  <1>2. TypeOK /\ [Next]_vars =>
            [Merges => \A k \in Active :
                /\ \/ node[k].source = "manual" \/ node[k].evidence > 0 \/ node[k].status # "todo"
                   => node'[k] = node[k]
                /\ node[k].locks # {} => ~node'[k].archived
                /\ \A f \in node[k].locks \cup {"source", "status", "locks", "evidence"} :
                    node'[k][f] = node[k][f]]_vars
    BY <1>1
  <1>. QED BY <1>2, TypeCorrect, PTL DEF Spec, HumanWorkKept

-----------------------------------------------------------------------------
(* The shape of the plan *)

LEMMA ShapeFrom ==
  ASSUME NEW r1, NEW n1, NEW r2, NEW n2,
         ActiveIn(r2, n2) = ActiveIn(r1, n1), Parents(n2) = Parents(n1), Edges(n2) = Edges(n1)
  PROVE  WellFormed(r1, n1) <=> WellFormed(r2, n2)
  BY DEF WellFormed

LEMMA EmptyReached ==
  ASSUME NEW up
  PROVE  Reached({}, up) = {}
  <1>. DEFINE Def(f) == f = [d \in 0..MaxDepth |->
                              IF d = 0 THEN {}
                              ELSE IF d = 1 THEN Children({}, up, Root)
                              ELSE UNION {Children({}, up, k) : k \in f[d - 1]}]
              level == CHOOSE f : Def(f)
  <1>1. \A k : Children({}, up, k) = {} BY DEF Children
  <1>2. \A S : UNION {Children({}, up, k) : k \in S} = {} BY <1>1
  <1>3. Def([d \in 0..MaxDepth |-> {}]) BY <1>1, <1>2
  <1>4. Def(level) BY <1>3
  <1>5. \A d \in 0..MaxDepth : level[d] = {} BY <1>1, <1>2, <1>4
  <1>6. Reached({}, up) = UNION {level[d] : d \in 0..MaxDepth} BY DEF Reached
  <1>. QED BY <1>5, <1>6

(* Whatever the model answers and the user edits, the active nodes are a   *)
(* forest of at most MAX_TREE_DEPTH levels and MAX_TREE_NODES nodes, and   *)
(* their relations stay among them.                                        *)
THEOREM PlanIsForest == Spec => []WellFormed(row, node)
  <1>1. Init => WellFormed(row, node)
    <2>. SUFFICES ASSUME Init PROVE WellFormed(row, node) OBVIOUS
    <2>1. ActiveIn(row, node) = {} BY DEF Init, ActiveIn
    <2>2. Cardinality(ActiveIn(row, node)) = 0 BY <2>1, FS_EmptySet
    <2>3. Reached({}, Parents(node)) = {}
      BY EmptyReached
    <2>. QED BY <2>1, <2>2, <2>3, MaxAssumption DEF WellFormed
  <1>2. TypeOK /\ WellFormed(row, node) /\ [Next]_vars => WellFormed(row, node)'
    <2>. SUFFICES ASSUME TypeOK, WellFormed(row, node), [Next]_vars
                  PROVE  WellFormed(row', node')
      OBVIOUS
    <2>1. CASE UNCHANGED <<row, node>> BY <2>1
    <2>2. ASSUME NEW k \in Keys, NEW s, row' = row, node' = [node EXCEPT ![k].status = s]
          PROVE  WellFormed(row', node')
      <3>1. ActiveIn(row', node') = ActiveIn(row, node) BY <2>2 DEF ActiveIn, TypeOK, NodeType
      <3>2. Parents(node') = Parents(node) BY <2>2 DEF Parents, TypeOK, NodeType
      <3>3. Edges(node') = Edges(node) BY <2>2 DEF Edges, TypeOK, NodeType
      <3>. QED BY <3>1, <3>2, <3>3, ShapeFrom
    <2>3. ASSUME NEW k \in Keys, row' = row, node' = [node EXCEPT ![k].evidence = @ + 1]
          PROVE  WellFormed(row', node')
      <3>1. ActiveIn(row', node') = ActiveIn(row, node) BY <2>3 DEF ActiveIn, TypeOK, NodeType
      <3>2. Parents(node') = Parents(node) BY <2>3 DEF Parents, TypeOK, NodeType
      <3>3. Edges(node') = Edges(node) BY <2>3 DEF Edges, TypeOK, NodeType
      <3>. QED BY <3>1, <3>2, <3>3, ShapeFrom
    <2>4. CASE Manual
      BY <2>2, <2>4 DEF Manual, CreateManual, UpdateManual, UpdateStatus, ArchiveNode
    <2>5. CASE Evidence
      BY <2>1, <2>3, <2>5
      DEF Evidence, LinkFindingEvidence, LinkTaskEvidence, VerifierEvidence,
          NewFinding, ReviewFinding, MarkUpdate, plan
    <2>6. CASE Planner
      BY <2>1, <2>6 DEF Planner, Prepare, CallEnds, Answer, Reject, Apply, plan
    <2>7. CASE UNCHANGED vars BY <2>1, <2>7 DEF vars
    <2>. QED BY <2>4, <2>5, <2>6, <2>7 DEF Next
  <1>. QED BY <1>1, <1>2, TypeCorrect, PTL DEF Spec

(* The fields a merge writes are those the diff names, and each of them    *)
(* really changes: the diff compared them with the rows.                   *)
LEMMA MergeWrites ==
  ASSUME TypeOK, WellFormed(row, node), NEW t \in Seq(Item), NEW k \in Active,
         k \notin Diff(t).archives
  PROVE  LET after == Merged(t, Diff(t))[k] IN
         /\ after.archived = node[k].archived
         /\ {f \in Fields : after[f] # node[k][f]} = UpdatedFields(Diff(t), k)
  <1>. DEFINE d == Diff(t)
              U == UpdatedFields(d, k)
              new == ItemOf(t, k)
              w == Merged(t, d)[k]
              n == node[k]
              p == new.parent
              P == new.prereqs
              c == new.cites
              x == new.text
  <1>1. k \in Keys BY DEF Active, ActiveIn, TypeOK
  <1>2. n \in NodeType BY <1>1 DEF TypeOK
  <1>3. k \notin d.additions BY DEF Diff
  <1>4. n.parent \in Active \cup {Root} /\ n.prereqs \subseteq Active
    BY <1>1 DEF WellFormed, Active, Parents, Edges
  <1>5. /\ View(k).parent = n.parent /\ View(k).prereqs = n.prereqs
        /\ View(k).cites = n.cites /\ View(k).text = n.text
    BY <1>4 DEF View
  <1>6. \A f \in U : f \in Fields /\ View(k)[f] # new[f]
    BY DEF UpdatedFields, Diff, Mutable, Changed
  <1>7. w = [n EXCEPT !.parent = IF "parent" \in U THEN p ELSE @,
                      !.prereqs = IF "prereqs" \in U THEN P ELSE @,
                      !.cites = IF "cites" \in U THEN c ELSE @,
                      !.text = IF "text" \in U THEN x ELSE @]
    BY <1>1, <1>3 DEF Merged
  <1>8. /\ "parent" \in U => p # n.parent
        /\ "prereqs" \in U => P # n.prereqs
        /\ "cites" \in U => c # n.cites
        /\ "text" \in U => x # n.text
    BY <1>5, <1>6
  <1>9. U \subseteq Fields BY <1>6
  <1>. HIDE DEF d, U, new, w, n, p, P, c, x
  <1>10. w.archived = n.archived BY <1>2, <1>7 DEF NodeType
  <1>11. /\ w["parent"] # n["parent"] <=> "parent" \in U
         /\ w["prereqs"] # n["prereqs"] <=> "prereqs" \in U
         /\ w["cites"] # n["cites"] <=> "cites" \in U
         /\ w["text"] # n["text"] <=> "text" \in U
    BY <1>2, <1>7, <1>8 DEF NodeType
  <1>12. {f \in Fields : w[f] # n[f]} = U
    BY <1>9, <1>11 DEF Fields
  <1>. QED BY <1>10, <1>12 DEF d, U, w, n

(* What a merge does is what the user saw when the proposal was made: the  *)
(* diff is computed again and compared in the transaction that applies it. *)
THEOREM MergesAreReviewed == Spec => MergeIsReviewed
  <1>1. ASSUME TypeOK, WellFormed(row, node), [Next]_vars, Merges
        PROVE  LET d == proposals[log'[Len(log')]].diff IN
               /\ row' \ row = d.additions
               /\ \A k \in Active : node'[k].archived <=> k \in d.archives
               /\ \A k \in Active \ d.archives :
                    {f \in Fields : node'[k][f] # node[k][f]} = UpdatedFields(d, k)
    <2>1. PICK i \in DOMAIN proposals : Apply(i) /\ log'[Len(log')] = i
      BY <1>1, MergesAreApplied
    <2>. DEFINE t == proposals[i].tree
                d == Diff(t)
    <2>2. proposals[i] \in ProposalType BY <1>1, <2>1 DEF TypeOK
    <2>3. t \in Seq(Item) BY <2>2 DEF ProposalType
    <2>4. d = proposals[i].diff BY <2>1 DEF Apply, Applicable
    <2>5. Mergeable(t, d) /\ row' = row \cup d.additions /\ node' = Merged(t, d)
      BY <2>1 DEF Apply
    <2>6. row' \ row = d.additions BY <2>5 DEF Mergeable
    <2>7. ASSUME NEW k \in Active, k \in d.archives PROVE node'[k].archived = TRUE
      <3>1. k \in Keys BY <1>1 DEF Active, ActiveIn, TypeOK
      <3>2. k \notin d.additions BY DEF Diff
      <3>3. node'[k] = [node[k] EXCEPT !.archived = TRUE]
        BY <2>5, <2>7, <3>1, <3>2 DEF Merged
      <3>4. node[k] \in NodeType BY <1>1, <3>1 DEF TypeOK
      <3>. HIDE DEF d
      <3>. QED BY <3>3, <3>4 DEF NodeType
    <2>8. ASSUME NEW k \in Active, k \notin d.archives
          PROVE  /\ ~node'[k].archived
                 /\ {f \in Fields : node'[k][f] # node[k][f]} = UpdatedFields(d, k)
      <3>1. ~node[k].archived BY DEF Active, ActiveIn
      <3>. QED BY <1>1, <2>3, <2>5, <2>8, <3>1, MergeWrites
    <2>. HIDE DEF d
    <2>9. \A k \in Active : node'[k].archived <=> k \in d.archives BY <2>7, <2>8
    <2>. QED BY <2>1, <2>4, <2>6, <2>8, <2>9
  <1>2. TypeOK /\ WellFormed(row, node) /\ [Next]_vars =>
            [Merges => LET d == proposals[log'[Len(log')]].diff IN
               /\ row' \ row = d.additions
               /\ \A k \in Active : node'[k].archived <=> k \in d.archives
               /\ \A k \in Active \ d.archives :
                    {f \in Fields : node'[k][f] # node[k][f]} = UpdatedFields(d, k)]_vars
    BY <1>1
  <1>. QED BY <1>2, TypeCorrect, PlanIsForest, PTL DEF Spec, MergeIsReviewed

-----------------------------------------------------------------------------
(* Dependencies: closures and edges *)

Relations == [Keys -> SUBSET Keys]

LEMMA ClosureIsLeast ==
  ASSUME NEW s \in SUBSET Keys, NEW e \in Relations
  PROVE  /\ s \subseteq Closure(s, e) /\ Closure(s, e) \subseteq Keys
         /\ \A q \in Closure(s, e) : e[q] \subseteq Closure(s, e)
         /\ \A S \in SUBSET Keys :
                s \subseteq S /\ (\A q \in S : e[q] \subseteq S) => Closure(s, e) \subseteq S
  <1>1. s \subseteq Closure(s, e) /\ Closure(s, e) \subseteq Keys BY DEF Closure
  <1>2. ASSUME NEW q \in Closure(s, e), NEW p \in e[q] PROVE p \in Closure(s, e)
    <2>1. q \in Keys BY DEF Closure
    <2>2. p \in Keys BY <2>1 DEF Relations
    <2>3. ASSUME NEW S \in SUBSET Keys, s \subseteq S, \A r \in S : e[r] \subseteq S
          PROVE  p \in S
      <3>1. q \in S BY <2>3 DEF Closure
      <3>. QED BY <2>3, <3>1
    <2>. QED BY <2>2, <2>3 DEF Closure
  <1>3. ASSUME NEW S \in SUBSET Keys, s \subseteq S, \A q \in S : e[q] \subseteq S
        PROVE  Closure(s, e) \subseteq S
    BY <1>3 DEF Closure
  <1>. QED BY <1>1, <1>2, <1>3

LEMMA DependsIsClosed ==
  ASSUME NEW e \in Relations, NEW k \in Keys
  PROVE  /\ e[k] \subseteq DependsOn(e, k) /\ DependsOn(e, k) \subseteq Keys
         /\ \A q \in DependsOn(e, k) : e[q] \subseteq DependsOn(e, k)
         /\ \A S \in SUBSET Keys :
                e[k] \subseteq S /\ (\A q \in S : e[q] \subseteq S) => DependsOn(e, k) \subseteq S
  <1>1. e[k] \in SUBSET Keys BY DEF Relations
  <1>. QED BY <1>1, ClosureIsLeast DEF DependsOn

LEMMA DependsIsTransitive ==
  ASSUME NEW e \in Relations, NEW k \in Keys, NEW q \in DependsOn(e, k)
  PROVE  DependsOn(e, q) \subseteq DependsOn(e, k)
  <1>1. q \in Keys BY DependsIsClosed
  <1>. QED BY <1>1, DependsIsClosed

(* No key depends on itself.                                               *)
Acyclic(e) == \A k \in Keys : k \notin DependsOn(e, k)

LEMMA FewerEdges ==
  ASSUME NEW e \in Relations, NEW f \in Relations, \A k \in Keys : f[k] \subseteq e[k]
  PROVE  \A k \in Keys : DependsOn(f, k) \subseteq DependsOn(e, k)
  <1>. SUFFICES ASSUME NEW k \in Keys PROVE DependsOn(f, k) \subseteq DependsOn(e, k)
    OBVIOUS
  <1>1. f[k] \subseteq DependsOn(e, k) /\ DependsOn(e, k) \in SUBSET Keys
    BY DependsIsClosed
  <1>2. \A q \in DependsOn(e, k) : f[q] \subseteq DependsOn(e, k)
    BY <1>1, DependsIsClosed
  <1>. QED BY <1>1, <1>2, DependsIsClosed

(* The trigger is enough: edges it admits close no cycle.                  *)
LEMMA InsertionIsAcyclic ==
  ASSUME NEW e \in Relations, Acyclic(e), NEW k \in Keys, NEW P \in SUBSET Keys,
         Insertable(e, k, P)
  PROVE  Acyclic([e EXCEPT ![k] = P])
  <1>. DEFINE e0 == [e EXCEPT ![k] = {}]
              e1 == [e EXCEPT ![k] = P]
              C == P \cup UNION {DependsOn(e0, p) : p \in P}
  <1>1. e0 \in Relations /\ e1 \in Relations BY DEF Relations
  <1>2. \A q \in Keys : e0[q] \subseteq e[q] /\ (q # k => e1[q] = e0[q])
    BY DEF Relations
  <1>3. e1[k] = P BY DEF Relations
  <1>4. \A p \in P : p # k /\ k \notin DependsOn(e0, p) BY DEF Insertable
  <1>. HIDE DEF e0, e1
  <1>5. Acyclic(e0) BY <1>1, <1>2, FewerEdges DEF Acyclic
  <1>6. C \in SUBSET Keys /\ k \notin C BY <1>1, <1>4, DependsIsClosed
  <1>7. \A q \in C : e0[q] \subseteq C BY <1>1, DependsIsClosed
  <1>8. \A q \in C : e1[q] \subseteq C BY <1>2, <1>6, <1>7
  <1>9. k \notin DependsOn(e1, k)
    <2>1. e1[k] \subseteq C BY <1>3
    <2>. HIDE DEF C
    <2>. QED BY <1>1, <1>6, <1>8, <2>1, DependsIsClosed
  <1>10. ASSUME NEW q \in Keys, q # k PROVE q \notin DependsOn(e1, q)
    <2>. DEFINE D == DependsOn(e0, q)
    <2>1. e0[q] \subseteq D /\ D \in SUBSET Keys /\ (\A r \in D : e0[r] \subseteq D)
      BY <1>1, DependsIsClosed
    <2>2. q \notin D BY <1>5 DEF Acyclic
    <2>. HIDE DEF D, C
    <2>3. CASE k \notin D
      <3>1. \A r \in D : e1[r] \subseteq D BY <1>2, <2>1, <2>3
      <3>2. e1[q] \subseteq D BY <1>2, <1>10, <2>1
      <3>. QED BY <1>1, <2>1, <2>2, <3>1, <3>2, DependsIsClosed
    <2>4. CASE k \in D
      <3>1. \A r \in D : e1[r] \subseteq D \cup C
        <4>1. P \subseteq C BY DEF C
        <4>. QED BY <1>2, <1>3, <2>1, <4>1
      <3>2. e1[q] \subseteq D \cup C BY <1>2, <1>10, <2>1
      <3>3. DependsOn(e1, q) \subseteq D \cup C
        BY <1>1, <1>6, <1>8, <2>1, <3>1, <3>2, DependsIsClosed
      <3>4. q \notin P BY <1>4, <2>4 DEF D
      <3>5. ASSUME NEW p \in P, q \in DependsOn(e0, p) PROVE FALSE
        BY <1>1, <1>4, <2>4, <3>5, DependsIsTransitive DEF D
      <3>6. q \notin C BY <3>4, <3>5 DEF C
      <3>. QED BY <2>2, <3>3, <3>6
    <2>. QED BY <2>3, <2>4
  <1>. QED BY <1>9, <1>10 DEF Acyclic, e1

-----------------------------------------------------------------------------
(* Induction over the naturals *)

LEMMA LeastNatural ==
  ASSUME NEW T \in SUBSET Nat, T # {}
  PROVE  \E n \in T : \A m \in T : n <= m
  <1>. DEFINE R == StrictSubsetOrdering(Nat)
              Below(n) == {m \in Nat : m < n}
              B == {Below(n) : n \in T}
  <1>1. IsWellFoundedOn(R, FiniteSubsetsOf(Nat)) BY FS_StrictSubsetOrderingWellFounded
  <1>2. \A n \in Nat : IsFiniteSet(Below(n)) BY FS_BoundedSetOfNaturals
  <1>3. B \subseteq FiniteSubsetsOf(Nat) /\ B # {} BY <1>2 DEF FiniteSubsetsOf
  <1>4. PICK b \in B : \A c \in B : ~(<<c, b>> \in R) BY <1>1, <1>3, WFMin
  <1>5. PICK n \in T : b = Below(n) OBVIOUS
  <1>6. ASSUME NEW m \in T, m < n PROVE FALSE
    <2>1. Below(m) \subseteq Below(n) BY <1>6
    <2>2. m \in Below(n) /\ m \notin Below(m) BY <1>6
    <2>3. Below(m) \in B /\ Below(m) \in SUBSET Nat /\ Below(n) \in SUBSET Nat OBVIOUS
    <2>. HIDE DEF Below, B
    <2>4. <<Below(m), Below(n)>> \in R BY <2>1, <2>2, <2>3 DEF StrictSubsetOrdering
    <2>. QED BY <1>4, <1>5, <2>3, <2>4
  <1>. QED BY <1>6

LEMMA InductionUpTo ==
  ASSUME NEW N \in Nat, NEW T \in SUBSET (0..N), 0 \in T,
         \A n \in 1..N : n - 1 \in T => n \in T
  PROVE  T = 0..N
  <1>. SUFFICES ASSUME (0..N) \ T # {} PROVE FALSE OBVIOUS
  <1>1. PICK n \in (0..N) \ T : \A m \in (0..N) \ T : n <= m
    <2>1. (0..N) \ T \in SUBSET Nat OBVIOUS
    <2>. QED BY <2>1, LeastNatural
  <1>2. n # 0 /\ n \in 0..N BY <1>1
  <1>3. n - 1 \in 0..N /\ n \in 1..N /\ ~(n <= n - 1) BY <1>2
  <1>4. n - 1 \in T BY <1>1, <1>3
  <1>. QED BY <1>1, <1>3, <1>4

(* A definition by recursion over 0..N has a solution.                     *)
StepsOn(N, V) == [1..N -> [V -> V]]

Solves(f, N, V, b, step) ==
  f \in [0..N -> V] /\ f[0] = b /\ \A i \in 1..N : f[i] = step[i][f[i - 1]]

LEMMA RecursionExists ==
  ASSUME NEW N \in Nat, NEW V, NEW b \in V, NEW step \in StepsOn(N, V)
  PROVE  \E f : Solves(f, N, V, b, step)
  <1>. DEFINE T == {n \in 0..N : \E f : Solves(f, n, V, b, step)}
  <1>1. 0 \in T
    <2>. DEFINE f == [i \in 0..0 |-> b]
    <2>1. Solves(f, 0, V, b, step) BY DEF Solves
    <2>. HIDE DEF f
    <2>. QED BY <2>1
  <1>2. ASSUME NEW n \in 1..N, n - 1 \in T PROVE n \in T
    <2>1. PICK f : Solves(f, n - 1, V, b, step) BY <1>2
    <2>2. /\ f \in [0..(n - 1) -> V] /\ f[0] = b
          /\ \A i \in 1..(n - 1) : f[i] = step[i][f[i - 1]]
      BY <2>1 DEF Solves
    <2>. DEFINE g == [i \in 0..n |-> IF i = n THEN step[n][f[n - 1]] ELSE f[i]]
    <2>3. n - 1 \in 0..(n - 1) /\ f[n - 1] \in V BY <2>2
    <2>4. step[n][f[n - 1]] \in V BY <2>3 DEF StepsOn
    <2>5. \A i \in 0..n : i # n => i \in 0..(n - 1) OBVIOUS
    <2>6. g \in [0..n -> V] BY <2>2, <2>4, <2>5
    <2>7. g[0] = b BY <2>2
    <2>8. ASSUME NEW i \in 1..n PROVE g[i] = step[i][g[i - 1]]
      <3>1. i - 1 \in 0..n /\ i \in 0..n /\ i - 1 # n /\ (i # n => i \in 1..(n - 1)) OBVIOUS
      <3>2. g[i - 1] = f[i - 1] BY <3>1
      <3>3. CASE i = n BY <3>1, <3>2, <3>3
      <3>4. CASE i # n BY <2>2, <3>1, <3>2, <3>4
      <3>. QED BY <3>3, <3>4
    <2>. HIDE DEF g
    <2>9. Solves(g, n, V, b, step) BY <2>6, <2>7, <2>8 DEF Solves
    <2>10. n \in 0..N OBVIOUS
    <2>. QED BY <2>9, <2>10
  <1>. HIDE DEF T
  <1>3. T = 0..N BY <1>1, <1>2, InductionUpTo DEF T
  <1>4. N \in T BY <1>3
  <1>. QED BY <1>4 DEF T

-----------------------------------------------------------------------------
(* The dependencies of a merged plan *)

(* The edges that merge_plan passes through, node by node in preorder.     *)
LEMMA EdgesAfterSteps ==
  ASSUME node \in [Keys -> NodeType], NEW t \in Seq(Item), NEW d
  PROVE  /\ EdgesAfter(t, d) \in [0..Len(t) -> Relations]
         /\ EdgesAfter(t, d)[0] = Edges(node)
         /\ \A i \in 1..Len(t) :
                EdgesAfter(t, d)[i] =
                    IF WritesPrereqs(d, t[i].key)
                    THEN [EdgesAfter(t, d)[i - 1] EXCEPT ![t[i].key] = t[i].prereqs]
                    ELSE EdgesAfter(t, d)[i - 1]
  <1>. DEFINE N == Len(t)
              Put(e, i) == IF WritesPrereqs(d, t[i].key)
                           THEN [e EXCEPT ![t[i].key] = t[i].prereqs] ELSE e
              Def(f) == f = [i \in 0..N |->
                                IF i = 0 THEN Edges(node)
                                ELSE IF WritesPrereqs(d, t[i].key)
                                     THEN [f[i - 1] EXCEPT ![t[i].key] = t[i].prereqs]
                                     ELSE f[i - 1]]
              step == [i \in 1..N |-> [e \in Relations |-> Put(e, i)]]
              after == CHOOSE f : Def(f)
  <1>1. N \in Nat OBVIOUS
  <1>2. \A i \in 1..N : t[i].key \in Keys /\ t[i].prereqs \in SUBSET Keys
    <2>1. \A i \in 1..N : t[i] \in Item OBVIOUS
    <2>. QED BY <2>1 DEF Item
  <1>3. Edges(node) \in Relations BY DEF Edges, Relations, NodeType
  <1>4. \A i \in 1..N, e \in Relations : Put(e, i) \in Relations BY <1>2 DEF Relations
  <1>5. step \in [1..N -> [Relations -> Relations]] BY <1>4
  <1>6. \A i \in 1..N, e \in Relations : step[i][e] = Put(e, i) OBVIOUS
  <1>7. after = EdgesAfter(t, d) BY DEF EdgesAfter
  <1>8. ASSUME NEW f, Def(f)
        PROVE  /\ DOMAIN f = 0..N /\ f = [i \in 0..N |-> f[i]] /\ f[0] = Edges(node)
               /\ \A i \in 1..N : f[i] = Put(f[i - 1], i)
    <2>1. f = [i \in 0..N |-> IF i = 0 THEN Edges(node) ELSE Put(f[i - 1], i)] BY <1>8
    <2>2. \A i \in 1..N : i \in 0..N /\ i # 0 BY <1>1
    <2>3. 0 \in 0..N BY <1>1
    <2>. HIDE DEF Put
    <2>. QED BY <2>1, <2>2, <2>3
  <1>9. ASSUME NEW f \in [0..N -> Relations], f[0] = Edges(node),
               \A i \in 1..N : f[i] = Put(f[i - 1], i)
        PROVE  Def(f)
    <2>1. \A i \in 0..N : i # 0 => i \in 1..N BY <1>1
    <2>2. \A i \in 0..N : f[i] = IF i = 0 THEN Edges(node) ELSE Put(f[i - 1], i)
      <3>. HIDE DEF Put
      <3>. QED BY <1>9, <2>1
    <2>. QED BY <1>9, <2>2
  <1>. HIDE DEF N, step
  <1>10. PICK f : Solves(f, N, Relations, Edges(node), step)
    <2>1. step \in StepsOn(N, Relations) BY <1>5 DEF StepsOn
    <2>. QED BY <1>1, <1>3, <2>1, RecursionExists
  <1>11. \A i \in 1..N : i - 1 \in 0..N BY <1>1
  <1>12. \A i \in 1..N : f[i] = Put(f[i - 1], i)
    <2>1. \A i \in 1..N : f[i - 1] \in Relations BY <1>10, <1>11 DEF Solves
    <2>. HIDE DEF Put
    <2>. QED BY <1>6, <1>10, <2>1 DEF Solves
  <1>13. Def(f) BY <1>9, <1>10, <1>12 DEF Solves
  <1>. HIDE DEF Def
  <1>14. Def(after) BY <1>13
  <1>. HIDE DEF after, Put
  <1>15. /\ after = [i \in 0..N |-> after[i]] /\ after[0] = Edges(node)
         /\ \A i \in 1..N : after[i] = Put(after[i - 1], i)
    BY <1>8, <1>14
  <1>. DEFINE T == {i \in 0..N : after[i] \in Relations}
  <1>16. T = 0..N
    <2>1. 0 \in T BY <1>1, <1>3, <1>15
    <2>2. ASSUME NEW i \in 1..N, i - 1 \in T PROVE i \in T
      <3>1. after[i] = Put(after[i - 1], i) /\ i \in 0..N
        <4>1. i \in 0..N BY <1>1
        <4>. QED BY <1>15, <4>1
      <3>2. after[i - 1] \in Relations BY <2>2
      <3>. QED BY <1>4, <3>1, <3>2
    <2>. HIDE DEF T
    <2>3. T \subseteq 0..N BY DEF T
    <2>. QED BY <1>1, <2>1, <2>2, <2>3, InductionUpTo
  <1>17. after \in [0..N -> Relations] BY <1>15, <1>16
  <1>. QED BY <1>7, <1>15, <1>17 DEF Put, N

(* normalize_plan: a planned tree names each key once.                     *)
NamesOnce(t) == Cardinality(PlanKeys(t)) = Len(t)

LEMMA KeysOnce ==
  ASSUME NEW t \in Seq(Item), NamesOnce(t)
  PROVE  \A i, j \in 1..Len(t) : t[i].key = t[j].key => i = j
  <1>. DEFINE S == 1..Len(t)
              f == [i \in S |-> t[i].key]
  <1>1. Len(t) \in Nat OBVIOUS
  <1>2. \A n \in Nat : IsFiniteSet(1..n) /\ Cardinality(1..n) = n
    <2>. SUFFICES ASSUME NEW n \in Nat PROVE IsFiniteSet(1..n) /\ Cardinality(1..n) = n
      OBVIOUS
    <2>1. IsFiniteSet(1..n) /\ Cardinality(1..n) = IF 1 > n THEN 0 ELSE n - 1 + 1
      BY FS_Interval
    <2>. QED BY <2>1
  <1>3. f \in Surjection(S, PlanKeys(t)) BY DEF Surjection, PlanKeys
  <1>4. f \in Injection(S, PlanKeys(t)) BY <1>1, <1>2, <1>3, FS_Surjection DEF NamesOnce
  <1>5. \A i, j \in S : f[i] = f[j] => i = j
    <2>. HIDE DEF f, S
    <2>. QED BY <1>4 DEF Injection, IsInjective
  <1>. QED BY <1>5

(* The edges of the merged rows.                                           *)
LEMMA MergedEdges ==
  ASSUME TypeOK, NEW t \in Seq(Item), NEW k \in Keys
  PROVE  LET d == Diff(t) IN
         /\ WritesPrereqs(d, k) => k \in PlanKeys(t)
         /\ Edges(Merged(t, d))[k] = IF WritesPrereqs(d, k) THEN ItemOf(t, k).prereqs
                                     ELSE node[k].prereqs
  <1>. DEFINE d == Diff(t)
              U == UpdatedFields(d, k)
              new == ItemOf(t, k)
              w == Merged(t, d)[k]
              p == new.parent
              P == new.prereqs
              c == new.cites
              x == new.text
              n == node[k]
  <1>1. n \in NodeType BY DEF TypeOK
  <1>2. U # {} => k \in Common(t) BY UpdatesRespect
  <1>3. k \in d.additions => k \in PlanKeys(t) BY DEF Diff
  <1>4. k \in d.archives => k \notin PlanKeys(t) BY DEF Diff
  <1>5. WritesPrereqs(d, k) => k \in PlanKeys(t) BY <1>2, <1>3 DEF WritesPrereqs, Common
  <1>6. WritesPrereqs(d, k) <=> k \in d.additions \/ "prereqs" \in U BY DEF WritesPrereqs
  <1>7. k \in d.archives => "prereqs" \notin U BY <1>2, <1>4 DEF Common
  <1>8. Edges(Merged(t, d))[k] = w.prereqs BY DEF Edges
  <1>9. CASE k \in d.additions
    <2>1. w = [Blank EXCEPT !.parent = p, !.prereqs = P, !.cites = c, !.text = x]
      BY <1>9 DEF Merged
    <2>. HIDE DEF d, w, p, P, c, x
    <2>2. w.prereqs = P BY <2>1 DEF Blank
    <2>. QED BY <1>5, <1>6, <1>8, <1>9, <2>2 DEF P, d
  <1>10. CASE k \notin d.additions /\ k \in d.archives
    <2>1. w = [n EXCEPT !.archived = TRUE] BY <1>10 DEF Merged
    <2>. HIDE DEF d, w, n
    <2>2. w.prereqs = n.prereqs BY <1>1, <2>1 DEF NodeType
    <2>. QED BY <1>5, <1>6, <1>7, <1>8, <1>10, <2>2 DEF n, d
  <1>11. CASE k \notin d.additions /\ k \notin d.archives
    <2>1. w = [n EXCEPT !.parent = IF "parent" \in U THEN p ELSE @,
                        !.prereqs = IF "prereqs" \in U THEN P ELSE @,
                        !.cites = IF "cites" \in U THEN c ELSE @,
                        !.text = IF "text" \in U THEN x ELSE @]
      BY <1>11 DEF Merged
    <2>. HIDE DEF d, U, w, n, p, P, c, x
    <2>2. w.prereqs = IF "prereqs" \in U THEN P ELSE n.prereqs BY <1>1, <2>1 DEF NodeType
    <2>. QED BY <1>5, <1>6, <1>8, <1>11, <2>2 DEF n, d, P
  <1>. QED BY <1>9, <1>10, <1>11

(* The triggers that see each node's edges as they are inserted leave a    *)
(* merged plan without cycles, whatever order its nodes are written in.    *)
LEMMA MergedAcyclic ==
  ASSUME TypeOK, NEW t \in Seq(Item), NamesOnce(t),
         Acyclic(Edges(node)), Mergeable(t, Diff(t))
  PROVE  Acyclic(Edges(Merged(t, Diff(t))))
  <1>. DEFINE d == Diff(t)
              N == Len(t)
              E == EdgesAfter(t, d)
              Written(i, k) == WritesPrereqs(d, k) /\ \E j \in 1..i : t[j].key = k
              Stage(i, k) == IF Written(i, k) THEN ItemOf(t, k).prereqs ELSE node[k].prereqs
              T == {i \in 0..N : Acyclic(E[i]) /\ \A k \in Keys : E[i][k] = Stage(i, k)}
  <1>1. N \in Nat OBVIOUS
  <1>2. \A i \in 1..N : t[i].key \in Keys /\ t[i].prereqs \in SUBSET Keys
    <2>1. \A i \in 1..N : t[i] \in Item OBVIOUS
    <2>. QED BY <2>1 DEF Item
  <1>3. \A i \in 1..N : ItemOf(t, t[i].key) = t[i]
    BY KeysOnce DEF ItemOf
  <1>4. /\ E \in [0..N -> Relations] /\ E[0] = Edges(node)
        /\ \A i \in 1..N : E[i] = IF WritesPrereqs(d, t[i].key)
                                  THEN [E[i - 1] EXCEPT ![t[i].key] = t[i].prereqs]
                                  ELSE E[i - 1]
    BY EdgesAfterSteps DEF TypeOK
  <1>5. \A i \in 1..N : WritesPrereqs(d, t[i].key) =>
            Insertable(E[i - 1], t[i].key, t[i].prereqs)
    BY DEF Mergeable
  <1>6. Merged(t, d) \in [Keys -> NodeType] BY MergedTyped
  <1>7. \A k \in Keys : /\ WritesPrereqs(d, k) => k \in PlanKeys(t)
                        /\ Edges(Merged(t, d))[k] = IF WritesPrereqs(d, k)
                                                    THEN ItemOf(t, k).prereqs
                                                    ELSE node[k].prereqs
    BY MergedEdges
  <1>. HIDE DEF d, E, N
  <1>8. 0 \in T
    <2>1. \A k \in Keys : ~Written(0, k) OBVIOUS
    <2>2. \A k \in Keys : E[0][k] = node[k].prereqs BY <1>4 DEF Edges
    <2>. HIDE DEF Written
    <2>. QED BY <1>1, <1>4, <2>1, <2>2
  <1>9. ASSUME NEW i \in 1..N, i - 1 \in T PROVE i \in T
    <2>. DEFINE q == t[i].key
                e == E[i - 1]
    <2>1. i \in 0..N /\ i - 1 \in 0..N BY <1>1
    <2>2. e \in Relations /\ Acyclic(e) /\ q \in Keys /\ t[i].prereqs \in SUBSET Keys
      BY <1>2, <1>4, <1>9, <2>1
    <2>3. \A k \in Keys : e[k] = Stage(i - 1, k) BY <1>9
    <2>4. ItemOf(t, q) = t[i] BY <1>3
    <2>5. \A k \in Keys : Written(i, k) <=> Written(i - 1, k) \/ (k = q /\ WritesPrereqs(d, q))
      <3>1. \A j : j \in 1..i <=> j \in 1..(i - 1) \/ j = i BY <1>1
      <3>. QED BY <3>1
    <2>6. E[i] = IF WritesPrereqs(d, q) THEN [e EXCEPT ![q] = t[i].prereqs] ELSE e BY <1>4
    <2>7. WritesPrereqs(d, q) => Insertable(e, q, t[i].prereqs) BY <1>5
    <2>. HIDE DEF q, e, Written
    <2>8. CASE WritesPrereqs(d, q)
      <3>1. E[i] = [e EXCEPT ![q] = t[i].prereqs] BY <2>6, <2>8
      <3>2. Acyclic(E[i]) BY <2>2, <2>7, <2>8, <3>1, InsertionIsAcyclic
      <3>3. \A k \in Keys : E[i][k] = IF k = q THEN t[i].prereqs ELSE e[k]
        BY <2>2, <3>1 DEF Relations
      <3>4. \A k \in Keys : E[i][k] = Stage(i, k)
        BY <2>3, <2>4, <2>5, <2>8, <3>3
      <3>. HIDE DEF Stage
      <3>. QED BY <2>1, <3>2, <3>4
    <2>9. CASE ~WritesPrereqs(d, q)
      <3>1. E[i] = e BY <2>6, <2>9
      <3>2. \A k \in Keys : E[i][k] = Stage(i, k) BY <2>3, <2>5, <2>9, <3>1
      <3>. HIDE DEF Stage
      <3>. QED BY <2>1, <2>2, <3>1, <3>2
    <2>. QED BY <2>8, <2>9
  <1>10. T = 0..N
    <2>. HIDE DEF T
    <2>1. T \subseteq 0..N BY DEF T
    <2>. QED BY <1>1, <1>8, <1>9, <2>1, InductionUpTo
  <1>11. N \in T BY <1>1, <1>10
  <1>12. Acyclic(E[N]) /\ \A k \in Keys : E[N][k] = Stage(N, k) BY <1>11
  <1>13. \A k \in Keys : Edges(Merged(t, d))[k] = E[N][k]
    <2>1. \A k \in Keys : WritesPrereqs(d, k) <=> Written(N, k)
      BY <1>7 DEF PlanKeys, N
    <2>. HIDE DEF Written
    <2>. QED BY <1>7, <1>12, <2>1
  <1>14. E[N] \in Relations /\ Edges(Merged(t, d)) \in Relations
    <2>1. E[N] \in Relations BY <1>1, <1>4
    <2>2. Edges(Merged(t, d)) \in Relations
      <3>. DEFINE w == Merged(t, d)
      <3>1. w \in [Keys -> NodeType] BY <1>6
      <3>. HIDE DEF w
      <3>2. Edges(w) \in Relations BY <3>1 DEF Edges, Relations, NodeType
      <3>. QED BY <3>2 DEF w
    <2>. QED BY <2>1, <2>2
  <1>15. Edges(Merged(t, d)) = E[N] BY <1>13, <1>14 DEF Relations
  <1>. QED BY <1>12, <1>15 DEF d

-----------------------------------------------------------------------------
(* The dependencies of the plan *)

(* What PlanShape needs: no cycle among any keys, relations only to rows,  *)
(* so that a new row has none coming in, and planned trees that name each  *)
(* key once, so that the edges checked are those written.                  *)
Dependencies ==
    /\ Acyclic(Edges(node))
    /\ \A k \in Keys : node[k].prereqs \subseteq row
    /\ \A i \in DOMAIN proposals : NamesOnce(proposals[i].tree)

LEMMA InitDependencies == Init => Dependencies
  <1>. SUFFICES ASSUME Init PROVE Dependencies OBVIOUS
  <1>. DEFINE e == Edges(node)
  <1>1. \A k \in Keys : node[k].prereqs = {} BY DEF Init, Blank
  <1>2. e \in Relations /\ \A k \in Keys : e[k] = {} BY <1>1 DEF Edges, Relations
  <1>. HIDE DEF e
  <1>3. \A k \in Keys : DependsOn(e, k) \subseteq {} BY <1>2, DependsIsClosed
  <1>4. Acyclic(e) BY <1>3 DEF Acyclic
  <1>5. DOMAIN proposals = {} BY DEF Init
  <1>. QED BY <1>1, <1>4, <1>5 DEF Dependencies, e

(* Rows whose relations stay the same.                                     *)
LEMMA SameEdges ==
  ASSUME Dependencies, row' = row,
         \A k \in Keys : node'[k].prereqs = node[k].prereqs,
         \A i \in DOMAIN proposals' : NamesOnce(proposals'[i].tree)
  PROVE  Dependencies'
  <1>1. Edges(node') = Edges(node) BY DEF Edges
  <1>. QED BY <1>1 DEF Dependencies

LEMMA ManualDependencies ==
  ASSUME TypeOK, Dependencies, Manual
  PROVE  Dependencies'
  <1>. DEFINE e == Edges(node)
  <1>1. e \in Relations BY DEF TypeOK, Edges, Relations, NodeType
  <1>2. proposals' = proposals
    BY DEF Manual, CreateManual, UpdateManual, UpdateStatus, ArchiveNode, ByPerson
  <1>3. \A i \in DOMAIN proposals' : NamesOnce(proposals'[i].tree)
    BY <1>2 DEF Dependencies
  <1>4. Active \subseteq row BY DEF Active, ActiveIn
  <1>5. \A k \in Keys : node[k] \in NodeType BY DEF TypeOK
  <1>6. ASSUME NEW k \in Keys, NEW P \in SUBSET Keys, P \subseteq row', row \subseteq row',
               Insertable(e, k, P),
               \A q \in Keys : node'[q].prereqs = IF q = k THEN P ELSE node[q].prereqs
        PROVE  Dependencies'
    <2>1. Edges(node') = [e EXCEPT ![k] = P] BY <1>6 DEF Edges
    <2>2. Acyclic(Edges(node')) BY <1>1, <1>6, <2>1, InsertionIsAcyclic DEF Dependencies
    <2>3. \A q \in Keys : node'[q].prereqs \subseteq row' BY <1>6 DEF Dependencies
    <2>. QED BY <1>3, <2>2, <2>3 DEF Dependencies
  <1>7. CASE \E k \in ManualKeys, p \in Keys \cup {Root}, P \in SUBSET Keys : CreateManual(k, p, P)
    <2>1. PICK k \in ManualKeys, p \in Keys \cup {Root}, P \in SUBSET Keys : CreateManual(k, p, P)
      BY <1>7
    <2>. DEFINE new == [Blank EXCEPT !.source = "manual", !.locks = Fields,
                                     !.parent = p, !.prereqs = P]
                e0 == [e EXCEPT ![k] = {}]
    <2>2. /\ k \in Keys /\ k \notin row /\ P \subseteq row /\ row' = row \cup {k}
          /\ node' = [node EXCEPT ![k] = new]
      BY <1>4, <2>1 DEF CreateManual, Keys
    <2>3. new.prereqs = P BY DEF Blank
    <2>4. e0 \in Relations /\ \A q \in Keys : e0[q] \subseteq row
      BY <1>1 DEF Relations, Dependencies, Edges
    <2>5. ASSUME NEW q \in P PROVE q # k /\ k \notin DependsOn(e0, q)
      <3>1. q \in Keys /\ row \in SUBSET Keys BY DEF TypeOK
      <3>. HIDE DEF e0
      <3>2. DependsOn(e0, q) \subseteq row BY <2>4, <3>1, DependsIsClosed
      <3>. QED BY <2>2, <3>2
    <2>6. Insertable(e, k, P) BY <2>5 DEF Insertable
    <2>. HIDE DEF new
    <2>7. \A q \in Keys : node'[q].prereqs = IF q = k THEN P ELSE node[q].prereqs
      BY <2>2, <2>3 DEF TypeOK
    <2>. QED BY <1>6, <2>2, <2>6, <2>7
  <1>8. CASE \E k \in Keys, c \in Edits : UpdateManual(k, c)
    <2>1. PICK k \in Keys, c \in Edits : UpdateManual(k, c) BY <1>8
    <2>2. /\ c.prereqs \subseteq row /\ row' = row /\ Insertable(e, k, c.prereqs)
          /\ node' = [node EXCEPT ![k].text = c.text, ![k].locks = c.locks,
                                  ![k].prereqs = c.prereqs]
      BY <1>4, <2>1 DEF UpdateManual
    <2>3. c.prereqs \in SUBSET Keys BY EditsAssumption
    <2>4. \A q \in Keys : node'[q].prereqs = IF q = k THEN c.prereqs ELSE node[q].prereqs
      BY <1>5, <2>2 DEF NodeType, TypeOK
    <2>. QED BY <1>6, <2>2, <2>3, <2>4
  <1>9. CASE \E k \in Keys, s \in Moves : UpdateStatus(k, s)
    <2>1. PICK k \in Keys, s \in Moves : UpdateStatus(k, s) BY <1>9
    <2>2. row' = row /\ node' = [node EXCEPT ![k].status = s] BY <2>1 DEF UpdateStatus
    <2>3. \A q \in Keys : node'[q].prereqs = node[q].prereqs
      BY <1>5, <2>2 DEF NodeType, TypeOK
    <2>. QED BY <1>3, <2>2, <2>3, SameEdges
  <1>10. CASE \E k \in Keys : ArchiveNode(k)
    <2>1. PICK k \in Keys : ArchiveNode(k) BY <1>10
    <2>. DEFINE S == Subtree(k)
    <2>2. row' = row /\ node' = [q \in Keys |-> IF q \in S THEN [node[q] EXCEPT !.archived = TRUE]
                                                ELSE node[q]]
      BY <2>1 DEF ArchiveNode
    <2>. HIDE DEF S
    <2>3. \A q \in Keys : node'[q].prereqs = node[q].prereqs
      BY <1>5, <2>2 DEF NodeType
    <2>. QED BY <1>3, <2>2, <2>3, SameEdges
  <1>. QED BY <1>7, <1>8, <1>9, <1>10 DEF Manual

LEMMA ProposalsNameOnce ==
  ASSUME TypeOK, Dependencies, [Next]_vars
  PROVE  \A i \in DOMAIN proposals' : NamesOnce(proposals'[i].tree)
  <1>. DEFINE P == DOMAIN proposals
  <1>1. P = 1..Len(proposals) /\ Len(proposals) \in Nat /\ proposals \in Seq(ProposalType)
    BY DEF TypeOK
  <1>2. \A i \in P : proposals[i] \in ProposalType /\ NamesOnce(proposals[i].tree)
    BY <1>1 DEF Dependencies
  <1>3. ASSUME DOMAIN proposals' = P, \A i \in P : proposals'[i].tree = proposals[i].tree
        PROVE  \A i \in DOMAIN proposals' : NamesOnce(proposals'[i].tree)
    BY <1>2, <1>3
  <1>4. CASE proposals' = proposals BY <1>3, <1>4
  <1>5. \A i \in P : /\ Superseded(proposals[i]).tree = proposals[i].tree
                     /\ [proposals[i] EXCEPT !.status = "applied"].tree = proposals[i].tree
                     /\ [proposals[i] EXCEPT !.status = "rejected"].tree = proposals[i].tree
    BY <1>2 DEF Superseded, ProposalType
  <1>6. ASSUME NEW r, MarkUpdate(r) PROVE \A i \in DOMAIN proposals' : NamesOnce(proposals'[i].tree)
    BY <1>3, <1>5, <1>6 DEF MarkUpdate
  <1>7. CASE Evidence
    BY <1>4, <1>6, <1>7 DEF Evidence, LinkFindingEvidence, LinkTaskEvidence, VerifierEvidence,
                            NewFinding, ReviewFinding
  <1>8. CASE Answer
    <2>1. PICK t \in Answers :
            /\ NamesOnce(t)
            /\ proposals' =
                IF Known(t) THEN proposals
                ELSE Append(proposals, [status |-> "pending", base |-> call.seen.base,
                                        op |-> call.op, target |-> call.target, tree |-> t,
                                        diff |-> Diff(t), made |-> epoch])
      BY <1>8 DEF Answer, Normal, NamesOnce
    <2>2. CASE ~Known(t)
      <3>. DEFINE p == [status |-> "pending", base |-> call.seen.base, op |-> call.op,
                        target |-> call.target, tree |-> t, diff |-> Diff(t), made |-> epoch]
      <3>1. p.tree = t /\ proposals' = Append(proposals, p) BY <2>1, <2>2
      <3>. HIDE DEF p
      <3>2. /\ DOMAIN proposals' = P \cup {Len(proposals) + 1}
            /\ \A i \in P : proposals'[i] = proposals[i]
            /\ proposals'[Len(proposals) + 1] = p
        BY <1>1, <3>1
      <3>. QED BY <1>2, <2>1, <3>1, <3>2
    <2>. QED BY <1>4, <2>1, <2>2
  <1>9. CASE \E i \in P : Reject(i)
    <2>1. PICK i \in P : Reject(i) BY <1>9
    <2>2. proposals' = [proposals EXCEPT ![i] = [proposals[i] EXCEPT !.status = "rejected"]]
      BY <2>1 DEF Reject
    <2>. QED BY <1>1, <1>3, <1>5, <2>2
  <1>10. CASE \E i \in P : Apply(i)
    <2>1. PICK i \in P : Apply(i) BY <1>10
    <2>. QED BY <1>3, <1>5, <2>1 DEF Apply
  <1>11. CASE Manual
    BY <1>4, <1>11 DEF Manual, CreateManual, UpdateManual, UpdateStatus, ArchiveNode, ByPerson
  <1>12. CASE CallEnds \/ \E op \in {"generate", "expand", "alternative"},
                            k \in Keys \cup {Root} : Prepare(op, k)
    BY <1>4, <1>12 DEF CallEnds, Prepare
  <1>13. CASE UNCHANGED vars BY <1>4, <1>13 DEF vars
  <1>14. \A i \in DOMAIN proposals' : NamesOnce(proposals'[i].tree)
    BY <1>7, <1>8, <1>9, <1>10, <1>11, <1>12, <1>13 DEF Next, Planner
  <1>. QED BY <1>14

LEMMA ApplyDependencies ==
  ASSUME TypeOK, TypeOK', Dependencies, [Next]_vars, NEW i \in DOMAIN proposals, Apply(i)
  PROVE  Dependencies'
  <1>. DEFINE t == proposals[i].tree
              d == Diff(t)
  <1>1. t \in Seq(Item)
    <2>1. proposals[i] \in ProposalType BY DEF TypeOK
    <2>. QED BY <2>1 DEF ProposalType
  <1>2. /\ Mergeable(t, d) /\ row' = row \cup d.additions /\ node' = Merged(t, d)
        /\ WellFormed(row', node')
    BY DEF Apply
  <1>3. NamesOnce(t) BY DEF Dependencies
  <1>4. Acyclic(Edges(node')) BY <1>1, <1>2, <1>3, MergedAcyclic DEF Dependencies
  <1>5. ASSUME NEW k \in Keys PROVE node'[k].prereqs \subseteq row'
    <2>1. CASE k \in ActiveIn(row', node')
      BY <1>2, <2>1 DEF WellFormed, Edges, ActiveIn
    <2>2. CASE k \notin ActiveIn(row', node')
      <3>1. CASE WritesPrereqs(d, k)
        <4>1. k \in PlanKeys(t) BY <1>1, <3>1, MergedEdges
        <4>2. k \in d.additions \/ UpdatedFields(d, k) # {} BY <3>1 DEF WritesPrereqs
        <4>3. k \in row' /\ k \notin d.archives
          BY <1>1, <1>2, <4>1, <4>2, UpdatesRespect DEF Diff, Common, Active, ActiveIn
        <4>4. ~node'[k].archived
          <5>1. CASE k \in d.additions
            <6>. DEFINE w == Merged(t, d)[k]
                        p == ItemOf(t, k).parent
                        P == ItemOf(t, k).prereqs
                        c == ItemOf(t, k).cites
                        x == ItemOf(t, k).text
            <6>1. w = [Blank EXCEPT !.parent = p, !.prereqs = P, !.cites = c, !.text = x]
              BY <5>1 DEF Merged
            <6>. HIDE DEF w, p, P, c, x
            <6>2. ~w.archived BY <6>1 DEF Blank
            <6>. QED BY <1>2, <6>2 DEF w
          <5>2. CASE k \notin d.additions
            <6>1. k \in Active BY <1>1, <4>2, <5>2, UpdatesRespect DEF Common
            <6>2. ~node[k].archived BY <6>1 DEF Active, ActiveIn
            <6>. DEFINE n == node[k]
                        w == Merged(t, d)[k]
                        U == UpdatedFields(d, k)
                        p == ItemOf(t, k).parent
                        P == ItemOf(t, k).prereqs
                        c == ItemOf(t, k).cites
                        x == ItemOf(t, k).text
            <6>3. n \in NodeType BY DEF TypeOK
            <6>4. w = [n EXCEPT !.parent = IF "parent" \in U THEN p ELSE @,
                                !.prereqs = IF "prereqs" \in U THEN P ELSE @,
                                !.cites = IF "cites" \in U THEN c ELSE @,
                                !.text = IF "text" \in U THEN x ELSE @]
              BY <4>3, <5>2 DEF Merged
            <6>. HIDE DEF n, w, U, p, P, c, x
            <6>5. w.archived = n.archived BY <6>3, <6>4 DEF NodeType
            <6>. QED BY <1>2, <6>2, <6>5 DEF w, n
          <5>. QED BY <5>1, <5>2
        <4>. QED BY <2>2, <4>3, <4>4 DEF ActiveIn
      <3>2. CASE ~WritesPrereqs(d, k)
        <4>1. Edges(node')[k] = node[k].prereqs BY <1>1, <1>2, <3>2, MergedEdges
        <4>2. node'[k].prereqs = node[k].prereqs BY <4>1 DEF Edges
        <4>. QED BY <1>2, <4>2 DEF Dependencies
      <3>. QED BY <3>1, <3>2
    <2>. QED BY <2>1, <2>2
  <1>. QED BY <1>4, <1>5, ProposalsNameOnce DEF Dependencies

(* The active nodes are a forest whose relations stay among them, and no   *)
(* node depends on itself: next_actionable and the digest, which walk the  *)
(* relations without looking for a cycle, end.                             *)
THEOREM PlanIsShaped == Spec => []PlanShape
  <1>1. TypeOK /\ TypeOK' /\ Dependencies /\ [Next]_vars => Dependencies'
    <2>. SUFFICES ASSUME TypeOK, TypeOK', Dependencies, [Next]_vars PROVE Dependencies'
      OBVIOUS
    <2>1. \A i \in DOMAIN proposals' : NamesOnce(proposals'[i].tree)
      BY ProposalsNameOnce
    <2>2. CASE UNCHANGED <<row, node>> BY <2>1, <2>2, SameEdges
    <2>3. ASSUME NEW k \in Keys, row' = row, node' = [node EXCEPT ![k].evidence = @ + 1]
          PROVE  Dependencies'
      <3>1. \A q \in Keys : node'[q].prereqs = node[q].prereqs
        BY <2>3 DEF TypeOK, NodeType
      <3>. QED BY <2>1, <2>3, <3>1, SameEdges
    <2>4. CASE Manual BY <2>4, ManualDependencies
    <2>5. CASE Evidence
      BY <2>2, <2>3, <2>5
      DEF Evidence, LinkFindingEvidence, LinkTaskEvidence, VerifierEvidence,
          NewFinding, ReviewFinding, MarkUpdate, plan
    <2>6. CASE Planner
      BY <2>2, <2>6, ApplyDependencies DEF Planner, Prepare, CallEnds, Answer, Reject, plan
    <2>7. CASE UNCHANGED vars BY <2>2, <2>7 DEF vars
    <2>. QED BY <2>4, <2>5, <2>6, <2>7 DEF Next
  <1>2. TypeOK /\ Dependencies /\ WellFormed(row, node) => PlanShape
    BY DEF TypeOK, Dependencies, Acyclic, PlanShape
  <1>. QED BY <1>1, <1>2, InitDependencies, TypeCorrect, PlanIsForest, PTL DEF Spec

=============================================================================
