-------------------------------- MODULE Tree --------------------------------
(***************************************************************************)
(* The versioned test plan of a project: tree/service.rs, tree/state.rs,   *)
(* the AI planning commands of commands.rs, and the tables, indexes and    *)
(* triggers below them.                                                    *)
(*                                                                         *)
(* The plan's commands are synchronous and run on the main thread, one     *)
(* transaction each.  A planning call of the model is asynchronous: what   *)
(* it was shown is read before it and compared with the database after it. *)
(* A node is identified by its stable key, a planned tree is its nodes in  *)
(* preorder, and of the sixteen editable fields four are told apart: the   *)
(* parent, the prerequisites, the cited findings and all other text.       *)
(***************************************************************************)
EXTENDS Integers, Sequences, FiniteSets

CONSTANTS AiKeys,        \* bound: stable keys of the model, one row of task_nodes each
          ManualKeys,    \* bound: the keys of nodes made by hand
          Root,          \* the parent of a phase
          Texts,         \* contents of a node
          NewTexts,      \* bound: those an expansion or an alternative proposes
          Findings,      \* findings of the project
          Outputs,       \* planned trees the model may answer with
          Edits,         \* bound: what the user edits a node to
          Moves,         \* bound: statuses the user moves a node to
          MaxDepth,      \* MAX_TREE_DEPTH
          MaxNodes,      \* MAX_TREE_NODES
          MaxRevision,   \* bound
          MaxProposals,  \* bound
          MaxEvidence    \* bound: evidence a person links and findings rejected

Keys == AiKeys \cup ManualKeys

ASSUME KeysAssumption == AiKeys \cap ManualKeys = {} /\ IsFiniteSet(AiKeys \cup ManualKeys)
ASSUME TextsAssumption == Texts # {} /\ NewTexts \subseteq Texts
ASSUME RootAssumption == Root \notin Keys
ASSUME EditsAssumption ==
    Edits \subseteq [text: Texts, prereqs: SUBSET Keys,
                     locks: SUBSET {"parent", "prereqs", "cites", "text"}]
ASSUME MovesAssumption ==
    Moves \subseteq {"todo", "in_progress", "done", "blocked", "skipped", "not_applicable"}
ASSUME MaxAssumption == {MaxDepth, MaxNodes, MaxRevision, MaxProposals, MaxEvidence} \subseteq Nat

VARIABLES
    row,        \* keys with a row of task_nodes, archived or not
    node,       \* the rows
    log,        \* task_plan_revisions: the proposal applied, or 0 for a person
    mark,       \* needs_update with its reason
    proposals,  \* task_plan_proposals, in the order they were made
    call,       \* the planning call in flight
    finding,    \* the status of each finding, "none" when there is no such row
    epoch       \* history: evidence that persons linked so far

plan == <<row, node, log, mark>>
vars == <<row, node, log, mark, proposals, call, finding, epoch>>

Fields == {"parent", "prereqs", "cites", "text"}

Status == {"todo", "in_progress", "done", "blocked", "skipped", "not_applicable"}

Terminal == {"done", "skipped", "not_applicable"}

Blank == [source |-> "ai", status |-> "todo", locks |-> {}, parent |-> Root, prereqs |-> {},
          cites |-> {}, text |-> CHOOSE t \in Texts : TRUE, archived |-> FALSE, evidence |-> 0]

NoCall == [op |-> "none"]

revision == Len(log)

Init ==
    /\ row = {} /\ node = [k \in Keys |-> Blank]
    /\ log = <<>> /\ mark = "none"
    /\ proposals = <<>> /\ call = NoCall
    /\ finding = [f \in Findings |-> "none"] /\ epoch = 0

(* The findings a plan may cite and the planner is shown.                  *)
Accepted == {f \in Findings : finding[f] \in {"pending", "confirmed"}}

-----------------------------------------------------------------------------
(* The shape of a plan: rows r with contents n *)

ActiveIn(r, n) == {k \in r : ~n[k].archived}

Active == ActiveIn(row, node)

Parents(n) == [k \in Keys |-> n[k].parent]

Edges(n) == [k \in Keys |-> n[k].prereqs]

Children(S, up, k) == {c \in S : up[c] = k}

(* The active nodes that validate_persisted_plan reaches from the roots    *)
(* within MaxDepth levels.                                                 *)
Reached(S, up) ==
    LET level[d \in 0..MaxDepth] ==
            IF d = 0 THEN {}
            ELSE IF d = 1 THEN Children(S, up, Root)
            ELSE UNION {Children(S, up, k) : k \in level[d - 1]}
    IN UNION {level[d] : d \in 0..MaxDepth}

(* validate_persisted_plan.                                                *)
WellFormed(r, n) ==
    LET S == ActiveIn(r, n) IN
    /\ Cardinality(S) <= MaxNodes
    /\ \A k \in S : Parents(n)[k] \in S \cup {Root} /\ Edges(n)[k] \subseteq S
    /\ Reached(S, Parents(n)) = S

(* The least set of keys that contains the seeds and is closed under next. *)
Closure(seeds, next) ==
    {k \in Keys : \A S \in SUBSET Keys :
        (seeds \subseteq S /\ \A q \in S : next[q] \subseteq S) => k \in S}

(* What k depends on, directly or not, along the edges e.                  *)
DependsOn(e, k) == Closure(e[k], e)

(* trg_task_prerequisites_valid_insert for the edges from k to P.          *)
Insertable(e, k, P) == \A p \in P : p # k /\ k \notin DependsOn([e EXCEPT ![k] = {}], p)

Subtree(k) == Closure({k}, [q \in Keys |-> Children(Active, Parents(node), q)])

-----------------------------------------------------------------------------
(* Planned trees *)

Item == [key: Keys, parent: Keys \cup {Root}, prereqs: SUBSET Keys, cites: SUBSET Findings,
         text: Texts]

PlanKeys(t) == {t[i].key : i \in 1..Len(t)}

ItemOf(t, k) == t[CHOOSE i \in 1..Len(t) : t[i].key = k]

AsNodes(t) == [k \in Keys |-> IF k \in PlanKeys(t)
                              THEN [parent |-> ItemOf(t, k).parent,
                                    prereqs |-> ItemOf(t, k).prereqs, archived |-> FALSE]
                              ELSE [parent |-> Root, prereqs |-> {}, archived |-> FALSE]]

(* normalize_plan, with validate_forest and validate_prerequisite_dag.     *)
Normal(t) ==
    /\ t \in Seq(Item)
    /\ Cardinality(PlanKeys(t)) = Len(t)
    /\ WellFormed(PlanKeys(t), AsNodes(t))
    /\ \A k \in PlanKeys(t) : k \notin DependsOn(Edges(AsNodes(t)), k)

(* validate_proposed_findings.                                             *)
Citable(t) == \A i \in 1..Len(t) : t[i].cites \subseteq Accepted

(* current_as_planned_tree: the active nodes, parents before children.     *)
View(k) == [key |-> k, parent |-> IF node[k].parent \in Active THEN node[k].parent ELSE Root,
            prereqs |-> node[k].prereqs \cap Active, cites |-> node[k].cites,
            text |-> node[k].text]

CurrentTree ==
    LET order == CHOOSE o \in [1..Cardinality(Active) -> Active] :
                    /\ \A i, j \in DOMAIN o : i # j => o[i] # o[j]
                    /\ \A i, j \in DOMAIN o : View(o[i]).parent = o[j] => j < i
    IN [i \in DOMAIN order |-> View(order[i])]

(* plan_with_expansion: a new child below the target.                      *)
Expansions(k) ==
    {Append(CurrentTree, [key |-> c, parent |-> k, prereqs |-> {}, cites |-> {}, text |-> x]) :
        c \in AiKeys \ Active, x \in NewTexts}

(* plan_with_alternative: another text for the target.                     *)
Alternatives(k) ==
    {[i \in 1..Len(CurrentTree) |->
        IF CurrentTree[i].key = k THEN [CurrentTree[i] EXCEPT !.text = x] ELSE CurrentTree[i]] :
        x \in NewTexts}

(* parse_plan_with_warnings keeps the citations of findings that were      *)
(* valid when the call was prepared.                                       *)
Generated(valid) ==
    {[i \in 1..Len(t) |-> [t[i] EXCEPT !.cites = @ \cap valid]] : t \in Outputs}

-----------------------------------------------------------------------------
(* compute_diff *)

(* protected_reason.                                                       *)
Protected(k) ==
    node[k].source = "manual" \/ node[k].evidence > 0 \/ node[k].status # "todo"

Changed(t, k) == {f \in Fields : View(k)[f] # ItemOf(t, k)[f]}

(* Mutant: locked fields are proposed to change, too.                      *)
MutableLocked(t, k) == Changed(t, k)

Mutable(t, k) == Changed(t, k) \ node[k].locks

Common(t) == Active \cap PlanKeys(t)

(* Omitted nodes that stay: those a person worked on, and all that         *)
(* protected or locked relations rest on.                                  *)
Kept(t) ==
    LET seeds == {k \in Active \ PlanKeys(t) : Protected(k) \/ node[k].locks # {}}
                 \cup {node[k].parent : k \in {c \in Common(t) :
                                                Protected(c) \/ "parent" \in node[c].locks}}
                 \cup UNION {node[k].prereqs : k \in {c \in Common(t) :
                                                Protected(c) \/ "prereqs" \in node[c].locks}}
        rests == [k \in Keys |-> Active \cap ({node[k].parent} \cup node[k].prereqs)]
    IN Closure(seeds \cap Active, rests)

Diff(t) ==
    [additions |-> PlanKeys(t) \ Active,
     updates |-> {<<k, Mutable(t, k)>> : k \in {c \in Common(t) :
                    ~Protected(c) /\ Mutable(t, c) # {}}},
     preserved |-> {[key |-> k, changed |-> Changed(t, k), whole |-> Protected(k)] : k \in {c \in Common(t) :
                    Protected(c) \/ Mutable(t, c) = {}}},
     omitted |-> (Active \ PlanKeys(t)) \cap Kept(t),
     archives |-> (Active \ PlanKeys(t)) \ Kept(t)]

UpdatedFields(d, k) == UNION {u[2] : u \in {v \in d.updates : v[1] = k}}

-----------------------------------------------------------------------------
(* merge_plan: the steps that may fail, and the rows it leaves *)

WritesPrereqs(d, k) == k \in d.additions \/ "prereqs" \in UpdatedFields(d, k)

(* The prerequisites are replaced node by node in preorder; the trigger    *)
(* sees the old edges of the nodes still to come.                          *)
EdgesAfter(t, d) ==
    LET after[i \in 0..Len(t)] ==
            IF i = 0 THEN Edges(node)
            ELSE IF WritesPrereqs(d, t[i].key)
                 THEN [after[i - 1] EXCEPT ![t[i].key] = t[i].prereqs]
                 ELSE after[i - 1]
    IN after

Mergeable(t, d) ==
    /\ d.additions \cap row = {}    \* idx_task_nodes_stable_key: archived rows keep their key
    /\ \A i \in 1..Len(t) : WritesPrereqs(d, t[i].key) =>
            Insertable(EdgesAfter(t, d)[i - 1], t[i].key, t[i].prereqs)

Merged(t, d) ==
    [k \in Keys |->
        LET new == ItemOf(t, k)
            Takes(f) == f \in UpdatedFields(d, k)
        IN IF k \in d.additions
           THEN [Blank EXCEPT !.parent = new.parent, !.prereqs = new.prereqs,
                              !.cites = new.cites, !.text = new.text]
           ELSE IF k \in d.archives THEN [node[k] EXCEPT !.archived = TRUE]
           ELSE [node[k] EXCEPT !.parent = IF Takes("parent") THEN new.parent ELSE @,
                                !.prereqs = IF Takes("prereqs") THEN new.prereqs ELSE @,
                                !.cites = IF Takes("cites") THEN new.cites ELSE @,
                                !.text = IF Takes("text") THEN new.text ELSE @]]

-----------------------------------------------------------------------------
(* The user's commands *)

MayRevise == revision < MaxRevision

(* append_manual_revision.                                                 *)
ByPerson == log' = Append(log, 0) /\ UNCHANGED <<mark, proposals, call, finding, epoch>>

CreateManual(k, p, P) ==
    /\ MayRevise
    /\ k \in ManualKeys \ row
    /\ p \in Active \cup {Root} /\ P \subseteq Active
    /\ row' = row \cup {k}
    /\ node' = [node EXCEPT ![k] = [Blank EXCEPT !.source = "manual", !.locks = Fields,
                                                 !.parent = p, !.prereqs = P]]
    /\ WellFormed(row', node')
    /\ ByPerson

UpdateManual(k, e) ==
    /\ MayRevise
    /\ k \in Active /\ e.prereqs \subseteq Active
    /\ Insertable(Edges(node), k, e.prereqs)
    /\ node' = [node EXCEPT ![k].text = e.text, ![k].locks = e.locks, ![k].prereqs = e.prereqs]
    /\ WellFormed(row, node')
    /\ ByPerson
    /\ UNCHANGED row

(* can_transition.                                                         *)
CanTransition(from, to) ==
    \/ from \in {"todo", "in_progress", "blocked"} /\ to \in {"blocked", "skipped", "not_applicable"}
    \/ from \in {"todo", "blocked"} /\ to = "in_progress"
    \/ from = "in_progress" /\ to = "done"
    \/ from = "skipped" /\ to = "not_applicable"
    \/ to = "todo"

UpdateStatus(k, to) ==
    /\ MayRevise
    /\ k \in Active
    /\ to # node[k].status /\ CanTransition(node[k].status, to)
    /\ node' = [node EXCEPT ![k].status = to]
    /\ ByPerson
    /\ UNCHANGED row

ArchiveNode(k) ==
    /\ MayRevise
    /\ k \in Active
    /\ node' = [q \in Keys |-> IF q \in Subtree(k) THEN [node[q] EXCEPT !.archived = TRUE]
                               ELSE node[q]]
    /\ WellFormed(row, node')
    /\ ByPerson
    /\ UNCHANGED row

Superseded(p) == IF p.status = "pending" THEN [p EXCEPT !.status = "superseded"] ELSE p

MayIntervene == epoch + Cardinality({f \in Findings : finding[f] = "rejected"}) < MaxEvidence

(* Mutant: new evidence leaves the proposals alone.                        *)
MarkOnly(reason) ==
    /\ MayIntervene
    /\ epoch' = epoch + 1
    /\ mark' = reason
    /\ UNCHANGED <<row, log, proposals, call, finding>>

(* mark_update_available, in the transaction in which a person links it.   *)
MarkUpdate(reason) ==
    /\ MayIntervene
    /\ epoch' = epoch + 1
    /\ mark' = reason
    /\ proposals' = [i \in DOMAIN proposals |-> Superseded(proposals[i])]
    /\ UNCHANGED <<row, log, call, finding>>

(* create_finding_evidence.                                                *)
LinkFindingEvidence(f) ==
    /\ finding[f] # "none"
    /\ MarkUpdate("finding")
    /\ UNCHANGED node

(* create_task_evidence.                                                   *)
LinkTaskEvidence(k) ==
    /\ k \in row
    /\ MarkUpdate("task")
    /\ node' = [node EXCEPT ![k].evidence = @ + 1]

(* commit_verification_outcome: a finding found or made, its evidence and, *)
(* for the verdict `confirmed`, the status of one that was pending.  It    *)
(* neither marks the plan nor touches the proposals.                       *)
VerifierEvidence(f) ==
    /\ \/ finding[f] \in {"none", "pending"} /\ finding' = [finding EXCEPT ![f] = "confirmed"]
       \/ finding[f] = "none" /\ finding' = [finding EXCEPT ![f] = "pending"]
       \/ finding[f] # "none" /\ UNCHANGED finding
    /\ UNCHANGED <<plan, proposals, call, epoch>>

(* A rule, an analysis or a person adds a finding.                         *)
NewFinding(f) ==
    /\ finding[f] = "none"
    /\ finding' = [finding EXCEPT ![f] = "pending"]
    /\ UNCHANGED <<plan, proposals, call, epoch>>

(* update_finding_status; what `confirmed` asks of the evidence is in      *)
(* Findings.                                                               *)
ReviewFinding(f) ==
    /\ finding[f] # "none"
    /\ \E to \in {"pending", "confirmed", "rejected"} \ {finding[f]} :
        /\ to = "rejected" => MayIntervene
        /\ finding' = [finding EXCEPT ![f] = to]
    /\ UNCHANGED <<plan, proposals, call, epoch>>

-----------------------------------------------------------------------------
(* The planning call *)

(* What build_redacted_digest shows: the accepted findings with their      *)
(* status, and of the plan the header only when there are nodes to show.   *)
Digest == [base |-> revision, findings |-> [f \in Accepted |-> finding[f]],
           header |-> IF Active = {} THEN "none" ELSE mark,
           linked |-> [k \in Keys |-> IF k \in Active THEN node[k].evidence ELSE 0]]

(* generate_task_tree, expand_task_node and alternative_task_node up to    *)
(* the request.                                                            *)
Prepare(op, k) ==
    /\ call = NoCall
    /\ Len(proposals) < MaxProposals
    /\ IF op = "generate" THEN k = Root ELSE k \in Active
    /\ call' = [op |-> op, target |-> k, seen |-> Digest]
    /\ UNCHANGED <<plan, proposals, finding, epoch>>

(* The call fails, or its answer does not pass validation, or the traffic  *)
(* it was shown has changed: no proposal.                                  *)
CallEnds ==
    /\ call # NoCall
    /\ call' = NoCall
    /\ UNCHANGED <<plan, proposals, finding, epoch>>

Answers ==
    CASE call.op = "generate" -> Generated(DOMAIN call.seen.findings)
      [] call.op = "expand" -> Expansions(call.target)
      [] call.op = "alternative" -> Alternatives(call.target)

(* UNIQUE(project_id, proposal_key): the same answer to the same question  *)
(* is the proposal that was made then, whatever has become of it.          *)
Known(t) == \E i \in DOMAIN proposals :
                /\ proposals[i].base = call.seen.base /\ proposals[i].op = call.op
                /\ proposals[i].target = call.target /\ proposals[i].tree = t

(* create_proposal_checked: the revision, and the hash of the context.     *)
SameContext(c) == c.seen = Digest

(* The answer arrives: create_task_ai_proposal.                            *)
Answer ==
    /\ call # NoCall
    /\ SameContext(call)
    /\ \E t \in Answers :
        /\ Normal(t)
        /\ Citable(t)
        /\ LET d == Diff(t) IN
            /\ Cardinality(Active) + Cardinality(d.additions) - Cardinality(d.archives) <= MaxNodes
            /\ proposals' =
                IF Known(t) THEN proposals
                ELSE Append(proposals, [status |-> "pending", base |-> call.seen.base,
                                        op |-> call.op, target |-> call.target, tree |-> t,
                                        diff |-> d, made |-> epoch])
    /\ call' = NoCall
    /\ UNCHANGED <<plan, finding, epoch>>

(* reject_proposal.                                                        *)
Reject(i) ==
    /\ proposals[i].status = "pending"
    /\ proposals' = [proposals EXCEPT ![i].status = "rejected"]
    /\ UNCHANGED <<plan, call, finding, epoch>>

(* Mutant: what the diff was computed for is not compared again.           *)
ApplicablePending(i) == proposals[i].status = "pending" /\ Citable(proposals[i].tree)

(* The checks of apply_proposal on a pending proposal.                     *)
Applicable(i) ==
    /\ proposals[i].status = "pending"
    /\ proposals[i].base = revision
    /\ Citable(proposals[i].tree)
    /\ Diff(proposals[i].tree) = proposals[i].diff

(* Mutant: the merged plan is not validated.                               *)
ApplyUnchecked(i) ==
    /\ MayRevise
    /\ Applicable(i)
    /\ LET t == proposals[i].tree
           d == Diff(t)
       IN /\ Mergeable(t, d)
          /\ row' = row \cup d.additions
          /\ node' = Merged(t, d)
    /\ log' = Append(log, i)
    /\ mark' = "none"
    /\ proposals' = [proposals EXCEPT ![i].status = "applied"]
    /\ UNCHANGED <<call, finding, epoch>>

(* apply_proposal.  Applying an applied proposal again changes nothing.    *)
Apply(i) ==
    /\ MayRevise
    /\ Applicable(i)
    /\ LET t == proposals[i].tree
           d == Diff(t)
       IN /\ Mergeable(t, d)
          /\ row' = row \cup d.additions
          /\ node' = Merged(t, d)
          /\ WellFormed(row', node')
    /\ log' = Append(log, i)
    /\ mark' = "none"
    /\ proposals' = [j \in DOMAIN proposals |->
                        IF j = i THEN [proposals[j] EXCEPT !.status = "applied"]
                        ELSE Superseded(proposals[j])]
    /\ UNCHANGED <<call, finding, epoch>>

Manual ==
    \/ \E k \in ManualKeys, p \in Keys \cup {Root}, P \in SUBSET Keys : CreateManual(k, p, P)
    \/ \E k \in Keys, e \in Edits : UpdateManual(k, e)
    \/ \E k \in Keys, s \in Moves : UpdateStatus(k, s)
    \/ \E k \in Keys : ArchiveNode(k)

Evidence ==
    \/ \E f \in Findings : LinkFindingEvidence(f)
    \/ \E k \in Keys : LinkTaskEvidence(k)
    \/ \E f \in Findings : VerifierEvidence(f) \/ NewFinding(f) \/ ReviewFinding(f)

Planner ==
    \/ \E op \in {"generate", "expand", "alternative"}, k \in Keys \cup {Root} : Prepare(op, k)
    \/ CallEnds
    \/ Answer
    \/ \E i \in DOMAIN proposals : Reject(i) \/ Apply(i)

Next == Manual \/ Evidence \/ Planner

Spec == Init /\ [][Next]_vars

-----------------------------------------------------------------------------
(* Properties *)

NodeType ==
    [source: {"ai", "manual"}, status: Status, locks: SUBSET Fields, parent: Keys \cup {Root},
     prereqs: SUBSET Keys, cites: SUBSET Findings, text: Texts, archived: BOOLEAN, evidence: Nat]

DiffType ==
    [additions: SUBSET Keys, updates: SUBSET (Keys \X SUBSET Fields),
     preserved: SUBSET [key: Keys, changed: SUBSET Fields, whole: BOOLEAN], omitted: SUBSET Keys,
     archives: SUBSET Keys]

Operations == {"generate", "expand", "alternative"}

ProposalType ==
    [status: {"pending", "applied", "rejected", "superseded"}, base: Nat, op: Operations,
     target: Keys \cup {Root}, tree: Seq(Item), diff: DiffType, made: Nat]

DigestType ==
    [base: Nat, findings: UNION {[S -> {"pending", "confirmed"}] : S \in SUBSET Findings},
     header: {"none", "finding", "task"}, linked: [Keys -> Nat]]

CallType == [op: Operations, target: Keys \cup {Root}, seen: DigestType]

(* The rows, the log, the proposals and the call have their types.         *)
TypeOK ==
    /\ row \subseteq Keys /\ node \in [Keys -> NodeType]
    /\ log \in Seq(Nat) /\ mark \in {"none", "finding", "task"}
    /\ proposals \in Seq(ProposalType)
    /\ call \in CallType \cup {NoCall}
    /\ finding \in [Findings -> {"none", "pending", "confirmed", "rejected"}]
    /\ epoch \in Nat

(* Whatever is merged, edited or archived, the active nodes are a forest   *)
(* of at most MaxDepth levels and MaxNodes nodes whose relations stay      *)
(* among them, and no node depends on itself: next_actionable and the      *)
(* digest walk these relations without looking.                            *)
PlanShape ==
    /\ WellFormed(row, node)
    /\ \A k \in row : k \notin DependsOn(Edges(node), k)

Merges == log' # log /\ log'[Len(log')] # 0

(* Re-planning loses nothing a person did: a merge leaves nodes made by    *)
(* hand, started or with evidence as they are, and of the others neither   *)
(* the locked fields nor anything that is not the model's to write.        *)
HumanWorkKept ==
    [][Merges => \A k \in Active :
        /\ \/ node[k].source = "manual" \/ node[k].evidence > 0 \/ node[k].status # "todo"
           => node'[k] = node[k]
        /\ node[k].locks # {} => ~node'[k].archived
        /\ \A f \in node[k].locks \cup {"source", "status", "locks", "evidence"} :
            node'[k][f] = node[k][f]]_vars

(* What a merge adds, changes and archives is what the diff showed the     *)
(* user when the proposal was made, however long ago.                      *)
MergeIsReviewed ==
    [][Merges => LET d == proposals[log'[Len(log')]].diff IN
        /\ row' \ row = d.additions
        /\ \A k \in Active : node'[k].archived <=> k \in d.archives
        /\ \A k \in Active \ d.archives :
            {f \in Fields : node'[k][f] # node[k][f]} = UpdatedFields(d, k)]_vars

(* A proposal is applied at most once, and in the revision that follows    *)
(* the one it was made for: of the proposals for one revision, one.        *)
AppliedOnce ==
    \A i \in DOMAIN proposals : \A n \in DOMAIN log :
        log[n] = i <=> proposals[i].status = "applied" /\ n = proposals[i].base + 1

(* No evidence has been linked by a person, to a finding or to a node,     *)
(* since a proposal that is still pending was made: the user never         *)
(* confirms a diff that is older than the evidence linked in between.      *)
(* What verifiers add meanwhile is no part of this: it supersedes nothing. *)
PendingHasSeenEvidence ==
    \A i \in DOMAIN proposals : proposals[i].status = "pending" => proposals[i].made = epoch
=============================================================================
