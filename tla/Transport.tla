----------------------------- MODULE Transport -----------------------------
(***************************************************************************)
(* The only way from an assessment run to its target: AssessmentExecutor   *)
(* (assessment/executor.rs), its RequestBudget (assessment/policy.rs) and  *)
(* execute_assessment_request (replay/service.rs).                         *)
(*                                                                         *)
(* A run has one executor and awaits every call of it, so one request is   *)
(* under way at a time.  A call is cut where the code awaits: it is        *)
(* checked and waits for the rate slot (`paced`), it has its budget        *)
(* (`reserved`, the same step of the code, but the cancel flag is read     *)
(* again), it is on the wire (`sent`), and its result lies before the      *)
(* caller (`returned`).  Meanwhile the user may cancel the run, edit the   *)
(* project's scope, and change the AI provider or an identity.             *)
(*                                                                         *)
(* The module is a specification of its own, TSpec, which lets a caller ask *)
(* for anything at any time.  ExecutionProofs proves that a run implements *)
(* it, and proves the properties below of it.                              *)
(***************************************************************************)
EXTENDS Scope, FiniteSets

CONSTANTS Address,      \* the parts of each url, as module Scope reads them
          Scopes,       \* the scopes the project gets
          Contracted,   \* the scope of the contract
          Origin,       \* its exact origin
          Excluded,     \* its excluded paths
          Total,        \* request_budget
          MaxDiscovery, \* bound on discovery requests (40 in the code)
          MaxBytes,     \* MAX_RUN_RESPONSE_BYTES
          MaxResponse,  \* MAX_RESPONSE_BYTES
          Answers,      \* what the target may answer
          MaxChanges,   \* bound: changes of scope and terms while the run works
          NoUrl

ASSUME TotalAssumption == Total \in Nat \ {0}
ASSUME BoundsAssumption == MaxDiscovery \in Nat /\ MaxBytes \in Nat /\ MaxResponse \in Nat \ {0}
ASSUME ScopesAssumption == Contracted \in Scopes /\ \A s \in Scopes : \A p \in s : ValidPattern(p)
ASSUME AnswersAssumption == \A a \in Answers : a.size \in Nat

VARIABLES
    scope,      \* projects.scope
    terms,      \* AI provider, model and identity revisions are the contracted ones
    changes,    \* bound: changes of scope and terms so far
    cancel,     \* the cancel flag of the admission slot
    budget,     \* RequestBudget
    failures,   \* consecutive_target_failures
    wire,       \* the call in progress
    result,     \* what it returned
    counted,    \* assessment_runs.request_count
    sent,       \* history: requests that reached the wire
    overdue     \* history: those sent when the contract no longer held

project == <<scope, terms, changes>>
tvars == <<scope, terms, changes, cancel, budget, failures, wire, result, counted, sent, overdue>>

Idle == [stage |-> "idle", phase |-> "discovery", who |-> "anonymous", url |-> NoUrl,
         role |-> "none"]

NoReply == [who |-> "anonymous", url |-> NoUrl, status |-> "none", body |-> "empty",
            sign |-> "none", links |-> FALSE, complete |-> FALSE]

NoResult == [error |-> "none", reply |-> NoReply, stop |-> "none"]

DiscoveryLimit == IF MaxDiscovery < Total \div 3 THEN MaxDiscovery ELSE Total \div 3

Remaining == Total - budget.used

RemainingBytes == MaxBytes - budget.bytes

(* What does not parse is not authorized.                                  *)
Authorized(patterns, u) ==
    /\ u \in DOMAIN Address
    /\ ScopeAllows(patterns, Address[u])
    /\ PolicyAllows(Origin, Excluded, Address[u])

ContractHolds == scope = Contracted /\ terms

TInit ==
    /\ scope = Contracted /\ terms = TRUE /\ changes = 0
    /\ cancel = FALSE
    /\ budget = [used |-> 0, discovery |-> 0, bytes |-> 0]
    /\ failures = 0
    /\ wire = Idle /\ result = NoResult
    /\ counted = 0 /\ sent = 0 /\ overdue = 0

-----------------------------------------------------------------------------
(* A call of execute: what refuses it before it waits for its slot *)

Refusal(u) ==
    IF cancel THEN "cancelled"
    ELSE IF ~ContractHolds THEN "drift"
    ELSE IF ~Authorized(scope, u) THEN "rejected"
    ELSE IF RemainingBytes = 0 THEN "exhausted"
    ELSE "none"

Fail(error) ==
    /\ wire' = [wire EXCEPT !.stage = "returned"]
    /\ result' = [NoResult EXCEPT !.error = error]

Ask(phase, who, u, role) ==
    /\ wire.stage = "idle"
    /\ LET call == [stage |-> "paced", phase |-> phase, who |-> who, url |-> u, role |-> role]
       IN  IF Refusal(u) = "none"
           THEN wire' = call /\ result' = NoResult
           ELSE /\ wire' = [call EXCEPT !.stage = "returned"]
                /\ result' = [NoResult EXCEPT !.error = Refusal(u)]
    /\ UNCHANGED <<project, cancel, budget, failures, counted, sent, overdue>>

(* The caller takes the result.                                            *)
Take ==
    /\ wire.stage = "returned"
    /\ wire' = Idle /\ result' = NoResult
    /\ UNCHANGED <<project, cancel, budget, failures, counted, sent, overdue>>

-----------------------------------------------------------------------------
(* The rest of the call *)

(* The slot has come: the budget is reserved.                              *)
Reserve ==
    /\ wire.stage = "paced"
    /\ \/ cancel /\ Fail("cancelled") /\ UNCHANGED budget
       \/ ~cancel /\ budget.used >= Total /\ Fail("no_budget") /\ UNCHANGED budget
       \/ /\ ~cancel /\ budget.used < Total
          /\ wire.phase = "discovery" /\ budget.discovery >= DiscoveryLimit
          /\ Fail("no_discovery") /\ UNCHANGED budget
       \/ /\ ~cancel /\ budget.used < Total
          /\ wire.phase = "discovery" => budget.discovery < DiscoveryLimit
          /\ budget' = [budget EXCEPT !.used = @ + 1,
                                      !.discovery = IF wire.phase = "discovery" THEN @ + 1 ELSE @]
          /\ wire' = [wire EXCEPT !.stage = "reserved"]
          /\ UNCHANGED result
    /\ UNCHANGED <<project, cancel, failures, counted, sent, overdue>>

(* observe_stop_condition *)
Unstable(reply) == reply.status \in {"error", "timeout"}

FailuresAfter(reply) ==
    IF reply.status = "limited" THEN failures
    ELSE IF Unstable(reply) THEN failures + 1
    ELSE 0

StopAfter(reply, bytes) ==
    IF reply.status = "limited" THEN "rate_limited"
    ELSE IF FailuresAfter(reply) >= 3 THEN "target_unstable"
    ELSE IF bytes >= MaxBytes THEN "bytes_exhausted"
    ELSE "none"

(* persist_counters_and_event *)
CountAfter(reply) == budget.used

(* The run is stored with `size` bytes read: bytes, counters, stop.        *)
Return(reply, size) ==
    /\ budget' = [budget EXCEPT !.bytes = @ + size]
    /\ counted' = CountAfter(reply)
    /\ failures' = FailuresAfter(reply)
    /\ wire' = [wire EXCEPT !.stage = "returned"]
    /\ result' = [error |-> "none", reply |-> reply,
                  stop |-> StopAfter(reply, budget.bytes + size)]

Unanswered == [NoReply EXCEPT !.who = wire.who, !.url = wire.url]

(* Mutant: the scope the executor holds is good enough.                    *)
ScopeAsChecked(u) == Authorized(Contracted, u)

(* The scope is read once more.                                            *)
ScopeNow(u) == Authorized(scope, u)

(* execute_assessment_request up to the send: the scope, the attempt, the  *)
(* flag.                                                                   *)
Open ==
    /\ wire.stage = "reserved"
    /\ \/ /\ ~ScopeNow(wire.url)
          /\ Fail("rejected")
          /\ UNCHANGED <<budget, failures, counted, sent, overdue>>
       \/ /\ ScopeNow(wire.url) /\ cancel
          /\ Return(Unanswered, 0)
          /\ UNCHANGED <<sent, overdue>>
       \/ /\ ScopeNow(wire.url) /\ ~cancel
          /\ wire' = [wire EXCEPT !.stage = "sent"]
          /\ sent' = sent + 1
          /\ overdue' = IF ContractHolds THEN overdue ELSE overdue + 1
          /\ UNCHANGED <<budget, failures, counted, result>>
    /\ UNCHANGED <<project, cancel>>

(* Mutant: the limit of a response does not know the limit of the run.     *)
ReadLimitAlone == MaxResponse

ReadLimit == IF MaxResponse < RemainingBytes THEN MaxResponse ELSE RemainingBytes

(* The target answers; an answer past the limit is cut there.              *)
Receive(a) ==
    /\ wire.stage = "sent"
    /\ LET whole == a.size <= ReadLimit
       IN  Return([who |-> wire.who, url |-> wire.url, status |-> a.status, body |-> a.body,
                   sign |-> a.sign, links |-> a.links, complete |-> a.complete /\ whole],
                  IF whole THEN a.size ELSE ReadLimit)
    /\ UNCHANGED <<project, cancel, sent, overdue>>

(* The flag is seen while the request is on the wire, before the target    *)
(* answered or in the middle of its answer.                                *)
Abort ==
    /\ wire.stage = "sent" /\ cancel
    /\ \/ Return(Unanswered, 0)
       \/ \E a \in Answers : \E size \in 0..ReadLimit :
            /\ a.status \notin {"timeout", "refused"} /\ size <= a.size
            /\ Return([Unanswered EXCEPT !.status = a.status], size)
    /\ UNCHANGED <<project, cancel, sent, overdue>>

Transporting == Reserve \/ Open \/ (\E a \in Answers : Receive(a)) \/ Abort

-----------------------------------------------------------------------------
(* The user, meanwhile *)

Cancel ==
    /\ ~cancel /\ cancel' = TRUE
    /\ UNCHANGED <<project, budget, failures, wire, result, counted, sent, overdue>>

Change ==
    /\ changes < MaxChanges
    /\ changes' = changes + 1
    /\ \/ scope' \in Scopes \ {scope} /\ UNCHANGED terms
       \/ terms' = ~terms /\ UNCHANGED scope
    /\ UNCHANGED <<cancel, budget, failures, wire, result, counted, sent, overdue>>

TNext ==
    \/ \E phase, who, u, role : Ask(phase, who, u, role)
    \/ Take
    \/ Transporting
    \/ Cancel
    \/ Change

TSpec == TInit /\ [][TNext]_tvars
-----------------------------------------------------------------------------
(* Properties *)

(* The discovery leaves two thirds of the requests, no response reads past *)
(* the bytes of the run, and the stored count never hides a request that   *)
(* was made (RequestBudget, persist_counters_and_event).                   *)
BudgetIsKept ==
    /\ budget.used <= Total
    /\ budget.discovery <= DiscoveryLimit
    /\ budget.bytes <= MaxBytes
    /\ sent <= budget.used /\ counted <= budget.used
    /\ sent <= counted + 1

(* However the contract is broken while the run works, each change lets at *)
(* most the one request through that was already checked.                  *)
DriftIsNoticed == overdue <= changes

(* No request reaches the wire but to a url the contract's scope and the   *)
(* scope of this moment both authorize, whatever was edited while it       *)
(* waited for its slot.                                                    *)
OnlyAuthorizedIsSent ==
    [][sent' # sent => Authorized(Contracted, wire.url) /\ Authorized(scope, wire.url)]_tvars
=============================================================================
