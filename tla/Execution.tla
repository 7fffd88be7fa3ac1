----------------------------- MODULE Execution -----------------------------
(***************************************************************************)
(* What an admitted run does: discovery, planning rounds, checks and their *)
(* verdicts (assessment/runner.rs, discovery.rs, templates.rs), on top of  *)
(* Transport.  The mission around the run is module Mission; what a        *)
(* verdict does to findings is module Findings.                            *)
(*                                                                         *)
(* The run's task is sequential: it works between two awaits in one step.  *)
(* `pc` says where it is: crawling, asking as identity a or b, gathering   *)
(* what it found, at the head of a round, waiting for the planner,         *)
(* executing checks, or done.                                              *)
(*                                                                         *)
(* Left out: coverage gaps, events and passive surfaces, which no later    *)
(* step reads; manual recipes, which send nothing (module Mission).        *)
(***************************************************************************)
EXTENDS Transport, Verifier, Lifecycle

CONSTANTS Start,        \* normalized_start_url
          Links,        \* the links of each page, redirect targets included
          Claims,       \* paths of the resource_ownership claims
          Traffic,      \* captured exchanges, newest first: [method, url, body]
          Resources,    \* those the mission lists, by themselves or for a finding
          Ids,          \* path segments that normalize_path_shape replaces
          Identities,   \* the identities of the contract, of "a" and "b"
          Bearers,      \* those that hold a JWT
          Approved,     \* tools the mission approved (allowed_tool_ids)
          Batches,      \* the plans the AI may return, as sequences
          MaxRounds

ASSUME RoundsAssumption == MaxRounds \in Nat \ {0}
ASSUME ApprovedAssumption == Approved \subseteq Tools
ASSUME BatchesAssumption == \A b \in Batches : Len(b) \in Nat

(* The urls the tools make of a url are urls too.                          *)
ASSUME AddressAssumption ==
    \A u \in DOMAIN Address, tool \in Rewriting : \A q \in Address[u].query :
        \E v \in DOMAIN Address :
            Address[v] = ReplaceQueryValue(Address[u], q.name, ProbeValue(tool))

VARIABLES
    status,     \* assessment_runs.status
    pc,
    queue, queued,      \* the crawl
    inventory,  \* discovered: endpoint by shape
    stop,       \* the stop condition of the discovery, later of the round
    round,
    checks,     \* assessment_checks with policy_result `allowed`
    at,         \* the check being executed
    responses   \* its responses by role

svars == <<status, pc, queue, queued, inventory, stop, round, checks, at, responses>>
vars == <<tvars, svars>>

Shape(method, u) == ShapeOf(method, Address[u], Ids)

Endpoint(u, method, auth, replayed, reply) ==
    [url |-> u, method |-> method, owned |-> Claimed(Claims, Address[u]), auth |-> auth,
     replayed |-> replayed, reply |-> reply]

Init ==
    /\ TInit
    /\ status = "discovering" /\ pc = "crawl"
    /\ queue = <<Start>> /\ queued = {}
    /\ inventory = <<>>
    /\ stop = "none" /\ round = 0
    /\ checks = <<>> /\ at = 0 /\ responses = <<>>

(* The map with one entry, and f completed by g.                           *)
Only(k, v) == [x \in {k} |-> v]

Completed(f, g) == [x \in DOMAIN f \cup DOMAIN g |-> IF x \in DOMAIN f THEN f[x] ELSE g[x]]

(* The sums of the first i of n numbers.                                   *)
Sums(f, n) ==
    LET sum[i \in 0..n] == IF i = 0 THEN 0 ELSE sum[i - 1] + f[i]
    IN  sum

Returned == wire.stage = "returned" /\ result.error = "none"

(* authorize_candidate asks the executor's copy of the scope.              *)
Candidate(u) == Authorized(Contracted, u)

-----------------------------------------------------------------------------
(* discover *)

DiscoveryOver == budget.used >= DiscoveryLimit \/ cancel

Crawl ==
    /\ pc = "crawl" /\ wire.stage = "idle"
    /\ IF queue = <<>> \/ DiscoveryOver
       THEN /\ pc' = "a"
            /\ UNCHANGED <<queue, queued, tvars>>
       ELSE LET u == Head(queue)
            IN  /\ queue' = Tail(queue)
                /\ queued' = queued \cup {u}
                /\ IF u \in queued \/ ~Candidate(u)
                   THEN UNCHANGED tvars
                   ELSE Ask("discovery", "anonymous", u, "none")
                /\ UNCHANGED pc
    /\ UNCHANGED <<status, inventory, stop, round, checks, at, responses>>

(* discovered.insert: a later url of the same shape takes the place.       *)
Discovered(u, reply) ==
    Completed(Only(Shape("GET", u), Endpoint(u, "GET", FALSE, TRUE, reply)), inventory)

Crawled ==
    /\ pc = "crawl" /\ Returned /\ Take
    /\ inventory' = Discovered(wire.url, result.reply)
    /\ IF result.stop # "none"
       THEN pc' = "a" /\ stop' = result.stop /\ UNCHANGED queue
       ELSE /\ queue' = IF result.reply.complete /\ result.reply.links
                        THEN queue \o SelectSeq(Links[wire.url], Candidate)
                        ELSE queue
            /\ UNCHANGED <<pc, stop>>
    /\ UNCHANGED <<status, queued, round, checks, at, responses>>

(* One request to the start url for each identity.                         *)
AfterIdentity == IF pc = "a" THEN "b" ELSE "gather"

AskAs ==
    /\ pc \in {"a", "b"} /\ wire.stage = "idle"
    /\ IF pc \notin Identities \/ DiscoveryOver \/ ~Candidate(Start)
       THEN pc' = AfterIdentity /\ UNCHANGED tvars
       ELSE Ask("discovery", pc, Start, "none") /\ UNCHANGED pc
    /\ UNCHANGED <<status, queue, queued, inventory, stop, round, checks, at, responses>>

SeenAs ==
    /\ pc \in {"a", "b"} /\ Returned /\ Take
    /\ LET s == Shape("GET", Start)
       IN  inventory' = IF s \in DOMAIN inventory
                        THEN [inventory EXCEPT ![s].auth = TRUE]
                        ELSE Completed(Only(s, Endpoint(Start, "GET", TRUE, TRUE, result.reply)),
                                       inventory)
    /\ IF result.stop # "none"
       THEN pc' = "gather" /\ stop' = result.stop
       ELSE pc' = AfterIdentity /\ UNCHANGED stop
    /\ UNCHANGED <<status, queue, queued, round, checks, at, responses>>

-----------------------------------------------------------------------------
(* Gathering, and what run does with the discovery *)

(* Endpoints of exchanges that may be asked again; the first of a shape.   *)
Merged(exchanges) ==
    LET shape(i) == Shape(exchanges[i].method, exchanges[i].url)
        usable == {i \in DOMAIN exchanges : exchanges[i].method \in {"GET", "HEAD"}
                                            /\ Candidate(exchanges[i].url)}
        first == {i \in usable : \A j \in usable : j < i => shape(j) # shape(i)}
    IN  [s \in {shape(i) : i \in first} |->
            LET x == exchanges[CHOOSE i \in first : shape(i) = s]
            IN  Endpoint(x.url, x.method, FALSE, FALSE, NoReply)]

RecentTraffic == Merged(SelectSeq(Traffic, LAMBDA x : ~x.body))

SelectedTraffic == Merged(Resources)

(* A run ends with Ok: nothing is closed but the run.                      *)
EndRun(s) == status' = s /\ pc' = "done"

(* Nothing found: planning begins and is over, without a round.            *)
Gather ==
    /\ pc = "gather" /\ wire.stage = "idle"
    /\ inventory' = Completed(Completed(inventory, RecentTraffic), SelectedTraffic)
    /\ queue' = <<>> /\ queued' = {}
    /\ IF cancel THEN EndRun("cancelled")
       ELSE IF stop # "none" THEN EndRun("stopped")
       ELSE /\ pc' = "round"
            /\ status' = IF inventory' = <<>> THEN "planning" ELSE status
    /\ round' = IF inventory' = <<>> THEN MaxRounds ELSE round
    /\ UNCHANGED <<stop, checks, at, responses, tvars>>

-----------------------------------------------------------------------------
(* Errors: run returns Err and finalize_error closes the open checks *)

OpenCheck == {"queued", "executing"}

EndFor(error) ==
    IF error = "cancelled" THEN "cancelled"
    ELSE IF error \in {"drift", "exhausted", "no_budget"} THEN "stopped"
    ELSE "failed"

Closed(error) ==
    [i \in DOMAIN checks |->
        IF checks[i].status \in OpenCheck
        THEN [checks[i] EXCEPT !.status = IF error = "cancelled" THEN "cancelled" ELSE "failed"]
        ELSE checks[i]]

Finalize(error) == EndRun(EndFor(error)) /\ checks' = Closed(error)

(* A request of any phase was refused or failed.                           *)
CallFailed ==
    /\ wire.stage = "returned" /\ result.error # "none"
    /\ Take /\ Finalize(result.error)
    /\ UNCHANGED <<queue, queued, inventory, stop, round, at, responses>>

-----------------------------------------------------------------------------
(* A planning round *)

(* Mutant: the rounds are not counted.                                     *)
SameRound == round

NextRound == round + 1

StatusOfRound == "planning"

(* Before each round the contract is checked again, after the status is    *)
(* written: a drift stops the run from planning, in the same step.         *)
Round ==
    /\ pc = "round"
    /\ IF round = MaxRounds THEN EndRun("completed") /\ UNCHANGED <<round, checks>>
       ELSE IF cancel THEN EndRun("cancelled") /\ UNCHANGED <<round, checks>>
       ELSE IF ~ContractHolds
       THEN Finalize("drift") /\ UNCHANGED round
       ELSE pc' = "planner" /\ status' = StatusOfRound /\ round' = NextRound /\ UNCHANGED checks
    /\ UNCHANGED <<queue, queued, inventory, stop, at, responses, tvars>>

(* The provider fails, or the flag interrupts it.                          *)
PlannerFails ==
    /\ pc = "planner"
    /\ \/ cancel /\ Finalize("cancelled")
       \/ Finalize("planner")
    /\ UNCHANGED <<queue, queued, inventory, stop, round, at, responses, tvars>>

Key(plan) == [tool |-> plan.tool, shape |-> plan.shape, mode |-> plan.mode, param |-> plan.param]

(* prior_duplicate: allowed before, in another round.                      *)
Prior(plan) == \E i \in DOMAIN checks : Key(checks[i].plan) = Key(plan)

CostOf(plan) == EffectiveCost(plan.tool, plan.mode, inventory[plan.shape])

GetOnly == {"credentialed_cors", "jwt_integrity", "readonly_idor", "lazy_reflection",
            "anonymous_authenticated_diff"}

(* validate_plan, but for the budget.                                      *)
Valid(plan) ==
    /\ plan.tool \in Approved
    /\ plan.shape \in DOMAIN inventory
    /\ ~Prior(plan)
    /\ plan.mode \in Modes(plan.tool)
    /\ IF plan.tool \in Rewriting
       THEN plan.param \in plan.shape.query
       ELSE plan.param = "none"
    /\ Needs(plan.mode) \subseteq Identities
    /\ LET e == inventory[plan.shape]
       IN  /\ plan.tool \in GetOnly => e.method = "GET"
           /\ plan.tool = "options_capabilities" => e.method \in {"GET", "HEAD"}
           /\ plan.tool = "security_headers_cookie" => e.replayed
           /\ plan.tool = "credentialed_cors" => e.auth
    /\ plan.tool = "jwt_integrity" => plan.mode \in Bearers

Reserved(rows) == Sums([i \in DOMAIN rows |-> rows[i].cost], Len(rows))[Len(rows)]

Row(plan) ==
    [plan |-> plan, round |-> round, status |-> "queued", cost |-> CostOf(plan), verdict |-> "none"]

(* materialize_checks: in the order of the batch, as far as the budget of  *)
(* the run goes.                                                           *)
Materialized(batch) ==
    LET Fits(rows, plan) ==
            /\ Valid(plan)
            /\ \A i \in DOMAIN rows : Key(rows[i].plan) # Key(plan)
            /\ Reserved(rows) + CostOf(plan) <= Remaining
        accepted[i \in 0..Len(batch)] ==
            IF i = 0 THEN <<>>
            ELSE IF Fits(accepted[i - 1], batch[i])
                 THEN Append(accepted[i - 1], Row(batch[i]))
                 ELSE accepted[i - 1]
    IN  accepted[Len(batch)]

(* `manual`: whether the answer also held manual recipes, and whether one  *)
(* could be selected for a person.                                         *)
Planned(batch, manual) ==
    /\ pc = "planner"
    /\ LET rows == Materialized(batch)
       IN  /\ checks' = checks \o rows
           /\ IF batch = <<>> /\ manual = "none" THEN EndRun("completed") /\ UNCHANGED <<at, stop>>
              ELSE IF rows # <<>>
              THEN /\ pc' = "check" /\ status' = "executing"
                   /\ at' = Len(checks) + 1 /\ stop' = "none"
              ELSE IF manual = "selected" THEN EndRun("completed") /\ UNCHANGED <<at, stop>>
              ELSE pc' = "round" /\ UNCHANGED <<status, at, stop>>
    /\ UNCHANGED <<queue, queued, inventory, round, responses, tvars>>

-----------------------------------------------------------------------------
(* execute_check *)

Current == checks[at]

Target == inventory[Current.plan.shape]

ProbedAddress ==
    ReplaceQueryValue(Address[Target.url], Current.plan.param, ProbeValue(Current.plan.tool))

(* Mutant: the endpoint is asked as it is.                                 *)
AskedAsFound == Target.url

(* The url its requests go to.                                             *)
Asked ==
    IF Current.plan.tool \in Rewriting
    THEN CHOOSE v \in DOMAIN Address : Address[v] = ProbedAddress
    ELSE Target.url

Course == Steps(Current.plan.tool, Current.plan.mode)

Due == Course[Cardinality(DOMAIN responses) + 1]

StartCheck ==
    /\ pc = "check"
    /\ checks' = [checks EXCEPT ![at].status = "executing"]
    /\ responses' = IF Reuses(Current.plan.tool, Current.plan.mode) /\ Target.replayed
                    THEN Only(Course[1].role, Target.reply)
                    ELSE <<>>
    /\ pc' = "probe"
    /\ UNCHANGED <<status, queue, queued, inventory, stop, round, at, tvars>>

CheckOver == stop # "none" \/ Cardinality(DOMAIN responses) = Len(Course)

Probe ==
    /\ pc = "probe" /\ wire.stage = "idle" /\ ~CheckOver
    /\ Ask("verification", Due.who, Asked, Due.role)
    /\ UNCHANGED svars

Probed ==
    /\ pc = "probe" /\ Returned /\ Take
    /\ responses' = Completed(Only(wire.role, result.reply), responses)
    /\ stop' = result.stop
    /\ UNCHANGED <<status, pc, queue, queued, inventory, round, checks, at>>

Judge ==
    /\ pc = "probe" /\ wire.stage = "idle" /\ CheckOver
    /\ checks' = [checks EXCEPT
            ![at].status = "completed",
            ![at].verdict = Verify(Current.plan.tool, Current.plan.mode, Target, responses)]
    /\ responses' = <<>>
    /\ IF stop # "none" \/ cancel \/ at = Len(checks)
       THEN pc' = "verify" /\ status' = "verifying" /\ UNCHANGED at
       ELSE pc' = "check" /\ at' = at + 1 /\ UNCHANGED status
    /\ UNCHANGED <<queue, queued, inventory, stop, round, tvars>>

Conclude ==
    /\ pc = "verify"
    /\ IF cancel THEN EndRun("cancelled")
       ELSE IF stop # "none" THEN EndRun("stopped")
       ELSE IF Remaining = 0 THEN EndRun("completed")
       ELSE pc' = "round" /\ UNCHANGED status
    /\ UNCHANGED <<queue, queued, inventory, stop, round, checks, at, responses, tvars>>

-----------------------------------------------------------------------------

Runner ==
    \/ Crawl \/ Crawled \/ AskAs \/ SeenAs \/ Gather
    \/ Round \/ PlannerFails
    \/ \E batch \in Batches, manual \in {"none", "unselected", "selected"} : Planned(batch, manual)
    \/ StartCheck \/ Probe \/ Probed \/ Judge \/ Conclude
    \/ CallFailed
    \/ Transporting /\ UNCHANGED svars

User == pc # "done" /\ (Cancel \/ Change) /\ UNCHANGED svars

Next == Runner \/ User

(* The task is polled until it ends; a request has a timeout, and so does  *)
(* the call of the planner.                                                *)
Spec == Init /\ [][Next]_vars /\ WF_vars(Runner)

-----------------------------------------------------------------------------
(* Properties *)

(* What is left to ask of the checks that were accepted.                   *)
Outstanding(i) ==
    IF i < at \/ checks[i].status \notin OpenCheck THEN 0
    ELSE IF checks[i].status = "executing" /\ i = at
    THEN Len(Course) - Cardinality(DOMAIN responses)
         - (IF wire.stage \in {"reserved", "sent", "returned"} THEN 1 ELSE 0)
    ELSE checks[i].cost

(* An accepted check can be paid to its end: what the budget still holds   *)
(* covers every request the accepted checks still need, whatever answers   *)
(* the discovery can lend them (effective_request_cost, materialize_checks,*)
(* reserve_request).                                                       *)
ChecksAreFunded ==
    status = "executing" =>
        Sums([i \in DOMAIN checks |-> Outstanding(i)], Len(checks))[Len(checks)] <= Remaining

(* What a tool may hold against an endpoint: an answer of its very url, or *)
(* for the tools that rewrite it, of that url with no more than the value  *)
(* of the checked parameter replaced by the one the tool looks for.        *)
OfTarget(r) ==
    IF Current.plan.tool \in Rewriting
    THEN /\ r.url \in DOMAIN Address /\ Address[r.url] = ProbedAddress
         /\ Current.plan.param \in {q.name : q \in Address[Target.url].query}
    ELSE r.url = Target.url

(* A verdict `confirmed` rests on the full course of the check: complete   *)
(* responses of the url the tool speaks of, each asked for as the course   *)
(* says; only the reused response of the discovery is anonymous.           *)
ConfirmedOnFullCourse ==
    [][\A i \in DOMAIN checks :
        checks'[i].verdict = "confirmed" /\ checks[i].verdict # "confirmed" =>
            /\ i = at
            /\ \A k \in DOMAIN Course :
                /\ Course[k].role \in DOMAIN responses
                /\ LET r == responses[Course[k].role]
                   IN  /\ r.complete /\ OfTarget(r)
                       /\ \/ r.who = Course[k].who
                          \/ k = 1 /\ Target.replayed /\ r.who = "anonymous"]_vars

(* Every status the runner writes is one transition_run accepts after the  *)
(* one before it.                                                          *)
MovesAreLegal == [][status' # status => <<status, status'>> \in RunMoves]_vars

(* Every run ends.                                                         *)
RunEnds == <>(status \in Terminal)
=============================================================================
