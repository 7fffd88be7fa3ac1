# RustForge in TLA+

RustForge is a desktop application (Tauri, Rust and Vue) for authorized web
assessments: an intercepting proxy records traffic, passive rules and an AI
provider turn it into findings, a Repeater sends single requests, and
*missions* run bounded, read-only assessments that the user approves step by
step. This directory holds TLA+ models of the parts of it where order,
concurrency, crashes or stale reads decide whether it is correct, the TLC
configurations that check them, and theorems about them proved with TLAPS.

Source paths below are relative to the repository, Rust paths to
`src-tauri/src/`.

## 1. How the program executes

What counts as one atomic step follows from how the code is scheduled:

| actor | scheduling | in the models |
|---|---|---|
| synchronous Tauri commands | main thread, one at a time, each to its end | one action per command; several when it reads, and writes or signals later, while background tasks run, or when it works on two stores |
| async commands (`start_assessment`, `start_assessment_mission`, `analyze_traffic`, `replay_request`, `start_proxy`, task AI, exports) | Tokio, any number at once | one action per transaction, query or `await` |
| runner of an assessment (`assessment/runner.rs`) | one Tokio task per admitted run | one action per transaction; waiting is a state |
| proxy (`proxy/`) | one Tokio task per started proxy and per connection | one action between two `await`s, and one per side of a hand-over to another thread |
| rule worker (`rules/worker.rs`) | one OS thread per started proxy | one action per database access, one per counter |
| database | SQLite; writers use immediate transactions or single statements | a transaction is one action; triggers and CHECKs are conjuncts of its guard |
| process death | any time; only SQLite survives | `Crash` and `Boot`, the latter with the recovery code of `lib.rs` |

## 2. Inventory

**Missions, runs and admission** (`assessment/mission.rs`, `service.rs`,
`runner.rs`, `manager.rs`, `commands.rs`). State: the mission row (14 statuses, `draft` never written,
link to its active run, confirmed and current context, permission and contract
hashes, revision, pending follow-up), its action rows (status and approval,
two columns that may disagree), the run row (10 statuses), and in memory the one
admission slot with its cancel flag. Operations: create, confirm context, send
message, decide actions, change permissions or contract, start in three steps
(checks; create and link; admit), the runner's rounds (discover, plan, select
manual recipes, execute, verify, finish), stop, cancel, recover at boot. Hard:
admission comes after the run is committed and outside the database; run and
mission are mirrored by a function that returns early and whose move may be
refused; the planner's answer takes minutes; a crash may fall anywhere.
Correct means: mission, run, slot and runner never disagree; nothing runs that
was not approved; what ended stays ended; the network phase always ends.

**Manual handoff** (`create_handoff`, `link_handoff_replay`). A selected recipe
becomes a Repeater draft in two transactions, and a run of that draft comes
back as the result. Hard: crash between the two; the session deleted in
between; the mission stopped.

**Repeater** (`replay/service.rs`). State: sessions, one of them selected;
attempts written before a request goes out; runs written after; the process-wide
set of attempt tokens. Operations: create, select, list, delete, send, the
assessment's hidden sessions, recovery. Hard: recovery is called by list and
delete beside running requests; persisting the run may fail; a crash leaves
attempts. Correct means: nothing goes out untraced; no run tells an untruth or
is rewritten; nothing in flight is recovered or deleted.

**Evidence and findings** (`evidence/service.rs`, `assessment/outcome.rs`, the
store of `rules/worker.rs`, `analyze_traffic`). State: findings (pending,
confirmed, rejected; producer; fingerprint), evidence rows with acceptance, and
the verifier's verdicts and links. Four writers. Correct means: confirmation
rests on accepted qualifying evidence in every order of operations; machines do
not overrule people; audited rows stay.

**Rule queue and worker** (`rules/worker.rs`). A bounded queue of ids between
proxy and worker, counters, an idempotency key, and the worker state that
diagnostics shows. Operations: submit without waiting, receive, load, evaluate
and store, leave, snapshot. Hard: exchanges, worker and diagnostics are
different threads and share only counters; the row of a job may be gone; a
worker outlives its proxy while responses are streaming. Correct means: every
submission is counted once as evaluated or dropped; the shown depth is never
more than the truth; the interface hears of a flow before its tags; workers
catch up and leave; a repeated job stores nothing twice.

**Rule engine** (`rules/engine.rs`, `loader.rs`, `schema.rs`). No state: what a
tree of conditions says about one exchange, and which rules are loaded at all.
Hard: the body may be cut off, and a condition that holds because something is
missing may hold only because of that, through negations and cookie by cookie
evaluation. Correct means: a hit that keeps its confidence holds whatever the
cut-off rest was.

**AI analysis** (`commands.rs`, `ai/`). State: the AI switch, providers and
prompts in settings; runs with usage and findings in SQLite; the answer shown.
Operations: preview, approve by hash, analyse, keep. Hard: settings are read one
by one beside the commands that write them; a request may be tried again; two
analyses end in any order. Correct means: only what was approved goes out, to
whom it was approved for; no request that may have been charged for is
repeated; a claim is no stronger than the evidence left in the prompt; findings,
shown answer and usage are of one answer.

**Task tree** (`tree/service.rs`, `state.rs`, the planning commands). State: a
plan of nodes with parents, prerequisites, locks, status and archive mark;
revisions and a log; AI proposals made for a base revision. Operations: manual
edits, moves, archiving, evidence, planning calls, reject, apply with merge.
Hard: a call of minutes between reading the plan and proposing; a merge combines
two trees that were valid each. Correct means: what is merged is what was
reviewed; human work survives; the plan stays a bounded forest.

**Assessment run** (`assessment/executor.rs`, `policy.rs`, `runner.rs`,
`discovery.rs`, `templates.rs`, `verifier.rs`). State: counters of requests,
discovery requests and bytes in memory and in the run's row, stop condition,
inventory of responses, checks with status. Operations: crawl, identities,
captured traffic, planning rounds, materialize, execute, verify, finish. Hard:
each call waits for a rate slot, and waits again for the answer, while scope,
provider and identities are edited and the run is cancelled. Correct means: no
request outside the contract, the scope of that moment or the budget; every
check that is materialized can be paid for; no verdict without its full course;
the run ends.

**Scope** (`authorization/scope.rs`, `assessment/policy.rs`). No state: host
patterns, the exact origin, excluded paths and write-like queries under
percent-encoding.

**Auth profiles and secrets** (`assessment/service.rs`, `commands.rs`,
`secrets.rs`). State: rows in SQLite, secrets in the keyring of the operating
system. Operations: create, change, delete profiles, provider keys and projects,
each in several steps with compensation; the start of a run reads both. Hard:
no transaction spans the stores; each step and each compensation may fail.
Correct means: the stores agree wherever nothing failed twice; a run works with
the identity that was confirmed.

**Storage and migrations** (`storage/db.rs`, `migrations.rs`). State: the
version stamp, the snapshots beside the file. Operations: read, snapshot, apply
step by step, check, recover, serve. Hard: crashes between steps, two instances,
and v5, which merges findings that audit rows refer to. Correct means: the
stamp tells what the file is; the original survives; no audited row is lost.

**Reports** (`report.rs`, export commands). State: two files. Operations: a
dozen queries between the commits of everybody else, a check that may refuse,
writing Markdown and JSON. Hard: names may be taken, writes fail, and nobody
looks at what a removal returns.
Correct means: a report of a calm database is complete, any report is sound,
the pair of files that is handed out is whole, and nothing else stays but what
the system refused to remove.

**Proxy** (`proxy/`). State: the one shutdown handle, whose presence means
"running", and a clone of the traffic handler per request. Operations: start,
stop, the end of the background task, and the exchange from request to stored
flow. Hard: start awaits the bind between its check and its store of the handle;
a stopped proxy ends when its last connection does, beside a new one. Correct
means: the handle belongs to a live proxy; a proxy ends only when it is stopped
or fails; an exchange is recorded at most once and only as a whole.

**Others.** Text processing, I/O and views: parsing of HTML, JSON, OpenAPI and
JWT, redaction, prompt texts, TLS and HTTP, the knowledge tables, report
rendering and the Vue front end. Where it steers a modelled component it appears
there as a choice or as a member of a small set.

`PROJECT.json` lists the same components with their status, and under `hazards`
every place where the code is exposed to an order or a failure that tests hardly
reach, with the property that covers it.

## 3. Modules

    Lifecycle      statuses and the two transition tables (pure)
    ActionTable    assessment_actions of a mission: its queries and updates (pure)
        \  /
       Mission     missions, runs, start calls, runner, slot, crash, boot
          |
    MissionRefinement  -->  MissionPromise (abstract)
       |       |
    MCMission  MissionProofs
    Repeater       sessions, attempts, runs, handoff   MCRepeater, RepeaterProofs
    Findings       findings, evidence, verdicts
        \   Analysis  one exchange before a model
         \   |  Rules  conditions on one exchange
          \  |  /
         MCFindings
    Findings <- Report  queries and files of a report  MCDesk
    Report, Analysis, Rules                            FindingsProofs
    Capture        proxy, exchanges, rule queue        MCCapture, CaptureProofs
    Tree           plan, proposals, merge              MCTree, TreeProofs
    Scope          which url may be requested (pure)
       |
    Transport      one executor: budget, waits, stops (for any caller)
       |   Verifier  tools, courses and verdicts (pure)
       |  /
    Execution      the run that calls it               MCExecution, ExecutionProofs
    Credentials    keyring and SQLite                  MCCredentials, CredentialsProofs
    BaselineMerge  the merge of v5 (pure)
       |
    Migration      opening a database                  MCMigration, MigrationProofs

Definitions keep the names of the source in TLA+ spelling; `PROJECT.json` maps
each to its lines. A definition whose comment begins with *Mutant* is a
plausible bug in the definition that follows it and is used by no specification:
replacing the real one by it must break the property named in `PROJECT.json`.

### Mission

One action per command or per step between two `await`s. `TransitionRun` is
`transition_run`: it checks the run's table, writes the run, and in the same
transaction mirrors the status to the linked mission (`SyncFromRun`,
`sync_from_run_on`), which has its own table and its own early return; if either
refuses, nothing is written. The start command is `PrepareStart`,
`CreateAndLinkRun`, `ClaimSlot` or `ClaimBusy`; the stop of a working mission is
`RequestStopRecord` and `RequestStopSignal`. `tPc` is the runner's place in
`run()`. The action rows keep both columns, `status` and `approval`, because the
queries of the code read one, the other, or both.

Abstractions: mission revisions are compared for equality only, so `overtaken`
holds the runners whose read has been overtaken. The contract hash is a value
that the user may change. The planner's answer is any manual selection and any
choice of whether there are checks. HTTP, timeouts and stop conditions are the
runner's choice between going on, stopping and failing. Attaching resources and
importing OpenAPI happen in `awaiting_context_approval` only and touch no
modelled column. `draft` is never written.

### MissionPromise

What the user is promised, in six phases and a set of granted tools: a tool is
gained only by confirming or deciding, which leads no further than `ready`; one
mission works at a time; while it works tools are only taken away; the work
ends; the end is final. `MissionRefinement` reads phase and tools off the rows.

### Repeater

A request is `Load`, `Refuse` or `PersistAttempt`, `Send`, `Answer`,
`DropGuard`; `CancelUnsent` covers cancellation after the attempt. Recovery and
`persist_attempt` hold the token lock around their transactions, so each is one
action, whereas `persist_run` does not. `wire` is a history variable: the
requests that may have had an effect. `delete_session` is recovery and checks,
then `DeleteCommit`; the handoff is `CreateHandoff` and `DraftHandoff`.

### Findings

The user's commands are one action each, except `delete_finding`, which reads
the status (`DeleteFinding`) before its transaction (`DeleteCommit`): a verdict
may be committed in between. `StoreHits` is the worker's transaction with any
set of fingerprints, `SaveAnalysis` that of an analysis, `CommitClear`,
`CommitSuspicion` and `CommitVerdict` are `commit_verification_outcome`.
`Deletable` and `Cascades` are what SQLite's cascades meet on the way:
immutable-delete triggers and `ON DELETE RESTRICT`. Rule and verifier
fingerprints never coincide (the verifier's rule id has a prefix of its own),
and AI findings have none. Left out: snapshots and hashes, counters, the text of
notes, evidence of task nodes.

### Capture

`proxy[s]` is the place of the start call `s` and then of its background task:
`StartProxy` is the check of the handle, `Bind` what follows the awaited bind
(`TrafficHandler::new` gives the handler its queue and worker thread), `Serve`
the store of the handle, `Finish` the end of the task, which clears the handle
without looking whose it is. `Released` says that a sender which is sent on,
replaced or cleared answers its receiver, since `rx.await.unwrap_or_default()`
takes a dropped sender for a signal. An exchange is `Request`, `Respond`,
`Settle` (the body ends, fails or is dropped; or the upstream failed), `Announce`
and `Send`: the last two are `on_flow` with the first half of `try_submit`, and
its second half, between which worker and diagnostics may run. `Users` are the
exchanges that hold a clone of a handler and with it a sender of its queue; the
worker leaves when queue and senders are gone (`Exit`). `snapshot` is three
loads at three moments; `reader.real` is a history variable, the jobs in flight
at the first.

Abstractions: a job is its exchange, a body nothing. The counters are relaxed
atomics and modelled as sequentially consistent. Failures and timeouts have
counters of their own that nothing reads back. A panic of the worker is left
out, so `try_send` meets no closed channel. One process life: queue, counters
and handle are in memory only and nothing is resumed at boot, so jobs queued at
a crash are lost. Traffic ids are not reused (`AUTOINCREMENT`) and each is
submitted once, so the idempotency key is never contested here.

### Rules and Analysis

`Rules` is pure. A condition is a record with its parts in it; `Conditions` are
those of a rule pack by depth, so that what recurses over them is a function on
`AllConditions`. `Evaluate` says what every loaded condition finds in an
exchange, in each cookie `for_each` may look at, and whether that may rest on the
cut of a body; `Combined` is one step of it. `Compiles` is what the loader
refuses, `Hits` what the engine returns under its time budget, as a set. Text is
a sequence of tokens; numbers are compared like whole values; a regular
expression is a match of one token at the end of the text. Headers, forms and
JWT, which are read like cookies, queries and text, are left out, and so are
parsing and the shadow comparison. `Whole` says what an exchange may have been
had its bodies been captured to their ends.

`Analysis` is one exchange: `Preview` and its approval, then `ReadEnabled`,
`ReadProvider`, `ReadPrompt` and `ReadExchange` one by one as `analyze_traffic`
does them, the requests with their failures and repetitions (`Answer`,
`RequestFails`), the calibration, and `Save`, the transaction that replaces
earlier hypotheses. Bodies are sizes, the budget of the prompt is `Fixed` plus
what is left of them, and cutting follows `build_preview`. `billed` counts the
requests that may have been charged for; an unreachable provider and a 5xx
count as not charged, as the code's own retry policy has it.

`findings.cfg` runs `SourcesSpec` of `MCFindings`: a behaviour belongs to one of
Findings, Analysis or Rules, chosen in its first state. The three share no
state, so this is their sum. For Rules each initial state is one rule and one
exchange.

### Report

One reader beside all writers of `Findings`, which it extends. Each query is an
action that copies what it reads into `doc`, in the order of the code; between
two of them any action of `Findings` may commit, at most `MaxWrites` times for
one report, and none before the first query would matter. The gaps come from
two queries: the rows of `assessment_coverage_gaps` (`QueryGaps`) and the checks
that stayed unsure (`QueryIncomplete`). Of the rows, `Noted` are those that name
a check with a verdict, that it contradicts a person (runner.rs:314) or that
nobody declared who owns the resource (templates.rs:671); the runner writes each
behind the transaction of the verdict or never, so any part of them may be
there. The document is dropped once the two files are being made, and the
writers stand still then: no action reads both. Other programs make at most
`MaxForeign` files. `Removed` removes any part of what it should, as the code
ignores the error of each `remove_file`; the history variable `left` keeps what
was refused. Left out: the rows of runs, rounds, events and the test plan,
rendering and redaction.

### Tree

One action per command of the plan; a planning call is `Prepare`, in which the
digest is read, and `Answer`, in which it is compared and the answer of the
model, any of `Outputs`, becomes a proposal or nothing. `Merged` is the merge of
`apply_proposal`: kept and archived nodes, protected ones, locked fields, then
`WellFormed`, what the code checks of the result. The digest holds exactly what
its text tells apart: revision, accepted findings with their status, stale mark,
evidence of nodes. Evidence comes two ways. What a person links to a finding or
a node (`LinkFindingEvidence`, `LinkTaskEvidence`) marks the plan and supersedes
the pending proposals; what a verifier adds with its outcome
(`VerifierEvidence`) does neither. `finding` is the status of each finding,
which rules, verifiers and reviews change beside the plan. Some behaviours worth knowing: a pending proposal for the current
revision may fail to apply, because manual nodes or locks came in between; an
answer identical to an older one returns the old row, also when it was rejected
or superseded; a manual edit leaves the proposals for the older revision
pending, where they can no longer be applied; and a circle through parents and
prerequisites together is not refused, only one through either alone.

### Scope, Transport, Verifier, Execution

`Transport` is `AssessmentExecutor::execute` cut where it awaits: checked and
waiting for the rate slot (`paced`), budget reserved (`reserved`), on the wire
(`sent`), returned. `Take` is the caller's reading of the result. The module is
a specification of its own in which any caller asks for anything at any time;
`Execution` extends it with the one caller there is and is proved to implement
it. Time is a wait of any length. `Scope` decides urls: host patterns, origin,
excluded paths and write-like queries at any depth of percent-encoding.

`Execution` is the run: crawl, identities, captured traffic merged newest first,
rounds of planning, `Materialized` (accepts plans one after the other while the
budget holds), and per check the course of `Verifier`'s table, whose `Verify`
has one operator per verifier of the source. A site is a set of urls with links;
extraction of links from HTML, scripts, forms and OpenAPI documents is that
constant. `Asked` is the url a check asks for: that of its endpoint, except for
the two tools that put a value of their own in place of one query parameter
(`ReplaceQueryValue` of `Verifier`, on the parts of a url that Scope reads);
the marker of `lazy_reflection`, which differs from check to check, is one value.
Passive surfaces are left out, and coverage gaps too: no later step of a run
reads them (Report reads them as `Noted`). The mission around the run is module Mission: `Execution` knows
`cancel` and `terms` as what it and the other modules may do to it.

### Credentials

One action per step of a command that can fail on its own: keyring call,
transaction, compensation. `vault` is the keyring; `recorded` is a history
variable, the secret that is meant to be there; `damaged` the ids whose
agreement the code itself gives up: a compensation that fails, a project
deletion that stops at an unreadable secret, a command that dies halfway, a
provider whose key cannot be put back. The next successful set or delete of an
id repairs it. Start of a run reads contract, row and secret in three steps
beside the commands. A row number may be given twice when a creation is rolled
back, as SQLite does.

### Migration and BaselineMerge

An instance goes through `Launch`, `Backup`, `Migrate`, one `Apply` per step,
`Reread`, `Check`, `OpenPool`, `RecoverInterruptedRuns`; each may fail, and the
process may die, between any two. Instances share the file and nothing else: the
version they work from is the one they read. A database is its stamp, its
layers (what each version created), whether it is sound, its findings, one run
and one mission. Step 4 turns foreign keys off on its own connection only, and
step 5 may be applied again. `BaselineMerge` is the merge of v5 itself: group by
identity, keep the oldest, repoint, delete. An instance that boots also
interrupts the runs of another one.

## 4. Runs

| run | instance | what it shows |
|---|---|---|
| `contention` | 2 missions, 2 runs, 2 concurrent start calls, 1 tool, 1 round | links, mirror and slot agree; the core implements `MissionPromise!SafeSpec` |
| `actions` | 1 mission, 2 runs, 2 tools (one manual), 2 permission profiles, 2 confirmations | approvals and handoff agree with the action rows; boot recovers |
| `promise` | 1 mission, 1 run, 2 contracts, a follow-up, 2 rounds, fair | the full promise with its liveness, the slot is freed |
| `repeater` | 2 requests, 2 manual sessions, 1 hidden, 1 recipe | nothing in flight is recovered or deleted, nothing goes out untraced, the history is true, results that were linked stay |
| `findings` | 2 findings, 2 evidence rows, 2 checks, 2 rule and 1 verifier fingerprints; 2 analyses; 1,652 rules (two the loader refuses) on 16 exchanges | confirmation, authority, review and audit; approval, grounding and agreement of analyses; hits outlive the cut |
| `desk` | 1 finding, 2 evidence rows, 1 check, project and run report, 2 commits in between, 2 names, removals that may be refused | a calm report is complete, any is sound, the pair of files is whole |
| `capture` | 2 starts, 2 exchanges, a queue of 1 job | the handle is a live proxy's, every job is accounted for, workers catch up and leave |
| `tree` | 2 AI nodes, 1 manual, 4 planned trees, 1 finding | shape, human work, reviewed merges, evidence a person linked was seen |
| `execution` | 7 urls, 7 answers, 2 identities, 3 batches of plans, 2 rounds, 1 change | authorization, budget, funded checks, full courses, the run ends |
| `credentials` | 2 profiles, 1 provider, 3 secrets, 2 faults, 1 crash | the stores agree, a run keeps its identity |
| `migration` | every version by 2 instances, 1 fault, 1 crash; v4 with every small review of 2 findings by one | the stamp is true, no audited row is lost |
| `mission_unsupported` | a mission report, otherwise as `desk` | a documented promise the code does not keep, see section 5 |

Every property of a passing run has a mutant that violates it.

Why these bounds. Two missions and two calls are what competition for one
active run and one slot needs: every guard involved compares a mission with
*some* other. The second run in `actions` lets a handed-over mission work
again; two confirmations let rows of an earlier one survive, and the two
profiles differ in whether the manual tool is asked for or disabled. Two rounds
and two contracts are the least with which a round can be retried and a contract
drift while the runner waits. In the Repeater two requests make "this request
and another", three sessions make "selected, other, hidden". In Findings two of
each row distinguish "this" from "another"; the properties quantify over at most
two findings. In Capture two starts are one that replaces or outlives another; a
queue of one job is full while a second exchange submits. In Tree a chain, its
reverse and both directions of a prerequisite are the plans whose merge can
close a circle, exceed the depth or drop a reference. In Execution the budget of
8 is too small for all plans together, one answer is larger than a response may
be, and the bytes of a run may end before its requests. One of its pages has a
query parameter, and two urls more are that page as the rewriting tools ask for
it; a redirect to the address they put there confirms `open_redirect`.
`MaxEvidence` counts what a person links or rejects; what verifiers add is not
counted, as it changes nothing but the status of a finding. Two faults let a compensation fail after the step it
compensates; three secrets let one be replaced twice. In Migration one instance
overtakes another between any two steps.

The bounds by name: `MaxConfirms`, `MaxRounds`, `Runs`, `Callers`, `FollowUps`,
`Requests`, `Sessions`, `FindingIds`, `EvidenceIds`, `Starts`, `Exchanges`,
`Capacity` (256 in the code), `Calls`, `MaxEdits`, `MaxWrites`, `MaxForeign`,
`MaxAttempts`, `MaxDepth`, `MaxNodes`, `MaxRevision`, `MaxProposals`,
`MaxEvidence`, `Total`, `MaxBytes`, `MaxResponse`, `MaxChanges`, `MaxProfiles`,
`MaxSecrets`, `MaxFaults`, `MaxCrashes`, `MaxOccurrences`; each is explained
where it is declared. `OneCalmInstance` (`MCMigration`) keeps faults, crashes
and the second instance to the databases that differ in version, and the many
reviews to one undisturbed upgrade. `InOrder` (`MCFindings`) is a reduction by
symmetry: the two analyses are alike. Symmetry sets are used only in runs
without liveness. Deadlock is not checked where rows run out: the system really
stops there. `migration` checks it.

### Fairness

`FairSpec` of Mission assumes weak fairness of the runner of each run, of the
second half of the stop command, and of `Boot`. The code justifies them: each
wait of the runner has a timeout (HTTP 30 s, provider 300 s) and Tokio polls a
ready task; the stop command runs to its end on the main thread; the user
restarts a dead application. Nothing is assumed of any other user action, so all
liveness properties hold if the user does nothing at all.

In Capture only the worker threads are fair: each has an OS thread of its own,
waits for nothing but the channel, and its rules have a time budget. Exchanges
may stall for ever, so a worker may stay, but not with a job.

In Execution the run's task as a whole is weakly fair (`WF_vars(Runner)`), for
the same reasons as in Mission. There `Runner` includes what the target does,
because a request that gets no answer ends by its timeout.

## 5. Disagreements between documents and code

One is a run that TLC refutes, `mission_unsupported`: a mission report calls a
finding confirmed and shows no evidence that confirms it. Only reports of an
assessment check that; docs/architecture/security-boundaries.md:210 says it of
mission reports.

The others are behaviours of the passing models, where the documented sentence
is not a property. Each was met while modelling and can be reproduced by adding
the sentence as a property of the module named. The documents lie in `docs/` and
`docs/architecture/`.

| where | the documents say | what the code does |
|---|---|---|
| Mission | data-model.md:143: at start active missions and runs become `interrupted` | a mission reconfirmed or stopped between link and admission, then a crash: the mission table refuses the recovery of its run, `setup` returns the error, and the next start meets the same rows (service.rs:828) |
| Mission | mission.rs:679: approval is complete, the task is in the queue | reconfirming with a tool disabled queues the mission beside a cancelled row whose approval is still `pending`; `prepare_start` (mission.rs:749) refuses it for ever. That row can still be approved, and then offers the disabled tool to the planner (docs/PHASE6.md:59) |
| Mission | a busy slot leaves a mission queued | finding the slot still taken fails the queued mission |
| Mission | a follow-up goes into the next round | one that is sent while the planner answers is cleared as read (mission.rs:1504) |
| Findings | data-model.md:135: deleting a project deletes its data | once a verifier attached evidence, the deletion meets `ON DELETE RESTRICT` (v3.sql:249) and fails for ever |
| Findings | evidence/service.rs:459: pending findings can be cleaned up | one with a verification linked cannot: its links may not be deleted |
| Capture | proxy/mod.rs:109: a proxy ends when it is stopped or fails | a second concurrent start, or the late end of a stopped proxy, drops the handle of the running one, which shuts down unasked |
| Tree | PHASE3.md:27: evidence that arrives during a planning call leaves no proposal to apply | the digest shows evidence of a finding only as the stale mark; with an empty plan or a plan already marked the proposal stands |
| Tree | security-boundaries.md:203, PHASE3.md:39: evidence that arrives sets `needs_update` and supersedes the pending proposals | only evidence that a person links does; a verifier's, inserted and accepted with its outcome (outcome.rs:223), does neither, so a proposal older than it stays pending and can be applied. `PendingHasSeenEvidence` speaks of what persons link |
| Report | security-boundaries.md:215, 218: a failed export cleans its pair, no half report stays | the errors of `remove_file` are ignored (commands.rs:4287, 4292, 4302): a failed export, or a name given up for the next one, may leave its files. `PairIsWhole` names them (`left`) |
| Execution | security-boundaries.md:83: a 429 stops at once | the crawl stops, but the start page is still requested with each identity (discovery.rs:311) |
| Execution | verifier.rs:366: the credentialed CORS verdict compares authenticated responses | for identity A the baseline may be the anonymous response of the discovery (templates.rs:355) |
| Execution | service.rs:728: a run that ends closes its checks | after a safety stop, or a cancellation seen on the success path, checks stay `queued` in an ended run |
| Execution | a contract that drifts stops the run | a scope that shrinks during the wait for the rate slot ends it as failed |
| Credentials | assessment/service.rs:435: on any failure all removed secrets are restored | not when reading the next secret fails (service.rs:456) |
| Credentials | security-boundaries.md:79: an identity cannot change under a run | a `set` that passed its check before the run had a row changes it afterwards; `exposed` marks such runs |
| Migration | PHASE6.md:36: a restart interrupts what was active | v4 gives the legacy mission of a crashed run its active status and nothing ever ends it: no other mission can become active |
| Migration | storage/db.rs:34: the upgrade has an exclusive connection | a second instance on a new file may stamp version 1 over a later one; `StampIsTrue` therefore speaks of released versions only |
| Rules | PHASE2.md:57: a hit that may rest on the cut is marked | `not` over several selectors with the body not first leaves it unmarked (engine.rs:786); `Plain` excludes those rules |

Smaller observations: a request is counted although it was cancelled between
reservation and sending; audit and usage of an analysis are lost when the
traffic is cleared during the call (commands.rs:1602); switching AI off does not
stop a call in flight, nor its repetition; a report may be refused, or fail,
because it saw two moments, although the database never lacked evidence (which
is why `CalmReportIsComplete` speaks of calm ones); a body that cannot be decoded
yields hits of "missing" at full confidence.

## 6. Proofs

All theorems are about every value of the constants under the named assumptions
of their module. Distinguished "none" values lie outside the sets they belong to;
bounds are natural numbers; `Profiles` are permission tables; `Hidden` is a set of
sessions; patterns of a scope are valid; answers have a size. In particular:

- `KeysAssumption` (Findings): no fingerprint is both a rule's and a verifier's,
  since a verifier's is taken over an id of its own; `ScopesAssumption` (Report):
  a report is of a project, a run or a mission.
- `SizesAssumption`, `AnswersAssumption` (Analysis): sizes and limits are natural
  numbers, a body is shortened by at least one byte, and a model's confidence is
  from 0 to 100, which `validation_calibrated.rs:273` demands of an answer.
- `ConditionsAssumption`, `ExchangesAssumption`, `ConfidencesAssumption` (Rules):
  a condition's parts lie less deep, lists are sequences, and `cut` is a flag.
- `ApprovedAssumption`, `BatchesAssumption` (Execution): approved actions are
  actions there are, a batch of plans is finite.
- `AddressAssumption` (Execution): what a rewriting tool makes of a url's
  parameter is a url of the instance too.
- `KeysAssumption` (Migration): fingerprints are unique where they are indexed,
  and a sound database refers to rows that are there.

TLC evaluates each on the instances it checks.

**MissionProofs.** `TypeCorrect`; `LinksAgree` (`LinkAgreement`); `MirrorsAgree`
(`MirrorAgreement`); `EndsAreFinal` (`TerminalIsFinal`). `LinkAgreement` is not
inductive: `sync_from_run_on` clears the link only when it changes the mission's
status, so one must know that a linked mission's status is one its run can be
mirrored to (`LinkedStatus`), and that a mission on the network has a link
(`NetworkLinked`). `Linked` is the conjunction of the three. All runner steps,
commands and the boot change runs through `TransitionRun`, so one lemma,
`TransitionLinks`, carries most of the step; `MirrorAgreement` follows from
`Linked`, and `TerminalIsFinal` from `Linked` and the two tables.

`SlotsAgree` (`SlotAgreement`) adds what competes with a runner: there is one
active run, a run between insertion and admission belongs to one start command,
a run on the network has a runner that has not come to its end, and tasks die
with the process (`Slots`). The step that carries it is the runner's end: what
`finalize_error` drops is never the failure of a transition that is needed,
because a run on the network can always be cut short (`CutIsLegal`).
`BootsRecover` (`BootRecovers`) and `ApprovalsAgree` (`ApprovalAgreement`) go
through on top of `Linked`. `HandoffsAgree` (`HandoffAgreement`) does not: the
runner reads the actions and commits its selection in two steps, and one must
know that a selection nobody has overtaken still stands on a mission at work
under this run (`FreshSelection`). `PromiseKept` is the refinement: `Spec`
implements `MissionPromise!SafeSpec`, each step a step of the promise or a
stutter.

**RepeaterProofs.** All properties of the run, and three more: one manual
session is selected while there is one, the history is immutable, and a restart
leaves no attempt without a run. The invariant `Flight` says what a request's
rows look like in each phase (with its token, its attempt is there, its session
open, its run not written); `Story` adds what the history may say.

**FindingsProofs.** All properties of Findings in the run, and that live
fingerprints are unique, from `Sound`: the invariants, plus that rows which do
not exist hold nothing (`Blank`), that only verdicts link findings and only ones
with fingerprint (`Traced`, which is why an analysis cannot delete an audited
finding), and that a finding confirmed while it is being deleted was confirmed
by a verdict, hence is linked (`DoomedIsAudited`). `StoreEffect`,
`SuspicionEffect` and `VerdictEffect` say what one machine step does to one
finding; the parts of `Sound` are kept by one lemma each.

For Report, `PairsAreWhole`, `ReportsAreSound` and `CalmReportsAreComplete`, from
`ReportHolds`: `Sound` and two facts more about the database (`Authored`: a
verifier's finding is linked as long as it is there; `Judged`: its evidence came
with a verdict, and so did a conflict with a person's), without which a report could be refused although nobody wrote;
what a document took stays true of the rows or is what it showed (`Grounded`);
with no commit since the first query the answers are the present ones
(`Current`); and which file is whose at each stage, those included that could not
be removed (`OwnFiles`).

For Analysis, `OutgoingApproved` and `AnalysesAgree` from `AnalysisHolds`: the
shape of a call at each stage, that what was sent had been approved, that a
prompt which is still to be put has not been charged for, and that runs, cache,
hypotheses and usage tell of the same answers. `HypothesesGrounded` needs what
preparation and cutting compute: `Fit` shortens a pair of bodies until it fits
the prompt, and `DescentExists` and `DescentEnds` show that such a recursion,
whose excess shrinks at every step, has a value and that the value fits;
`CalibratedIsBanded` that a calibrated hypothesis cites what was sent and stays
in its band; `Founded` carries both through a call.

For Rules, `HitsAreWhole` (`HitsOutliveTheCut`), for conditions nested in any way
and any exchange. `UpTheTree` is induction over conditions, `StepsExist` that a
function defined by what it says of a condition's parts exists; `EvaluationHolds`
applies it to `Evaluate`. Then `HoldsAlike`: a condition that looks at no cut body
holds of the whole exchange exactly when it holds of the captured one;
`UnmarkedHolds`: a plain condition that holds without the mark holds of the
whole exchange; `NamesStay`: where a parameter is found does not depend on those
of other names.

**CaptureProofs.** The handle, the accounts, and two properties no run checks:
tags follow their flow, and the displayed depth never overstates. From `Books`:
types; `Shape` (an exchange that has begun knows its proxy, a worker starts with
the bind and holds a job exactly while it works on one); `FiredHasServed`,
without which a proxy that is about to store its handle might already have been
told to end; `Told`, which carries "announced" from the exchange through queue
and worker to the tags; and `Estimate`, which says after each load what may
still be subtracted. `Accounted` is inductive on top of `Shape`; its steps are
arithmetic over the five numbers that `Sum` names, and over the cardinality of
the exchanges between `Announce` and `Send`.

**TreeProofs.** `ProposalsApplyOnce`: exactly the applied proposals are in the
log, each right after its base. `PendingIsFresh` (`PendingHasSeenEvidence`): a
pending proposal has seen all evidence that persons linked, because a digest that
is still the present one was read with it. `HumanWorkIsKept` (`HumanWorkKept`)
and `MergesAreReviewed` (`MergeIsReviewed`).
`PlanIsForest`, that the active nodes are a forest of bounded size, follows from
the code checking the very tree it writes. `PlanIsShaped` (`PlanShape`) adds that
dependencies have no circle, and for that must know more than the property says
(`Dependencies`): no circle among archived keys either, relations only to rows
that exist, so that a new row has none coming in, and planned trees that name
each key once, so that the edges which are checked are the ones written.
`DependsOn` is a recursion over path lengths; its value exists by
`RecursionExists`.

**ExecutionProofs.** For Transport with any caller: budget and counters
(`BudgetKept`), one late request per change of the contract (`DriftBounded`),
and authorization of what is sent (`SentIsAuthorized`), from `TInv`, which says
what each stage of a call still holds in reserve. `RunUsesTransport` proves that
a run implements Transport, step by step, so the three hold of every run
(`RunIsSafe`). `AliasesAgree`: percent-encoding a url again changes no decision
of the policy. `LegalMoves`: the runner writes no status `transition_run` would
refuse.

`ConfirmationsRest` (`ConfirmedOnFullCourse`) and `FundedChecks`
(`ChecksAreFunded`) follow from `RunsHold`, the invariant of the run: a result
that is no error answers the call that was made, the first url asked is the start
url and anonymously, what the discovery lends to a check is an anonymous answer
of that very url, an endpoint is filed under the shape of its own url (`Filed`),
checks are executed in their order, and the first steps of the
course of the check at hand are answered while the next is asked. `Filed` is what the two rewriting tools need:
a plan for them is accepted only if the shape has the parameter, hence so has the
url of the endpoint, and `AskedIsProbed` says that the url then asked for is that
url with this one value replaced. For the budget
it is joined by what is owed (`Funded`), a sum over the checks that a recursive
function computes; `Acceptable` says what a batch may become, plan by plan, so
that every plan that is accepted was paid for when it was.

**CredentialsProofs.** `SecretsAgreeAlways` and `IdentityStaysSettled`, for any
number of profiles, providers, faults and crashes. The invariant is an account
per stage of a command: what remains of the agreement on the ids at work
(`Agreement`), and what the command still remembers of the rest (`Ledger`,
`ProfileStage`, `ProjectStage`, `ProviderStage`); `Settled` says the same of the
start of a run.

**MigrationProofs.** `StampStaysTrue` (`StampIsTrue`) and `ServesLatest`, for any
number of instances. `Account`: whoever is past the snapshot has one of the
original beside the file, or met the latest version; the version an instance
works from is never ahead of the file; and nobody is past the last check before
the file is. `NothingIsLost` (`NothingAuditedIsLost`), for any findings, any rows
that refer to them and any number of instances: `RowsAccount` says that the rows
are the original ones or the result of the merge, which may be applied twice
(`PromotedTwice`). That occurrences are neither lost nor counted twice is about
sums over finite sets; `SmallerFirst` is induction over such sets, from which the
`Tally` lemmas say how a sum splits.

**Recursion and induction.** No module that is proved about declares a recursive
operator; what recurses is a function, and the provers must be shown that it
exists. The library's induction principles take an operator as parameter, which
these provers cannot instantiate, so induction is derived first-order: proper
inclusion is well-founded on finite sets of naturals, hence every set of naturals
has a least element (`SmallestRank`, `LeastNatural`); hence a subset of 0..N with
0 that is closed under the next number has N (`UpTo`, `InductionUpTo`); hence a
recursion over 0..N, over ranks or over nested conditions has a value.

**Only model-checked.** Liveness: `KeepsPromise`, `SlotIsFreed`, `WorkersCatchUp`
and `RunEnds`; liveness under fairness and `ENABLED` are out of the prover's
reach. Every other property of the passing runs is a theorem.

## 7. Not modelled, and what could follow

Not modelled: parsing and matching of text (HTML, scripts, OpenAPI, JWT, JSON of
answers), HTTP and TLS, decoding and limits of captured bodies
(`proxy/body_capture.rs`), redaction and prompt texts, the planner's context,
rendering of reports and their rows of runs and rounds, the knowledge tables,
`next_actionable`, import of resources and OpenAPI, the Vue views. They are
sequential, have no state of their own or nobody to race with, and are tested by
example; what they decide enters the models as a choice. The cycle counter of a
mission (v4.sql:430), whose CHECK the seventh run of a deep mission meets, takes
seven confirmations and is out of TLC's reach together with the rest of Mission.

What could follow: the tee of `body_capture.rs` between upstream and client; the
planner's context and its redaction; headers, forms and JWT in Rules; and
theorems about the abstract promise itself.
