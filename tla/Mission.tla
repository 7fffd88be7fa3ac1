------------------------------ MODULE Mission ------------------------------
(***************************************************************************)
(* The assessment core of RustForge: missions, the runs that execute them, *)
(* the process-wide admission slot, and restart recovery.                  *)
(*                                                                         *)
(* Who runs concurrently, and hence what an action is:                     *)
(*   - synchronous Tauri commands run on the main thread, one at a time;   *)
(*     each is one action, except stopping a working mission, which reads, *)
(*     commits and signals in turn while the runner goes on;               *)
(*   - start_assessment_mission and start_assessment are async commands:   *)
(*     any number of calls runs beside the main thread, in three steps     *)
(*     (checks, transaction, admission);                                   *)
(*   - every admitted run has a background task, the runner, which moves   *)
(*     the run by transactions and waits on HTTP and on the AI provider;   *)
(*   - the process may die between any two steps; only the database        *)
(*     survives, and the next boot runs recover_interrupted_runs.          *)
(*                                                                         *)
(* The revision number of a mission is compared for equality only, by a    *)
(* command that read the row earlier.  It is modelled by `overtaken`, the  *)
(* runner tasks whose read has been overtaken by a bump.                   *)
(***************************************************************************)
EXTENDS Lifecycle, ActionTable

CONSTANTS Missions,     \* missions of one project
          Runs,         \* bound: run ids that may be handed out
          Callers,      \* bound: start commands in flight at once
          Profiles,     \* the permission profiles the user switches between
          Contracts,    \* values of the contract hash (scope, identity, provider)
          FollowUps,    \* bound: missions on which the user asks follow-ups
          MaxRounds,    \* planning rounds of a run (max_rounds)
          NoMission, NoRun, NoContract

ASSUME NoMissionAssumption == NoMission \notin Missions
ASSUME NoRunAssumption == NoRun \notin Runs
ASSUME NoContractAssumption == NoContract \notin Contracts
ASSUME ProfilesAssumption == Profiles \subseteq Permissions
ASSUME MaxRoundsAssumption == MaxRounds \in Nat \ {0}
ASSUME FollowUpsAssumption == FollowUps \subseteq Missions

VARIABLES
    app,        \* the process: up, down, or refused (setup returned an error)
    perm,       \* project: tool permission profile, as permission_hash sees it
    contract,   \* project: what preview_contract hashes now
    mStatus, mRun,            \* assessment_missions: status, active_run_id
    mApproved,                \* context_hash is set and equals context_approved_hash
    mPerm, mContract,         \* permission_hash and contract_hash, as confirmed
    mSteering,                \* pending_steering
    mGen, acts,               \* confirmations so far; assessment_actions
    rStatus, rMission, rContract,   \* assessment_runs, assessment_mission_runs
    slot,       \* AssessmentManager.active: the run holding it and its cancel flag
    cPc, cMission, cContract, cRun, \* start commands in flight
    sPc, sRun,                      \* the stop command of the main thread
    tPc, tRound, tPlan, tEnd,       \* runner tasks
    overtaken   \* runners whose mission revision moved since they read it

live == <<perm, contract>>
mission == <<mStatus, mRun, mApproved, mPerm, mContract, mSteering, mGen, acts>>
run == <<rStatus, rMission, rContract>>
call == <<cPc, cMission, cContract, cRun>>
stop == <<sPc, sRun>>
task == <<tPc, tRound, tPlan, tEnd>>
vars == <<app, live, mission, run, slot, call, stop, task, overtaken>>

FreeSlot == [run |-> NoRun, cancel |-> FALSE]

NoPlan == [manual |-> {}, checks |-> FALSE]

TaskPc == {"none", "spawned", "discover", "round", "recheck", "await", "planned",
           "selecting", "materialised", "execute", "verify", "halt", "finish",
           "error", "release"}

Init ==
    /\ app = "up"
    /\ perm \in Profiles
    /\ contract \in Contracts
    /\ mStatus = [m \in Missions |-> "none"]
    /\ mRun = [m \in Missions |-> NoRun]
    /\ mApproved = [m \in Missions |-> FALSE]
    /\ mPerm = [m \in Missions |-> perm]
    /\ mContract = [m \in Missions |-> contract]
    /\ mSteering = [m \in Missions |-> FALSE]
    /\ mGen = [m \in Missions |-> 0]
    /\ acts = [m \in Missions |-> EmptyTable]
    /\ rStatus = [r \in Runs |-> "none"]
    /\ rMission = [r \in Runs |-> NoMission]
    /\ rContract = [r \in Runs |-> NoContract]
    /\ slot = FreeSlot
    /\ cPc = [c \in Callers |-> "idle"]
    /\ cMission = [c \in Callers |-> NoMission]
    /\ cContract = [c \in Callers |-> NoContract]
    /\ cRun = [c \in Callers |-> NoRun]
    /\ sPc = "idle"
    /\ sRun = NoRun
    /\ tPc = [r \in Runs |-> "none"]
    /\ tRound = [r \in Runs |-> 0]
    /\ tPlan = [r \in Runs |-> NoPlan]
    /\ tEnd = [r \in Runs |-> "failed"]
    /\ overtaken = {}

-----------------------------------------------------------------------------
(* Transactions shared by several actors *)

(* The mission's revision moves: a runner that read it, and will check it  *)
(* when it commits, has been overtaken.                                    *)
Bump(m) == overtaken' = overtaken \cup {r \in Runs : tPc[r] = "selecting"
                                                     /\ rMission[r] = m}

(* assert_mission_integrity; the tool registry is fixed at build time.     *)
Integrity(m) == mPerm[m] = perm /\ mApproved[m]

(* The unique partial indexes of the database.                             *)
NoActiveRun == \A r \in Runs : rStatus[r] \notin ActiveRunStatus

MayBeNetworkActive(m) == \A n \in Missions \ {m} : mStatus[n] \notin NetworkActive

(* Mutant: a finished run completes its mission, recipes left to do or not. *)
MirrorVerbatim(m, status) == status

(* The mission status a run status is mirrored to.                         *)
Mirror(m, status) ==
    IF status = "completed" /\ ManualOutstanding(acts[m])
    THEN "awaiting_manual_handoff"
    ELSE status

(* Mutant: the mirror writes the status without validating the move.       *)
CanSyncUnvalidated(m, status) ==
    Mirror(m, status) \in NetworkActive => MayBeNetworkActive(m)

(* sync_from_run_on succeeds: nothing to do, or a legal mission move.      *)
CanSync(m, status) ==
    LET next == Mirror(m, status)
    IN \/ mStatus[m] = next
       \/ /\ <<mStatus[m], next>> \in MissionMoves
          /\ next \in NetworkActive => MayBeNetworkActive(m)

(* Mutant: waiting for the handoff does not give the run up.               *)
SyncFromRunKeepsLink(m, status) ==
    LET next == Mirror(m, status)
        gone == next \in Terminal /\ mStatus[m] # next
    IN /\ mStatus' = [mStatus EXCEPT ![m] = next]
       /\ mRun' = IF gone THEN [mRun EXCEPT ![m] = NoRun] ELSE mRun
       /\ acts' = IF gone
                  THEN [acts EXCEPT ![m] = SyncActions(@)]
                  ELSE acts
       /\ UNCHANGED <<mApproved, mPerm, mContract, mSteering, mGen>>

(* Its effect.  A mission that ends or waits for the handoff gives its run *)
(* up, and its actions follow the checks of the run.                       *)
SyncFromRun(m, status) ==
    LET next == Mirror(m, status)
        ends == next \in Terminal \cup {"awaiting_manual_handoff"}
        gone == ends /\ mStatus[m] # next
    IN /\ mStatus' = [mStatus EXCEPT ![m] = next]
       /\ mRun' = IF gone THEN [mRun EXCEPT ![m] = NoRun] ELSE mRun
       /\ acts' = IF gone
                  THEN [acts EXCEPT ![m] = SyncActions(@)]
                  ELSE acts
       /\ UNCHANGED <<mApproved, mPerm, mContract, mSteering, mGen>>

(* transition_run: the run, its event and its mission in one transaction,  *)
(* which fails as a whole when either move is illegal.                     *)
CanTransition(r, status) ==
    /\ <<rStatus[r], status>> \in RunMoves
    /\ rMission[r] # NoMission => CanSync(rMission[r], status)

TransitionRun(r, status) ==
    /\ rStatus' = [rStatus EXCEPT ![r] = status]
    /\ UNCHANGED <<rMission, rContract>>
    /\ IF rMission[r] = NoMission
       THEN UNCHANGED mission
       ELSE SyncFromRun(rMission[r], status)

-----------------------------------------------------------------------------
(* Synchronous commands, on the main thread *)

MainThreadFree == app = "up" /\ sPc = "idle"

CreateMission(m) ==
    /\ MainThreadFree
    /\ mStatus[m] = "none"
    /\ mStatus' = [mStatus EXCEPT ![m] = "awaiting_context_approval"]
    /\ mPerm' = [mPerm EXCEPT ![m] = perm]
    /\ mContract' = [mContract EXCEPT ![m] = contract]
    /\ UNCHANGED <<app, live, mRun, mApproved, mSteering, mGen, acts, run, slot,
                   call, stop, task, overtaken>>

(* Only legacy, terminal and network statuses are refused.                 *)
Reconfirmable == Waiting \cup {"queued"}

(* Mutant: manual recipes, which never run by themselves, are not counted. *)
ApprovalsOpenToRun(table) == \E a \in AwaitingApproval(table) : a[1] \notin ManualTools

(* The count that keeps a mission from the queue.                          *)
ApprovalsOpen(table) == AwaitingApproval(table) # {}

(* Allowed also when a run is already linked to the mission.               *)
ConfirmContext(m) ==
    /\ MainThreadFree
    /\ mStatus[m] \in Reconfirmable
    /\ mGen[m] < MaxConfirms
    /\ LET table == PrepareActions(acts[m], mGen[m] + 1, perm)
       IN /\ acts' = [acts EXCEPT ![m] = table]
          /\ mStatus' = [mStatus EXCEPT ![m] =
                            IF ApprovalsOpen(table)
                            THEN "awaiting_action_approval"
                            ELSE "queued"]
    /\ mGen' = [mGen EXCEPT ![m] = @ + 1]
    /\ mApproved' = [mApproved EXCEPT ![m] = TRUE]
    /\ mPerm' = [mPerm EXCEPT ![m] = perm]
    /\ mContract' = [mContract EXCEPT ![m] = contract]
    /\ Bump(m)
    /\ UNCHANGED <<app, live, mRun, mSteering, run, slot, call, stop, task>>

SendMessage(m) ==
    /\ MainThreadFree
    /\ m \in FollowUps
    /\ mStatus[m] \notin Terminal \cup {"none"}
    /\ mSteering' = [mSteering EXCEPT ![m] = TRUE]
    /\ Bump(m)
    /\ UNCHANGED <<app, live, mStatus, mRun, mApproved, mPerm, mContract, mGen, acts,
                   run, slot, call, stop, task>>

(* The clicked action needs a pending approval and nothing else; with      *)
(* apply_to_same_tool the rows decided are the awaiting ones of its tool.  *)
DecideAction(m) ==
    /\ MainThreadFree
    /\ mStatus[m] = "awaiting_action_approval"
    /\ Integrity(m)
    /\ \E a \in ApprovalPending(acts[m]), sameTool, approve \in BOOLEAN :
         LET table == DecideActions(acts[m],
                                    DecisionTargets(acts[m], a, sameTool), approve)
         IN /\ acts' = [acts EXCEPT ![m] = table]
            /\ mStatus' = [mStatus EXCEPT ![m] =
                              IF ApprovalsOpen(table) THEN @ ELSE "queued"]
    /\ Bump(m)
    /\ UNCHANGED <<app, live, mRun, mApproved, mPerm, mContract, mSteering, mGen,
                   run, slot, call, stop, task>>

SetToolPermission ==
    /\ MainThreadFree
    /\ perm' \in Profiles \ {perm}
    /\ UNCHANGED <<app, contract, mission, run, slot, call, stop, task, overtaken>>

(* Scope, provider or identity commands: whatever moves the contract hash. *)
ChangeContract ==
    /\ MainThreadFree
    /\ contract' \in Contracts \ {contract}
    /\ UNCHANGED <<app, perm, mission, run, slot, call, stop, task, overtaken>>

(* Mutant: a working mission is ended at once, its run still at work.      *)
StoppableAtWork == Waiting \cup {"queued"} \cup NetworkActive

(* The statuses request_stop ends at once.                                 *)
Stoppable == Waiting \cup {"queued"}

(* request_stop of a mission that is not on the network.  active_run_id    *)
(* stays as it is.                                                         *)
RequestStop(m) ==
    /\ MainThreadFree
    /\ mStatus[m] \in Stoppable
    /\ mStatus' = [mStatus EXCEPT ![m] = "stopped"]
    /\ acts' = [acts EXCEPT ![m] =
                   CloseActions(@, {"awaiting_approval", "queued", "manual_ready"})]
    /\ Bump(m)
    /\ UNCHANGED <<app, live, mRun, mApproved, mPerm, mContract, mSteering, mGen,
                   run, slot, call, stop, task>>

(* request_stop of a working mission: the request is recorded in one       *)
(* transaction, the runner is signalled afterwards.  An UPDATE that misses *)
(* because the revision moved in between only loses the recorded reason.   *)
RequestStopRecord(m) ==
    /\ MainThreadFree
    /\ mStatus[m] \in NetworkActive
    /\ mRun[m] # NoRun
    /\ sPc' = "signal"
    /\ sRun' = mRun[m]
    /\ Bump(m)
    /\ UNCHANGED <<app, live, mission, run, slot, call, task>>

(* AssessmentManager::cancel: only the run that holds the slot.            *)
SignalCancel(r) ==
    slot' = IF slot.run = r THEN [slot EXCEPT !.cancel = TRUE] ELSE slot

RequestStopSignal ==
    /\ app = "up" /\ sPc = "signal"
    /\ SignalCancel(sRun)
    /\ sPc' = "idle" /\ sRun' = NoRun
    /\ UNCHANGED <<app, live, mission, run, call, task, overtaken>>

CancelAssessment(r) ==
    /\ MainThreadFree
    /\ rStatus[r] \in ActiveRunStatus
    /\ slot.run = r /\ ~slot.cancel
    /\ SignalCancel(r)
    /\ UNCHANGED <<app, live, mission, run, call, stop, task, overtaken>>

-----------------------------------------------------------------------------
(* start_assessment_mission and start_assessment (m = NoMission) *)

PrepareStart(c, m) ==
    /\ app = "up"
    /\ cPc[c] = "idle"
    /\ m # NoMission =>
         /\ NoActiveRun
         /\ mStatus[m] = "queued"
         /\ Integrity(m)
         /\ ApprovalPending(acts[m]) = {}
         /\ mContract[m] = contract
    /\ cPc' = [cPc EXCEPT ![c] = "prepared"]
    /\ cMission' = [cMission EXCEPT ![c] = m]
    /\ cContract' = [cContract EXCEPT ![c] = contract]
    /\ UNCHANGED <<app, live, mission, run, slot, cRun, stop, task, overtaken>>

CallEnds(c) ==
    /\ cPc' = [cPc EXCEPT ![c] = "idle"]
    /\ cMission' = [cMission EXCEPT ![c] = NoMission]
    /\ cContract' = [cContract EXCEPT ![c] = NoContract]
    /\ cRun' = [cRun EXCEPT ![c] = NoRun]

MayLink(c) ==
    /\ NoActiveRun
    /\ cMission[c] # NoMission =>
         mStatus[cMission[c]] = "queued" /\ mRun[cMission[c]] = NoRun

(* create_and_link_run, or create_run: the checks of prepare_start are not *)
(* repeated inside the transaction.                                        *)
CreateAndLinkRun(c) ==
    /\ app = "up"
    /\ cPc[c] = "prepared"
    /\ MayLink(c)
    /\ \E r \in Runs :
         /\ rStatus[r] = "none"
         /\ rStatus' = [rStatus EXCEPT ![r] = "queued"]
         /\ rMission' = [rMission EXCEPT ![r] = cMission[c]]
         /\ rContract' = [rContract EXCEPT ![r] = cContract[c]]
         /\ cRun' = [cRun EXCEPT ![c] = r]
         /\ mRun' = IF cMission[c] = NoMission THEN mRun
                    ELSE [mRun EXCEPT ![cMission[c]] = r]
    /\ cPc' = [cPc EXCEPT ![c] = "linked"]
    /\ UNCHANGED <<app, live, mStatus, mApproved, mPerm, mContract, mSteering, mGen,
                   acts, slot, cMission, cContract, stop, task, overtaken>>

StartRefused(c) ==
    /\ app = "up"
    /\ cPc[c] = "prepared"
    /\ ~MayLink(c)
    /\ CallEnds(c)
    /\ UNCHANGED <<app, live, mission, run, slot, stop, task, overtaken>>

(* Mutant: the slot of a run that is being cancelled counts as free.       *)
SlotFreeOnceCancelled == slot.run = NoRun \/ slot.cancel

SlotFree == slot.run = NoRun

(* AssessmentManager::claim, and the spawn of the background task.         *)
ClaimSlot(c) ==
    /\ app = "up"
    /\ cPc[c] = "linked"
    /\ SlotFree
    /\ slot' = [run |-> cRun[c], cancel |-> FALSE]
    /\ tPc' = [tPc EXCEPT ![cRun[c]] = "spawned"]
    /\ CallEnds(c)
    /\ UNCHANGED <<app, live, mission, run, stop, tRound, tPlan, tEnd, overtaken>>

(* The slot is taken: the run just created is failed, errors are dropped.  *)
ClaimBusy(c) ==
    /\ app = "up"
    /\ cPc[c] = "linked"
    /\ ~SlotFree
    /\ IF CanTransition(cRun[c], "failed")
       THEN TransitionRun(cRun[c], "failed")
       ELSE UNCHANGED <<run, mission>>
    /\ CallEnds(c)
    /\ UNCHANGED <<app, live, slot, stop, task, overtaken>>

-----------------------------------------------------------------------------
(* The background task of a run *)

(* transition(...)? : on success the task goes on at pc, otherwise the     *)
(* error leaves the task's body and finalize_error takes over.             *)
Advance(r, status, pc) ==
    IF CanTransition(r, status)
    THEN /\ TransitionRun(r, status)
         /\ tPc' = [tPc EXCEPT ![r] = pc]
         /\ UNCHANGED tEnd
    ELSE /\ tPc' = [tPc EXCEPT ![r] = "error"]
         /\ tEnd' = [tEnd EXCEPT ![r] = "failed"]
         /\ UNCHANGED <<run, mission>>

GoTo(r, pc) ==
    /\ tPc' = [tPc EXCEPT ![r] = pc]
    /\ UNCHANGED <<run, mission, tEnd>>

Fail(r, end) ==
    /\ tPc' = [tPc EXCEPT ![r] = "error"]
    /\ tEnd' = [tEnd EXCEPT ![r] = end]
    /\ UNCHANGED <<run, mission>>

Cancelled(r) == slot.run = r /\ slot.cancel

Drifted(r) == contract # rContract[r]

TaskAt(r, pc) == app = "up" /\ tPc[r] = pc

Elsewhere == <<app, live, slot, call, stop>>

RunnerStart(r) ==
    /\ TaskAt(r, "spawned")
    /\ Advance(r, "discovering", "discover")
    /\ UNCHANGED <<Elsewhere, tRound, tPlan, overtaken>>

(* A budget runs out during a phase that makes requests (stopped), or a    *)
(* query, the AI provider or the replay engine fails anywhere (failed).    *)
RunnerFault(r) ==
    /\ \/ /\ \E pc \in {"discover", "execute"} : TaskAt(r, pc)
          /\ Fail(r, "stopped")
       \/ /\ \E pc \in TaskPc \ {"none", "error", "release"} : TaskAt(r, pc)
          /\ Fail(r, "failed")
    /\ UNCHANGED <<Elsewhere, tRound, tPlan, overtaken>>

(* Discovery ends.  A request sees a drifted contract or the cancel flag;  *)
(* between requests only the flag is looked at.  Then: a stop condition of *)
(* the target, nothing found, or endpoints to plan for.                    *)
RunnerDiscover(r) ==
    /\ TaskAt(r, "discover")
    /\ \/ Drifted(r) /\ Fail(r, "stopped")
       \/ Cancelled(r) /\ (Advance(r, "cancelled", "release") \/ Fail(r, "cancelled"))
       \/ /\ ~Cancelled(r)
          /\ \/ Advance(r, "stopped", "release")
             \/ Advance(r, "planning", "finish")
             \/ GoTo(r, "round")
    /\ UNCHANGED <<Elsewhere, tRound, tPlan, overtaken>>

(* The head of the round loop.                                             *)
RunnerRound(r) ==
    /\ TaskAt(r, "round")
    /\ IF tRound[r] = MaxRounds
       THEN GoTo(r, "finish") /\ UNCHANGED tRound
       ELSE /\ tRound' = [tRound EXCEPT ![r] = @ + 1]
            /\ IF Cancelled(r) THEN Advance(r, "cancelled", "release")
               ELSE IF rStatus[r] = "planning" THEN GoTo(r, "recheck")
               ELSE Advance(r, "planning", "recheck")
    /\ UNCHANGED <<Elsewhere, tPlan, overtaken>>

(* The contract is checked again, then the allowed tools and the           *)
(* follow-ups are read for the prompt.                                     *)
RunnerRecheck(r) ==
    /\ TaskAt(r, "recheck")
    /\ IF Drifted(r) THEN Fail(r, "stopped") ELSE GoTo(r, "await")
    /\ UNCHANGED <<Elsewhere, tRound, tPlan, overtaken>>

(* The planner answers.  pending_steering is cleared whatever arrived      *)
(* since the prompt was built.                                             *)
ClearSteering(r) ==
    mSteering' = IF rMission[r] = NoMission THEN mSteering
                 ELSE [mSteering EXCEPT ![rMission[r]] = FALSE]

ManualOffered(r) ==
    IF rMission[r] = NoMission THEN {}
    ELSE AllowedTools(acts[rMission[r]]) \cap ManualTools

RunnerPlanned(r) ==
    /\ TaskAt(r, "await")
    /\ IF Cancelled(r)
       THEN Fail(r, "cancelled") /\ UNCHANGED tPlan
       ELSE /\ \/ /\ tPc' = [tPc EXCEPT ![r] = "finish"]
                  /\ UNCHANGED tPlan
               \/ \E manual \in SUBSET ManualOffered(r), checks \in BOOLEAN :
                    /\ tPlan' = [tPlan EXCEPT ![r] = [manual |-> manual, checks |-> checks]]
                    /\ tPc' = [tPc EXCEPT ![r] =
                                  IF manual = {} THEN "materialised" ELSE "planned"]
            /\ ClearSteering(r)
            /\ UNCHANGED <<run, tEnd, mStatus, mRun, mApproved, mPerm, mContract, mGen,
                           acts>>
    /\ UNCHANGED <<Elsewhere, tRound, overtaken>>

(* select_manual_plans_for_run reads the mission and its integrity ...     *)
RunnerSelectRead(r) ==
    /\ TaskAt(r, "planned")
    /\ LET m == rMission[r]
       IN IF mRun[m] = r /\ mStatus[m] = "planning" /\ Integrity(m)
          THEN GoTo(r, "selecting")
          ELSE Fail(r, "failed")
    /\ overtaken' = overtaken \ {r}
    /\ UNCHANGED <<Elsewhere, tRound, tPlan>>

(* ... and commits against the revision it read.  The backend refuses any  *)
(* selection it cannot validate; if none is left nothing is written.       *)
RunnerSelectCommit(r) ==
    /\ TaskAt(r, "selecting")
    /\ LET m == rMission[r]
       IN \E chosen \in SUBSET {t \in tPlan[r].manual : Selectable(acts[m], t) # {}} :
            IF chosen # {} /\ r \in overtaken
            THEN Fail(r, "failed")
            ELSE /\ acts' = [acts EXCEPT ![m] = SelectManual(@, chosen)]
                 /\ tPc' = [tPc EXCEPT ![r] =
                               IF chosen # {} /\ ~tPlan[r].checks
                               THEN "finish" ELSE "materialised"]
                 /\ UNCHANGED <<run, tEnd, mStatus, mRun, mApproved, mPerm, mContract,
                                mSteering, mGen>>
    /\ overtaken' = overtaken \ {r}
    /\ UNCHANGED <<Elsewhere, tRound, tPlan>>

(* Mutant: without a check to execute the planner is asked again in the    *)
(* same round.                                                             *)
RunnerMaterialisedRetry(r) ==
    /\ TaskAt(r, "materialised")
    /\ IF tPlan[r].checks THEN Advance(r, "executing", "execute") ELSE GoTo(r, "recheck")
    /\ tPlan' = [tPlan EXCEPT ![r] = NoPlan]
    /\ UNCHANGED <<Elsewhere, tRound, overtaken>>

(* Without a check to execute the next round starts.                       *)
RunnerMaterialised(r) ==
    /\ TaskAt(r, "materialised")
    /\ IF tPlan[r].checks THEN Advance(r, "executing", "execute") ELSE GoTo(r, "round")
    /\ tPlan' = [tPlan EXCEPT ![r] = NoPlan]
    /\ UNCHANGED <<Elsewhere, tRound, overtaken>>

(* The checks of the round.  Every request looks at the cancel flag and at *)
(* the contract first; a check of stored responses makes none.             *)
RunnerExecute(r) ==
    /\ TaskAt(r, "execute")
    /\ \/ Drifted(r) /\ Fail(r, "stopped")
       \/ Cancelled(r) /\ Fail(r, "cancelled")
       \/ \E pc \in {"verify", "halt"} : Advance(r, "verifying", pc)
    /\ UNCHANGED <<Elsewhere, tRound, tPlan, overtaken>>

RunnerVerify(r) ==
    /\ \/ TaskAt(r, "verify") /\ ~Cancelled(r) /\ (GoTo(r, "round") \/ GoTo(r, "finish"))
       \/ TaskAt(r, "halt") /\ ~Cancelled(r) /\ Advance(r, "stopped", "release")
       \/ /\ TaskAt(r, "verify") \/ TaskAt(r, "halt")
          /\ Cancelled(r)
          /\ Advance(r, "cancelled", "release")
    /\ UNCHANGED <<Elsewhere, tRound, tPlan, overtaken>>

RunnerFinish(r) ==
    /\ TaskAt(r, "finish")
    /\ Advance(r, "completed", "release")
    /\ UNCHANGED <<Elsewhere, tRound, tPlan, overtaken>>

(* finalize_error: its own failures are dropped.                           *)
FinalizeError(r) ==
    /\ TaskAt(r, "error")
    /\ IF CanTransition(r, tEnd[r])
       THEN TransitionRun(r, tEnd[r])
       ELSE UNCHANGED <<run, mission>>
    /\ tPc' = [tPc EXCEPT ![r] = "release"]
    /\ UNCHANGED <<Elsewhere, tRound, tPlan, tEnd, overtaken>>

TaskEnds(r) ==
    /\ tPc' = [tPc EXCEPT ![r] = "none"]
    /\ tRound' = [tRound EXCEPT ![r] = 0]
    /\ tPlan' = [tPlan EXCEPT ![r] = NoPlan]
    /\ tEnd' = [tEnd EXCEPT ![r] = "failed"]

(* Mutant: the slot of a cancelled run is not given back.                  *)
ReleasedKeepsCancelled(r) == IF slot.run = r /\ ~slot.cancel THEN FreeSlot ELSE slot

(* AssessmentManager::release clears the slot only for the run that has it. *)
Released(r) == IF slot.run = r THEN FreeSlot ELSE slot

(* The task ends and its guard is dropped.                                 *)
RunnerRelease(r) ==
    /\ TaskAt(r, "release")
    /\ slot' = Released(r)
    /\ TaskEnds(r)
    /\ UNCHANGED <<app, live, mission, run, call, stop, overtaken>>

-----------------------------------------------------------------------------
(* Crash and boot *)

Crash ==
    /\ app = "up"
    /\ app' = "down"
    /\ slot' = FreeSlot
    /\ cPc' = [c \in Callers |-> "idle"]
    /\ cMission' = [c \in Callers |-> NoMission]
    /\ cContract' = [c \in Callers |-> NoContract]
    /\ cRun' = [c \in Callers |-> NoRun]
    /\ sPc' = "idle" /\ sRun' = NoRun
    /\ tPc' = [r \in Runs |-> "none"]
    /\ tRound' = [r \in Runs |-> 0]
    /\ tPlan' = [r \in Runs |-> NoPlan]
    /\ tEnd' = [r \in Runs |-> "failed"]
    /\ overtaken' = {}
    /\ UNCHANGED <<live, mission, run>>

(* Mutant: a run that was only queued is not looked for.                   *)
LeftBehindOnNetwork == {r \in Runs : rStatus[r] \in NetworkActive}

LeftBehind == {r \in Runs : rStatus[r] \in ActiveRunStatus}

(* recover_interrupted_runs interrupts every active run, in one            *)
(* transaction with its mission; the index leaves at most one such run.    *)
(* Its second loop mirrors a terminal run to a mission still on the        *)
(* network, which Spec never leaves behind (see MirrorAgreement).          *)
Boot ==
    /\ app = "down"
    /\ app' = "up"
    /\ \/ LeftBehind = {} /\ UNCHANGED <<run, mission>>
       \/ \E r \in LeftBehind : /\ CanTransition(r, "interrupted")
                               /\ TransitionRun(r, "interrupted")
    /\ UNCHANGED <<live, slot, call, stop, task, overtaken>>

(* The recovery transaction fails, setup returns the error, the            *)
(* application does not start; a later attempt meets the same rows.        *)
BootRefused ==
    /\ app = "down"
    /\ \E r \in LeftBehind : ~CanTransition(r, "interrupted")
    /\ app' = "refused"
    /\ UNCHANGED <<live, mission, run, slot, call, stop, task, overtaken>>

-----------------------------------------------------------------------------

Command ==
    \/ \E m \in Missions : \/ CreateMission(m) \/ ConfirmContext(m) \/ SendMessage(m)
                           \/ DecideAction(m) \/ RequestStop(m) \/ RequestStopRecord(m)
    \/ \E r \in Runs : CancelAssessment(r)
    \/ SetToolPermission \/ ChangeContract \/ RequestStopSignal

Start(c) ==
    \/ \E m \in Missions \cup {NoMission} : PrepareStart(c, m)
    \/ CreateAndLinkRun(c) \/ StartRefused(c) \/ ClaimSlot(c) \/ ClaimBusy(c)

Runner(r) ==
    \/ RunnerStart(r) \/ RunnerFault(r) \/ RunnerDiscover(r) \/ RunnerRound(r)
    \/ RunnerRecheck(r) \/ RunnerPlanned(r) \/ RunnerSelectRead(r)
    \/ RunnerSelectCommit(r) \/ RunnerMaterialised(r) \/ RunnerExecute(r)
    \/ RunnerVerify(r) \/ RunnerFinish(r) \/ FinalizeError(r) \/ RunnerRelease(r)

Next ==
    \/ Command
    \/ \E c \in Callers : Start(c)
    \/ \E r \in Runs : Runner(r)
    \/ Crash \/ Boot \/ BootRefused

Spec == Init /\ [][Next]_vars

(* A runner's waits end: requests and planner calls carry timeouts.  The   *)
(* process boots again.  Nothing is assumed of the user.                   *)
Fairness ==
    /\ \A r \in Runs : WF_vars(Runner(r))
    /\ WF_vars(RequestStopSignal)
    /\ WF_vars(Boot)

FairSpec == Spec /\ Fairness

-----------------------------------------------------------------------------
(* Properties *)

MissionType ==
    /\ mStatus \in [Missions -> MissionStatus]
    /\ mRun \in [Missions -> Runs \cup {NoRun}]
    /\ mApproved \in [Missions -> BOOLEAN]
    /\ mPerm \in [Missions -> Profiles]
    /\ mContract \in [Missions -> Contracts]
    /\ mSteering \in [Missions -> BOOLEAN]
    /\ mGen \in [Missions -> 0..MaxConfirms]
    /\ acts \in [Missions -> ActionTables]

RunType ==
    /\ rStatus \in [Runs -> RunStatus]
    /\ rMission \in [Runs -> Missions \cup {NoMission}]
    /\ rContract \in [Runs -> Contracts \cup {NoContract}]

CallType ==
    /\ cPc \in [Callers -> {"idle", "prepared", "linked"}]
    /\ cMission \in [Callers -> Missions \cup {NoMission}]
    /\ cContract \in [Callers -> Contracts \cup {NoContract}]
    /\ cRun \in [Callers -> Runs \cup {NoRun}]
    /\ \A c \in Callers : cPc[c] = "linked" => cRun[c] \in Runs
    /\ sPc \in {"idle", "signal"}
    /\ sRun \in Runs \cup {NoRun}

TaskType ==
    /\ tPc \in [Runs -> TaskPc]
    /\ tRound \in [Runs -> 0..MaxRounds]
    /\ tPlan \in [Runs -> [manual : SUBSET Tools, checks : BOOLEAN]]
    /\ tEnd \in [Runs -> Cut]
    /\ overtaken \subseteq Runs

OtherType ==
    /\ app \in {"up", "down", "refused"}
    /\ perm \in Profiles
    /\ contract \in Contracts
    /\ slot \in [run : Runs \cup {NoRun}, cancel : BOOLEAN]

(* Every variable has the type its column, field or counter has, and a run *)
(* plans at most MaxRounds rounds, whatever its retries and skipped rounds *)
(* (the round loop of assessment/runner.rs).                               *)
TypeOK == MissionType /\ RunType /\ CallType /\ TaskType /\ OtherType

(* A mission points at a run exactly while that run is active and was      *)
(* created for it, through reconfirmations, stops, failed admissions and   *)
(* restarts (active_run_id and assessment_mission_runs agree).             *)
LinkAgreement ==
    \A m \in Missions, r \in Runs :
        mRun[m] = r <=> rMission[r] = m /\ rStatus[r] \in ActiveRunStatus

(* Mission and run never tell the user different stories about the         *)
(* network: each is in a network status only when the other is in the      *)
(* same one, whatever commands ran since the run was linked.               *)
MirrorAgreement ==
    /\ \A r \in Runs : rStatus[r] \in NetworkActive /\ rMission[r] # NoMission
                          => mStatus[rMission[r]] = rStatus[r]
    /\ \A m \in Missions : mStatus[m] \in NetworkActive
                          => \E r \in Runs : mRun[m] = r /\ rStatus[r] = mStatus[m]

(* The admission slot is held exactly by the live runner, and a run that   *)
(* works on the network always has that runner behind it while the process *)
(* is up: no second runner, no orphaned run, no leaked slot.               *)
SlotAgreement ==
    /\ \A r \in Runs : tPc[r] # "none" <=> slot.run = r
    /\ app = "up" => \A r \in Runs : rStatus[r] \in NetworkActive => slot.run = r

(* What the runner is allowed to do was decided by the user: a mission     *)
(* leaves the approval status only with every action decided, and is never *)
(* queued, on the network or handed over with one still open or with its   *)
(* context unconfirmed.                                                    *)
ApprovalAgreement ==
    \A m \in Missions :
        /\ mStatus[m] = "awaiting_action_approval" => AwaitingApproval(acts[m]) # {}
        /\ mStatus[m] \in NetworkActive \cup {"queued", "awaiting_manual_handoff"}
               => mApproved[m] /\ AwaitingApproval(acts[m]) = {}

(* A mission waits for the handoff only if a manual recipe is left to do,  *)
(* and never completes over one that is.                                   *)
HandoffAgreement ==
    \A m \in Missions :
        /\ mStatus[m] = "awaiting_manual_handoff" => ManualOutstanding(acts[m])
        /\ mStatus[m] = "completed" => ~ManualOutstanding(acts[m])

(* Ended missions and runs stay as they ended, also across a restart and   *)
(* whatever command or late runner step still refers to them.              *)
TerminalIsFinal ==
    [][/\ \A m \in Missions : mStatus[m] \in Terminal => mStatus'[m] = mStatus[m]
       /\ \A r \in Runs : rStatus[r] \in Terminal => rStatus'[r] = rStatus[r]]_vars

(* A successful boot leaves no run active and no mission on the network,   *)
(* and gives back every mission that waits for the user, with its actions, *)
(* as it was before the crash.                                             *)
BootRecovers ==
    [][app = "down" /\ app' = "up" =>
        /\ \A r \in Runs : rStatus'[r] \notin ActiveRunStatus
        /\ \A m \in Missions :
             /\ mStatus'[m] \notin NetworkActive
             /\ mStatus[m] \in Waiting \cup Terminal
                    => mStatus'[m] = mStatus[m] /\ acts'[m] = acts[m]]_vars

(* The admission slot never stays taken.                                   *)
SlotIsFreed == slot.run # NoRun ~> slot.run = NoRun
=============================================================================
