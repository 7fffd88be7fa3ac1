---------------------------- MODULE ActionTable ----------------------------
(***************************************************************************)
(* The tool actions of one mission (table assessment_actions) and what the *)
(* handlers of assessment/mission.rs do to them.  An action is identified  *)
(* by its tool and by the confirmation that inserted it, so a higher       *)
(* second component is a newer row.  A row keeps approval_status and       *)
(* status apart, as the table does: cancelling a row changes its status    *)
(* and leaves its approval alone.                                          *)
(*                                                                         *)
(* The statuses completed, skipped, rejected, cancelled and failed are one *)
(* status here, "closed": no query of the mission code tells them apart.   *)
(* manual_result_pending is "manual_ready": every query names both, but    *)
(* for request_stop, after which no query of the mission asks again.       *)
(***************************************************************************)
EXTENDS Integers

CONSTANTS Tools,        \* the ToolSpec ids of the registry
          ManualTools,  \* those of execution kind manual_recipe
          MaxConfirms   \* bound: confirmations of a mission's context

ASSUME ToolsAssumption == ManualTools \subseteq Tools
ASSUME MaxConfirmsAssumption == MaxConfirms \in Nat

ActionIds == Tools \X (1..MaxConfirms)

Action == [approval : {"none", "not_required", "pending", "approved", "rejected"},
           status : {"none", "awaiting_approval", "queued", "manual_ready", "closed"}]

ActionTables == [ActionIds -> Action]

(* The project's permission profile: what each tool may do without asking. *)
Permissions == {p \in [Tools -> {"disabled", "ask", "execute"}] :
                    \A t \in ManualTools : p[t] # "execute"}

EmptyTable == [a \in ActionIds |-> [approval |-> "none", status |-> "none"]]

(* UPDATE ... SET status='cancelled' (or completed, skipped) WHERE status  *)
(* IN (...): the approval column is not written.                           *)
CloseActions(table, statuses) ==
    [a \in ActionIds |->
        IF table[a].status \in statuses
        THEN [table[a] EXCEPT !.status = "closed"]
        ELSE table[a]]

(* sync_actions_from_run_on: what the run's checks came from, the          *)
(* inventory, and what it left queued are all closed: no row stays queued. *)
SyncActions(table) == CloseActions(table, {"queued"})

NewAction(tool, perm) ==
    IF perm[tool] = "ask" \/ tool \in ManualTools
    THEN [approval |-> "pending", status |-> "awaiting_approval"]
    ELSE [approval |-> "not_required", status |-> "queued"]

(* The open rows of earlier confirmations are cancelled, then every tool   *)
(* that is not disabled gets a row of its own.                             *)
PrepareActions(table, gen, perm) ==
    [a \in ActionIds |->
        IF a[2] = gen /\ perm[a[1]] # "disabled"
        THEN NewAction(a[1], perm)
        ELSE CloseActions(table, {"awaiting_approval", "queued"})[a]]

(* The test confirm_context and decide_action make before queueing.        *)
AwaitingApproval(table) ==
    {a \in ActionIds : table[a].approval = "pending"
                       /\ table[a].status = "awaiting_approval"}

(* The test prepare_start makes: it does not look at the status.           *)
ApprovalPending(table) == {a \in ActionIds : table[a].approval = "pending"}

(* The rows one decision touches: the row the user clicked, or every       *)
(* awaiting row of its tool.                                               *)
DecisionTargets(table, a, sameTool) ==
    IF sameTool THEN {b \in AwaitingApproval(table) : b[1] = a[1]} ELSE {a}

DecideActions(table, targets, approve) ==
    [a \in ActionIds |->
        IF a \in targets
        THEN IF approve
             THEN [approval |-> "approved", status |-> "queued"]
             ELSE [approval |-> "rejected", status |-> "closed"]
        ELSE table[a]]

(* The tools the planner may be offered in a run of the mission.           *)
AllowedTools(table) ==
    {t \in Tools : \E a \in ActionIds :
        /\ a[1] = t
        /\ table[a].approval \in {"not_required", "approved"}
        /\ table[a].status = "queued"}

(* The newest approved row of a manual recipe the planner selected.        *)
Selectable(table, tool) ==
    {a \in ActionIds : /\ a[1] = tool
                       /\ table[a] = [approval |-> "approved", status |-> "queued"]
                       /\ \A b \in ActionIds :
                             b[1] = tool
                             /\ table[b] = [approval |-> "approved", status |-> "queued"]
                                => b[2] <= a[2]}

SelectManual(table, tools) ==
    [a \in ActionIds |->
        IF \E t \in tools : a \in Selectable(table, t)
        THEN [table[a] EXCEPT !.status = "manual_ready"]
        ELSE table[a]]

(* An approved manual recipe that still waits for the user's Repeater run. *)
ManualOutstanding(table) ==
    \E a \in ActionIds : /\ a[1] \in ManualTools
                         /\ table[a].approval = "approved"
                         /\ table[a].status = "manual_ready"
=============================================================================
