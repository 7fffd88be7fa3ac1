----------------------------- MODULE Lifecycle -----------------------------
(***************************************************************************)
(* The statuses of assessment runs and missions and the two transition     *)
(* tables every status change is validated against: validate_transition    *)
(* (assessment/service.rs) for runs, validate_mission_transition           *)
(* (assessment/mission.rs) for missions.  The mission table is the one the *)
(* run mirror and request_stop use; confirm_context writes its status      *)
(* without consulting it.  The status `draft` is never written by the code *)
(* and is left out.                                                        *)
(***************************************************************************)

NetworkActive == {"discovering", "planning", "executing", "verifying"}

Terminal == {"completed", "stopped", "cancelled", "failed", "interrupted"}

(* AssessmentStatus::is_active; "none" is a run id not handed out yet.     *)
ActiveRunStatus == {"queued"} \cup NetworkActive

RunStatus == {"none"} \cup ActiveRunStatus \cup Terminal

(* Statuses in which a mission waits for the user and holds no executor.   *)
Waiting == {"awaiting_context_approval", "awaiting_action_approval",
            "awaiting_manual_handoff"}

MissionStatus == {"none", "queued"} \cup Waiting \cup NetworkActive \cup Terminal

(* How a run or a mission can be cut short once it works on the network.   *)
Cut == Terminal \ {"completed"}

RunMoves ==
    ({"queued"} \X {"discovering", "cancelled", "failed", "interrupted"})
    \cup ({"discovering"} \X ({"planning"} \cup Cut))
    \cup ({"planning"} \X ({"executing", "completed"} \cup Cut))
    \cup ({"executing"} \X ({"verifying", "planning", "completed"} \cup Cut))
    \cup ({"verifying"} \X ({"planning", "completed"} \cup Cut))

MissionMoves ==
    ({"awaiting_context_approval"}
        \X {"awaiting_action_approval", "queued", "stopped", "cancelled"})
    \cup ({"awaiting_action_approval"}
        \X {"queued", "awaiting_context_approval", "stopped", "cancelled"})
    \cup ({"queued"} \X ({"discovering"} \cup Cut))
    \cup ({"discovering"} \X ({"planning"} \cup Cut))
    \cup ({"planning"}
        \X ({"executing", "completed", "awaiting_manual_handoff"} \cup Cut))
    \cup ({"executing"}
        \X ({"planning", "verifying", "completed", "awaiting_manual_handoff"}
            \cup Cut))
    \cup ({"verifying"}
        \X ({"planning", "completed", "awaiting_manual_handoff"} \cup Cut))
    \cup ({"awaiting_manual_handoff"} \X {"completed", "stopped", "cancelled"})
=============================================================================
