------------------------- MODULE MissionRefinement -------------------------
(***************************************************************************)
(* Mission implements MissionPromise: the phase of a mission is read off   *)
(* its status, the tools it may use off its action rows.  Everything else  *)
(* (runs, callers, runner tasks, the slot, crashes) is hidden.             *)
(***************************************************************************)
EXTENDS Mission

PhaseOf(status) ==
    CASE status = "none" -> "absent"
      [] status \in {"awaiting_context_approval", "awaiting_action_approval"} -> "preparing"
      [] status = "queued" -> "ready"
      [] status \in NetworkActive -> "working"
      [] status = "awaiting_manual_handoff" -> "handoff"
      [] status \in Terminal -> "ended"

Promise == INSTANCE MissionPromise
               WITH phase <- [m \in Missions |-> PhaseOf(mStatus[m])],
                    granted <- [m \in Missions |-> AllowedTools(acts[m])]

(* No command, runner step, crash or boot leads a mission from phase to    *)
(* phase, or changes the tools it may use, in a way the promise excludes.  *)
KeepsSafePromise == Promise!SafeSpec

(* Every fair behaviour of the code keeps the promise of MissionPromise,        *)
(* including that a mission at work leaves the network.                    *)
KeepsPromise == Promise!Spec
=============================================================================
