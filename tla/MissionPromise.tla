--------------------------- MODULE MissionPromise ---------------------------
(***************************************************************************)
(* What the mission core promises its user, without runs, start commands,  *)
(* runner tasks, the slot or restarts: each mission goes through a few     *)
(* phases, at most one works on the network, the tools it may use are      *)
(* settled before it works and only ever taken away while it does, the     *)
(* work always ends, and an ended mission is over.                         *)
(***************************************************************************)
CONSTANTS Missions, Tools

VARIABLES phase,    \* where each mission stands
          granted   \* the tools each mission may use

promise == <<phase, granted>>

Phases == {"absent", "preparing", "ready", "working", "handoff", "ended"}

Init ==
    /\ phase = [m \in Missions |-> "absent"]
    /\ granted = [m \in Missions |-> {}]

MoveTo(m, ph, tools) ==
    /\ phase' = [phase EXCEPT ![m] = ph]
    /\ granted' = [granted EXCEPT ![m] = tools]

Create(m) ==
    /\ phase[m] = "absent"
    /\ MoveTo(m, "preparing", granted[m])

(* The user confirms a context or decides an action.  This is the only way *)
(* to gain a tool, and it leads no further than `ready`.                   *)
Prepare(m) ==
    /\ phase[m] \in {"preparing", "ready", "handoff"}
    /\ \E ph \in {"preparing", "ready"}, tools \in SUBSET Tools : MoveTo(m, ph, tools)

Begin(m) ==
    /\ phase[m] = "ready"
    /\ \A n \in Missions : phase[n] # "working"
    /\ MoveTo(m, "working", granted[m])

(* A selected manual recipe leaves the planner's reach.                    *)
Narrow(m) ==
    /\ phase[m] = "working"
    /\ \E tools \in SUBSET granted[m] : MoveTo(m, "working", tools)

Leave(m) ==
    /\ phase[m] = "working"
    /\ \E ph \in {"handoff", "ended"} : MoveTo(m, ph, {})

GiveUp(m) ==
    /\ phase[m] \in {"preparing", "ready", "handoff"}
    /\ MoveTo(m, "ended", {})

Next ==
    \E m \in Missions :
        Create(m) \/ Prepare(m) \/ Begin(m) \/ Narrow(m) \/ Leave(m) \/ GiveUp(m)

SafeSpec == Init /\ [][Next]_promise

Spec == SafeSpec /\ \A m \in Missions : WF_promise(Leave(m))
=============================================================================
