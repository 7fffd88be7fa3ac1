--------------------------- MODULE MissionProofs ---------------------------
(***************************************************************************)
(* Theorems about Mission for every set of missions, runs, callers and     *)
(* tools and every value of the bounds.  The argument: the type of the     *)
(* state; the invariant Linked (missions and runs), whose step is carried  *)
(* by one lemma about TransitionRun, the transaction all actors share; on  *)
(* it the invariant Slots (runs, tasks, start commands and the slot); and  *)
(* on both what a boot recovers, what is approved and handed over, and     *)
(* that every step is one of MissionPromise.                               *)
(***************************************************************************)
EXTENDS MissionRefinement, TLAPS

-----------------------------------------------------------------------------
(* Types *)

(* CloseActions, PrepareActions, DecideActions and SelectManual, the       *)
(* updates of assessment_actions, map action tables to action tables.      *)
LEMMA TableTypes ==
    ASSUME NEW table \in ActionTables
    PROVE  /\ \A statuses : CloseActions(table, statuses) \in ActionTables
           /\ \A gen, p : PrepareActions(table, gen, p) \in ActionTables
           /\ \A targets, approve : DecideActions(table, targets, approve) \in ActionTables
           /\ \A tools : SelectManual(table, tools) \in ActionTables
<1>0. \A a \in ActionIds : table[a] \in Action
  BY DEF ActionTables
<1>1. \A statuses : CloseActions(table, statuses) \in ActionTables
  BY <1>0 DEF CloseActions, ActionTables, Action
<1>2. \A tool, p : NewAction(tool, p) \in Action
  BY DEF NewAction, Action
<1>3. \A gen, p : PrepareActions(table, gen, p) \in ActionTables
  <2> SUFFICES ASSUME NEW gen, NEW p, NEW a \in ActionIds
               PROVE  PrepareActions(table, gen, p)[a] \in Action
    BY DEF PrepareActions, ActionTables
  <2>1. CloseActions(table, {"awaiting_approval", "queued"})[a] \in Action
    BY <1>1 DEF ActionTables
  <2> QED BY <1>2, <2>1 DEF PrepareActions
<1>4. \A targets, approve : DecideActions(table, targets, approve) \in ActionTables
  BY <1>0 DEF DecideActions, ActionTables, Action
<1>5. \A tools : SelectManual(table, tools) \in ActionTables
  BY <1>0 DEF SelectManual, ActionTables, Action
<1> QED BY <1>1, <1>3, <1>4, <1>5

(* transition_run keeps mission and run rows well-typed.                   *)
LEMMA TransitionTypes ==
    ASSUME MissionType, RunType,
           NEW r \in Runs, NEW status \in ActiveRunStatus \cup Terminal,
           TransitionRun(r, status)
    PROVE  MissionType' /\ RunType'
<1>1. RunType'
  BY DEF RunType, TransitionRun, RunStatus
<1>2. CASE rMission[r] = NoMission
  BY <1>1, <1>2 DEF TransitionRun, MissionType, mission
<1>3. CASE rMission[r] # NoMission
  <2> DEFINE m == rMission[r]
  <2>1. m \in Missions
    BY <1>3 DEF RunType
  <2>2. Mirror(m, status) \in MissionStatus
    BY DEF Mirror, MissionStatus, ActiveRunStatus, Waiting
  <2>3. acts[m] \in ActionTables /\ SyncActions(acts[m]) \in ActionTables
    BY <2>1, TableTypes DEF MissionType, SyncActions
  <2>4. SyncFromRun(m, status)
    BY <1>3 DEF TransitionRun
  <2>5. /\ mStatus' \in [Missions -> MissionStatus]
        /\ mRun' \in [Missions -> Runs \cup {NoRun}]
        /\ acts' \in [Missions -> ActionTables]
        /\ UNCHANGED <<mApproved, mPerm, mContract, mSteering, mGen>>
    BY <2>1, <2>2, <2>3, <2>4 DEF SyncFromRun, MissionType
  <2> QED BY <1>1, <2>5 DEF MissionType
<1> QED BY <1>2, <1>3

(* transition(...)? of the runner, whichever way it goes.                  *)
LEMMA AdvanceTypes ==
    ASSUME MissionType, RunType, TaskType,
           NEW r \in Runs, NEW status \in ActiveRunStatus \cup Terminal,
           NEW pc \in TaskPc,
           Advance(r, status, pc)
    PROVE  /\ MissionType' /\ RunType'
           /\ tPc' \in [Runs -> TaskPc] /\ tEnd' \in [Runs -> Cut]
<1>1. CASE CanTransition(r, status)
  <2>1. /\ TransitionRun(r, status)
        /\ tPc' = [tPc EXCEPT ![r] = pc]
        /\ UNCHANGED tEnd
    BY <1>1 DEF Advance
  <2> QED BY <2>1, TransitionTypes DEF TaskType
<1>2. CASE ~CanTransition(r, status)
  <2>1. /\ tPc' = [tPc EXCEPT ![r] = "error"]
        /\ tEnd' = [tEnd EXCEPT ![r] = "failed"]
        /\ UNCHANGED <<run, mission>>
    BY <1>2 DEF Advance
  <2>2. MissionType' /\ RunType'
    BY <2>1 DEF MissionType, RunType, run, mission
  <2> QED BY <2>1, <2>2 DEF TaskType, TaskPc, Cut, Terminal
<1> QED BY <1>1, <1>2

(* GoTo and Fail, the runner's other moves.                                *)
LEMMA MoveTypes ==
    ASSUME MissionType, RunType, TaskType, NEW r \in Runs,
           \/ \E pc \in TaskPc : GoTo(r, pc)
           \/ \E end \in Cut : Fail(r, end)
    PROVE  /\ MissionType' /\ RunType'
           /\ tPc' \in [Runs -> TaskPc] /\ tEnd' \in [Runs -> Cut]
<1>1. UNCHANGED <<run, mission>>
  BY DEF GoTo, Fail
<1>2. MissionType' /\ RunType'
  BY <1>1 DEF MissionType, RunType, run, mission
<1>3. tPc' \in [Runs -> TaskPc] /\ tEnd' \in [Runs -> Cut]
  BY DEF GoTo, Fail, TaskType, TaskPc
<1> QED BY <1>2, <1>3

(* The statuses the code passes to transition_run, and the ways to fail.   *)
LEMMA StatusNames ==
    /\ \A s \in {"discovering", "planning", "executing", "verifying", "completed",
                 "stopped", "cancelled", "failed", "interrupted"} :
         s \in ActiveRunStatus \cup Terminal
    /\ {"stopped", "cancelled", "failed"} \subseteq Cut
    /\ Cut \subseteq ActiveRunStatus \cup Terminal
BY DEF ActiveRunStatus, Terminal, NetworkActive, Cut

(* Every command of the main thread keeps the types.                       *)
LEMMA CommandTypes ==
    ASSUME TypeOK, Command PROVE TypeOK'
<1> USE DEF TypeOK, live, mission, run, call, stop, task
<1>1. ASSUME NEW m \in Missions, CreateMission(m) PROVE TypeOK'
  BY <1>1 DEF CreateMission, MissionType, RunType, CallType, TaskType, OtherType,
              MissionStatus, Waiting
<1>2. ASSUME NEW m \in Missions, ConfirmContext(m) PROVE TypeOK'
  <2> DEFINE table == PrepareActions(acts[m], mGen[m] + 1, perm)
  <2>1. table \in ActionTables
    BY TableTypes DEF MissionType
  <2>2. mGen' \in [Missions -> 0..MaxConfirms]
    BY <1>2, MaxConfirmsAssumption DEF ConfirmContext, MissionType
  <2>3. acts' \in [Missions -> ActionTables] /\ mStatus' \in [Missions -> MissionStatus]
    <3>1. /\ acts' = [acts EXCEPT ![m] = table]
          /\ mStatus' = [mStatus EXCEPT ![m] = IF ApprovalsOpen(table)
                                               THEN "awaiting_action_approval"
                                               ELSE "queued"]
      BY <1>2 DEF ConfirmContext
    <3> HIDE DEF table
    <3> QED BY <2>1, <3>1 DEF MissionType, MissionStatus, Waiting
  <2>4. /\ UNCHANGED <<app, live, mRun, mSteering, run, slot, call, stop, task>>
        /\ mApproved' = [mApproved EXCEPT ![m] = TRUE]
        /\ mPerm' = [mPerm EXCEPT ![m] = perm]
        /\ mContract' = [mContract EXCEPT ![m] = contract]
        /\ Bump(m)
    BY <1>2 DEF ConfirmContext
  <2> QED BY <2>2, <2>3, <2>4
          DEF Bump, MissionType, RunType, CallType, TaskType, OtherType
<1>3. ASSUME NEW m \in Missions, SendMessage(m) PROVE TypeOK'
  BY <1>3 DEF SendMessage, Bump, MissionType, RunType, CallType, TaskType, OtherType
<1>4. ASSUME NEW m \in Missions, DecideAction(m) PROVE TypeOK'
  <2>1. PICK a \in ApprovalPending(acts[m]), sameTool \in BOOLEAN, approve \in BOOLEAN :
          LET table == DecideActions(acts[m], DecisionTargets(acts[m], a, sameTool), approve)
          IN /\ acts' = [acts EXCEPT ![m] = table]
             /\ mStatus' = [mStatus EXCEPT ![m] = IF ApprovalsOpen(table) THEN @ ELSE "queued"]
    BY <1>4 DEF DecideAction
  <2>2. DecideActions(acts[m], DecisionTargets(acts[m], a, sameTool), approve) \in ActionTables
    BY TableTypes DEF MissionType
  <2>3. acts' \in [Missions -> ActionTables] /\ mStatus' \in [Missions -> MissionStatus]
    BY <2>1, <2>2 DEF MissionType, MissionStatus
  <2>4. /\ UNCHANGED <<app, live, mRun, mApproved, mPerm, mContract, mSteering, mGen,
                       run, slot, call, stop, task>>
        /\ Bump(m)
    BY <1>4 DEF DecideAction
  <2> QED BY <2>3, <2>4 DEF Bump, MissionType, RunType, CallType, TaskType, OtherType
<1>5. ASSUME NEW m \in Missions, RequestStop(m) PROVE TypeOK'
  <2>1. CloseActions(acts[m], {"awaiting_approval", "queued", "manual_ready"}) \in ActionTables
    BY TableTypes DEF MissionType
  <2> QED BY <1>5, <2>1 DEF RequestStop, Bump, MissionType, RunType, CallType, TaskType,
                            OtherType, MissionStatus, Terminal
<1>6. ASSUME NEW m \in Missions, RequestStopRecord(m) PROVE TypeOK'
  BY <1>6 DEF RequestStopRecord, Bump, MissionType, RunType, CallType, TaskType, OtherType
<1>7. ASSUME NEW r \in Runs, CancelAssessment(r) PROVE TypeOK'
  BY <1>7 DEF CancelAssessment, SignalCancel, MissionType, RunType, CallType, TaskType,
              OtherType
<1>8. ASSUME SetToolPermission \/ ChangeContract PROVE TypeOK'
  BY <1>8 DEF SetToolPermission, ChangeContract, MissionType, RunType, CallType, TaskType,
              OtherType
<1>9. ASSUME RequestStopSignal PROVE TypeOK'
  BY <1>9 DEF RequestStopSignal, SignalCancel, MissionType, RunType, CallType, TaskType,
              OtherType
<1> QED BY <1>1, <1>2, <1>3, <1>4, <1>5, <1>6, <1>7, <1>8, <1>9 DEF Command

(* Every step of a start command keeps the types.                          *)
LEMMA StartTypes ==
    ASSUME TypeOK, NEW c \in Callers, Start(c) PROVE TypeOK'
<1> USE DEF TypeOK, live, mission, run, call, stop, task
<1>1. ASSUME CallEnds(c), UNCHANGED stop PROVE CallType'
  BY <1>1 DEF CallEnds, CallType
<1>2. ASSUME NEW m \in Missions \cup {NoMission}, PrepareStart(c, m) PROVE TypeOK'
  BY <1>2 DEF PrepareStart, MissionType, RunType, CallType, TaskType, OtherType
<1>3. ASSUME CreateAndLinkRun(c) PROVE TypeOK'
  <2>1. PICK r \in Runs :
          /\ rStatus' = [rStatus EXCEPT ![r] = "queued"]
          /\ rMission' = [rMission EXCEPT ![r] = cMission[c]]
          /\ rContract' = [rContract EXCEPT ![r] = cContract[c]]
          /\ cRun' = [cRun EXCEPT ![c] = r]
          /\ mRun' = IF cMission[c] = NoMission THEN mRun
                     ELSE [mRun EXCEPT ![cMission[c]] = r]
    BY <1>3 DEF CreateAndLinkRun
  <2>2. /\ cPc' = [cPc EXCEPT ![c] = "linked"]
        /\ UNCHANGED <<app, live, mStatus, mApproved, mPerm, mContract, mSteering, mGen,
                       acts, slot, cMission, cContract, stop, task, overtaken>>
    BY <1>3 DEF CreateAndLinkRun
  <2>3. RunType'
    BY <2>1 DEF RunType, CallType, RunStatus, ActiveRunStatus
  <2>4. mRun' \in [Missions -> Runs \cup {NoRun}]
    BY <2>1 DEF MissionType, CallType
  <2> QED BY <2>1, <2>2, <2>3, <2>4 DEF MissionType, CallType, TaskType, OtherType
<1>4. ASSUME StartRefused(c) PROVE TypeOK'
  BY <1>1, <1>4 DEF StartRefused, MissionType, RunType, CallType, TaskType, OtherType
<1>5. ASSUME ClaimSlot(c) PROVE TypeOK'
  <2>1. cRun[c] \in Runs \cup {NoRun}
    BY DEF CallType
  <2>2. tPc' \in [Runs -> TaskPc]
    BY <1>5 DEF ClaimSlot, TaskType, TaskPc
  <2> QED BY <1>1, <1>5, <2>1, <2>2
          DEF ClaimSlot, MissionType, RunType, CallType, TaskType, OtherType
<1>6. ASSUME ClaimBusy(c) PROVE TypeOK'
  <2>0. cRun[c] \in Runs
    BY <1>6 DEF ClaimBusy, CallType
  <2>1. MissionType' /\ RunType'
    <3>1. CASE CanTransition(cRun[c], "failed")
      <4>1. TransitionRun(cRun[c], "failed")
        BY <1>6, <3>1 DEF ClaimBusy
      <4>2. "failed" \in ActiveRunStatus \cup Terminal
        BY DEF Terminal
      <4> QED BY <2>0, <4>1, <4>2, TransitionTypes
    <3>2. CASE ~CanTransition(cRun[c], "failed")
      BY <1>6, <3>2 DEF ClaimBusy, MissionType, RunType
    <3> QED BY <3>1, <3>2
  <2>2. CallEnds(c) /\ UNCHANGED <<app, live, slot, stop, task, overtaken>>
    BY <1>6 DEF ClaimBusy
  <2> QED BY <1>1, <2>1, <2>2 DEF CallType, TaskType, OtherType
<1> QED BY <1>2, <1>3, <1>4, <1>5, <1>6 DEF Start

(* Every step of a runner keeps the types.  The steps fall into those that *)
(* only Advance, GoTo or Fail, and those that write more.                  *)
LEMMA RunnerTypes ==
    ASSUME TypeOK, NEW r \in Runs, Runner(r) PROVE TypeOK'
<1> DEFINE moved == /\ MissionType' /\ RunType'
                    /\ tPc' \in [Runs -> TaskPc] /\ tEnd' \in [Runs -> Cut]
<1>0. /\ \A status \in {"discovering", "planning", "executing", "verifying", "completed",
                        "stopped", "cancelled"}, pc \in TaskPc :
            Advance(r, status, pc) => moved
      /\ \A pc \in TaskPc : GoTo(r, pc) => moved
      /\ \A end \in {"stopped", "cancelled", "failed"} : Fail(r, end) => moved
  BY AdvanceTypes, MoveTypes, StatusNames DEF TypeOK
<1>a. {"discover", "round", "recheck", "await", "selecting", "materialised", "execute",
       "verify", "halt", "finish", "release"} \subseteq TaskPc
  BY DEF TaskPc
<1>b. ASSUME moved, UNCHANGED Elsewhere, UNCHANGED overtaken,
             tRound' \in [Runs -> 0..MaxRounds],
             tPlan' \in [Runs -> [manual : SUBSET Tools, checks : BOOLEAN]]
      PROVE  TypeOK'
  <2> HIDE DEF moved
  <2>1. CallType' /\ OtherType'
    BY <1>b DEF Elsewhere, live, call, stop, TypeOK, CallType, OtherType
  <2> QED BY <1>b, <2>1 DEF moved, TypeOK, TaskType
<1>c. /\ tRound \in [Runs -> 0..MaxRounds]
      /\ tPlan \in [Runs -> [manual : SUBSET Tools, checks : BOOLEAN]]
  BY DEF TypeOK, TaskType
<1>1. ASSUME \/ RunnerStart(r) \/ RunnerFault(r) \/ RunnerDiscover(r)
             \/ RunnerExecute(r) \/ RunnerVerify(r) \/ RunnerFinish(r)
      PROVE  TypeOK'
  <2>1. moved
    <3> HIDE DEF moved
    <3> QED BY <1>0, <1>a, <1>1
            DEF RunnerStart, RunnerFault, RunnerDiscover, RunnerExecute, RunnerVerify,
                RunnerFinish
  <2>2. UNCHANGED Elsewhere /\ UNCHANGED <<tRound, tPlan, overtaken>>
    BY <1>1 DEF RunnerStart, RunnerFault, RunnerDiscover, RunnerExecute, RunnerVerify,
                RunnerFinish, Elsewhere
  <2> QED BY <1>b, <1>c, <2>1, <2>2
<1>2. ASSUME RunnerRound(r) PROVE TypeOK'
  <2>1. moved
    <3> HIDE DEF moved
    <3> QED BY <1>0, <1>a, <1>2 DEF RunnerRound
  <2>2. tRound' \in [Runs -> 0..MaxRounds]
    BY <1>2, <1>c, MaxRoundsAssumption DEF RunnerRound
  <2>3. UNCHANGED Elsewhere /\ UNCHANGED <<tPlan, overtaken>>
    BY <1>2 DEF RunnerRound, Elsewhere
  <2> QED BY <1>b, <1>c, <2>1, <2>2, <2>3
<1>3. ASSUME RunnerMaterialised(r) PROVE TypeOK'
  <2>1. moved
    <3> HIDE DEF moved
    <3> QED BY <1>0, <1>a, <1>3 DEF RunnerMaterialised
  <2>2. tPlan' \in [Runs -> [manual : SUBSET Tools, checks : BOOLEAN]]
    BY <1>3, <1>c DEF RunnerMaterialised, NoPlan
  <2>3. UNCHANGED Elsewhere /\ UNCHANGED <<tRound, overtaken>>
    BY <1>3 DEF RunnerMaterialised, Elsewhere
  <2> QED BY <1>b, <1>c, <2>1, <2>2, <2>3
<1>4. ASSUME RunnerRecheck(r) PROVE TypeOK'
  <2>1. moved
    <3> HIDE DEF moved
    <3> QED BY <1>0, <1>a, <1>4 DEF RunnerRecheck
  <2>2. UNCHANGED Elsewhere /\ UNCHANGED <<tRound, tPlan, overtaken>>
    BY <1>4 DEF RunnerRecheck, Elsewhere
  <2> QED BY <1>c, <2>1, <2>2
          DEF TypeOK, TaskType, CallType, OtherType, Elsewhere, live, call, stop
<1>5. ASSUME RunnerSelectRead(r) PROVE TypeOK'
  <2>1. moved
    <3> HIDE DEF moved
    <3> QED BY <1>0, <1>a, <1>5 DEF RunnerSelectRead
  <2>2. /\ UNCHANGED Elsewhere /\ UNCHANGED <<tRound, tPlan>>
        /\ overtaken' = overtaken \ {r}
    BY <1>5 DEF RunnerSelectRead, Elsewhere
  <2> QED BY <1>c, <2>1, <2>2
          DEF TypeOK, TaskType, CallType, OtherType, Elsewhere, live, call, stop
<1>6. ASSUME RunnerSelectCommit(r) PROVE TypeOK'
  <2> DEFINE m == rMission[r]
  <2>1. PICK chosen \in SUBSET {t \in tPlan[r].manual : Selectable(acts[m], t) # {}} :
          IF chosen # {} /\ r \in overtaken
          THEN Fail(r, "failed")
          ELSE /\ acts' = [acts EXCEPT ![m] = SelectManual(@, chosen)]
               /\ tPc' = [tPc EXCEPT ![r] =
                             IF chosen # {} /\ ~tPlan[r].checks
                             THEN "finish" ELSE "materialised"]
               /\ UNCHANGED <<run, tEnd, mStatus, mRun, mApproved, mPerm, mContract,
                              mSteering, mGen>>
    BY <1>6 DEF RunnerSelectCommit
  <2>2. moved
    <3>1. CASE chosen # {} /\ r \in overtaken
      <4> HIDE DEF moved
      <4> QED BY <1>0, <2>1, <3>1
    <3>2. CASE ~(chosen # {} /\ r \in overtaken)
      <4>1. acts' \in [Missions -> ActionTables]
        BY <2>1, <3>2, TableTypes DEF TypeOK, MissionType
      <4>2. tPc' \in [Runs -> TaskPc]
        BY <2>1, <3>2, <1>a DEF TypeOK, TaskType
      <4> QED BY <2>1, <3>2, <4>1, <4>2 DEF TypeOK, MissionType, RunType, TaskType, run
    <3> QED BY <3>1, <3>2
  <2>3. /\ UNCHANGED Elsewhere /\ UNCHANGED <<tRound, tPlan>>
        /\ overtaken' = overtaken \ {r}
    BY <1>6 DEF RunnerSelectCommit, Elsewhere
  <2> QED BY <1>c, <2>2, <2>3
          DEF TypeOK, TaskType, CallType, OtherType, Elsewhere, live, call, stop
<1>7. ASSUME RunnerPlanned(r) PROVE TypeOK'
  <2>1. CASE Cancelled(r)
    <3>1. moved
      <4> HIDE DEF moved
      <4> QED BY <1>0, <1>7, <2>1 DEF RunnerPlanned
    <3>2. UNCHANGED Elsewhere /\ UNCHANGED <<tRound, tPlan, overtaken>>
      BY <1>7, <2>1 DEF RunnerPlanned, Elsewhere
    <3> QED BY <1>b, <1>c, <3>1, <3>2
  <2>2. CASE ~Cancelled(r)
    <3>1. /\ ClearSteering(r)
          /\ UNCHANGED <<run, tEnd, mStatus, mRun, mApproved, mPerm, mContract, mGen, acts>>
          /\ UNCHANGED Elsewhere /\ UNCHANGED <<tRound, overtaken>>
      BY <1>7, <2>2 DEF RunnerPlanned, Elsewhere
    <3>2. /\ tPc' \in [Runs -> TaskPc]
          /\ tPlan' \in [Runs -> [manual : SUBSET Tools, checks : BOOLEAN]]
      <4>1. CASE tPc' = [tPc EXCEPT ![r] = "finish"] /\ UNCHANGED tPlan
        BY <1>a, <1>c, <4>1 DEF TypeOK, TaskType
      <4>2. CASE \E manual \in SUBSET ManualOffered(r), checks \in BOOLEAN :
                   /\ tPlan' = [tPlan EXCEPT ![r] = [manual |-> manual, checks |-> checks]]
                   /\ tPc' = [tPc EXCEPT ![r] =
                                 IF manual = {} THEN "materialised" ELSE "planned"]
        <5>1. ManualOffered(r) \subseteq Tools
          BY DEF ManualOffered, AllowedTools
        <5>2. {"materialised", "planned"} \subseteq TaskPc
          BY DEF TaskPc
        <5> QED BY <1>c, <4>2, <5>1, <5>2 DEF TypeOK, TaskType
      <4> QED BY <1>7, <2>2, <4>1, <4>2 DEF RunnerPlanned
    <3>3. moved
      BY <3>1, <3>2 DEF ClearSteering, TypeOK, MissionType, RunType, TaskType, run
    <3> QED BY <1>b, <1>c, <3>1, <3>2, <3>3
  <2> QED BY <2>1, <2>2
<1>8. ASSUME FinalizeError(r) PROVE TypeOK'
  <2>1. MissionType' /\ RunType'
    <3>1. CASE CanTransition(r, tEnd[r])
      BY <1>8, <3>1, TransitionTypes, StatusNames DEF FinalizeError, TypeOK, TaskType
    <3>2. CASE ~CanTransition(r, tEnd[r])
      BY <1>8, <3>2 DEF FinalizeError, TypeOK, MissionType, RunType, run, mission
    <3> QED BY <3>1, <3>2
  <2>2. /\ tPc' = [tPc EXCEPT ![r] = "release"]
        /\ UNCHANGED Elsewhere /\ UNCHANGED <<tRound, tPlan, tEnd, overtaken>>
    BY <1>8 DEF FinalizeError, Elsewhere
  <2> QED BY <1>a, <1>b, <2>1, <2>2 DEF TypeOK, TaskType
<1>9. ASSUME RunnerRelease(r) PROVE TypeOK'
  <2>1. TaskType'
    BY <1>9, <1>a, MaxRoundsAssumption
       DEF RunnerRelease, TaskEnds, TypeOK, TaskType, TaskPc, NoPlan, Cut, Terminal
  <2>2. OtherType'
    BY <1>9 DEF RunnerRelease, Released, FreeSlot, TypeOK, OtherType, live
  <2> QED BY <1>9, <2>1, <2>2
          DEF RunnerRelease, TypeOK, MissionType, RunType, CallType, mission, run, call, stop
<1> HIDE DEF moved
<1> QED BY <1>1, <1>2, <1>3, <1>4, <1>5, <1>6, <1>7, <1>8, <1>9 DEF Runner

(* The initial rows are well typed.                                        *)
LEMMA InitTypes == Init => TypeOK
<1> SUFFICES ASSUME Init PROVE TypeOK
  OBVIOUS
<1>1. EmptyTable \in ActionTables
  BY DEF EmptyTable, ActionTables, Action
<1>2. MissionType
  BY <1>1, MaxConfirmsAssumption DEF Init, MissionType, MissionStatus
<1>3. RunType /\ CallType /\ OtherType
  BY DEF Init, RunType, CallType, OtherType, RunStatus, FreeSlot
<1>4. TaskType
  BY MaxRoundsAssumption DEF Init, TaskType, TaskPc, NoPlan, Cut, Terminal
<1> QED BY <1>2, <1>3, <1>4 DEF TypeOK

(* Crashes and boots keep the types.                                       *)
LEMMA RestartTypes ==
    ASSUME TypeOK, Crash \/ Boot \/ BootRefused PROVE TypeOK'
<1> USE DEF TypeOK
<1>1. ASSUME Crash PROVE TypeOK'
  <2>1. MissionType' /\ RunType' /\ OtherType'
    BY <1>1 DEF Crash, MissionType, RunType, OtherType, mission, run, live, FreeSlot
  <2>2. CallType'
    BY <1>1 DEF Crash, CallType
  <2>3. TaskType'
    BY <1>1, MaxRoundsAssumption DEF Crash, TaskType, TaskPc, NoPlan, Cut, Terminal
  <2> QED BY <2>1, <2>2, <2>3
<1>2. ASSUME Boot PROVE TypeOK'
  <2>1. MissionType' /\ RunType'
    <3>1. CASE UNCHANGED <<run, mission>>
      BY <3>1 DEF MissionType, RunType, mission, run
    <3>2. CASE \E r \in LeftBehind : TransitionRun(r, "interrupted")
      BY <3>2, TransitionTypes, StatusNames DEF LeftBehind
    <3> QED BY <1>2, <3>1, <3>2 DEF Boot
  <2> QED BY <1>2, <2>1 DEF Boot, CallType, TaskType, OtherType, live, call, stop, task
<1>3. ASSUME BootRefused PROVE TypeOK'
  BY <1>3 DEF BootRefused, MissionType, RunType, CallType, TaskType, OtherType,
              mission, run, live, call, stop, task
<1> QED BY <1>1, <1>2, <1>3

(* Every step keeps the types.                                             *)
LEMMA StepTypes == TypeOK /\ [Next]_vars => TypeOK'
<1> SUFFICES ASSUME TypeOK, [Next]_vars PROVE TypeOK'
  OBVIOUS
<1>1. CASE UNCHANGED vars
  BY <1>1 DEF vars, TypeOK, MissionType, RunType, CallType, TaskType, OtherType,
              mission, run, live, call, stop, task
<1>2. CASE Next
  BY <1>2, CommandTypes, StartTypes, RunnerTypes, RestartTypes DEF Next
<1> QED BY <1>1, <1>2

(* The state is well-typed after any sequence of commands, runner steps,   *)
(* crashes and boots, and no run is planned for more than max_rounds.      *)
THEOREM TypeCorrect == Spec => []TypeOK
BY InitTypes, StepTypes, PTL DEF Spec

-----------------------------------------------------------------------------
(* Missions and their runs *)

(* The status of a mission that points at a run: the run's, once the run   *)
(* works; before that whatever the user made of the queued mission.        *)
LinkedStatus ==
    \A m \in Missions : mRun[m] # NoRun =>
        IF rStatus[mRun[m]] \in NetworkActive
        THEN mStatus[m] = rStatus[mRun[m]]
        ELSE mStatus[m] \in {"awaiting_action_approval", "queued", "stopped"}

NetworkLinked == \A m \in Missions : mStatus[m] \in NetworkActive => mRun[m] # NoRun

(* LinkAgreement alone is not inductive: when a run ends, sync_from_run_on *)
(* clears active_run_id only if the mission's status changes, so the       *)
(* statuses on both sides of the link are part of the invariant.           *)
Linked == LinkAgreement /\ LinkedStatus /\ NetworkLinked

(* What validate_transition lets happen to a run.                          *)
LEMMA RunMoveFacts ==
    ASSUME NEW s, NEW t, <<s, t>> \in RunMoves
    PROVE  /\ s \in ActiveRunStatus
           /\ t \in NetworkActive \cup Terminal
           /\ s = "queued" => t \notin {"stopped", "completed"}
BY DEF RunMoves, ActiveRunStatus, NetworkActive, Terminal, Cut

(* No mission leaves a terminal status.                                    *)
LEMMA MissionMoveFacts ==
    ASSUME NEW s, NEW t, <<s, t>> \in MissionMoves
    PROVE  s \notin Terminal
BY DEF MissionMoves, Terminal, NetworkActive, Cut

(* Names of statuses that the proofs below tell apart.                     *)
LEMMA StatusesApart ==
    /\ NetworkActive \cap Terminal = {}
    /\ ActiveRunStatus \cap Terminal = {}
    /\ NetworkActive \subseteq ActiveRunStatus
    /\ "queued" \in ActiveRunStatus /\ "queued" \notin NetworkActive
    /\ "none" \notin ActiveRunStatus \cup Terminal
    /\ (Waiting \cup {"queued", "stopped", "none"}) \cap NetworkActive = {}
    /\ (Waiting \cup {"queued", "none"}) \cap Terminal = {}
    /\ "completed" \in Terminal
    /\ Terminal \cap {"awaiting_action_approval", "queued", "stopped"} = {"stopped"}
BY DEF NetworkActive, ActiveRunStatus, Terminal, Waiting

(* transition_run keeps missions and runs linked.                          *)
LEMMA TransitionLinks ==
    ASSUME TypeOK, Linked, NEW r \in Runs, NEW status,
           CanTransition(r, status), TransitionRun(r, status)
    PROVE  Linked'
<1>1. /\ rStatus[r] \in ActiveRunStatus
      /\ status \in NetworkActive \cup Terminal
      /\ rStatus[r] = "queued" => status \notin {"stopped", "completed"}
  BY RunMoveFacts DEF CanTransition
<1>2. /\ rStatus' = [rStatus EXCEPT ![r] = status]
      /\ rMission' = rMission
  BY DEF TransitionRun
<1>3. /\ rStatus \in [Runs -> RunStatus] /\ rMission \in [Runs -> Missions \cup {NoMission}]
      /\ mStatus \in [Missions -> MissionStatus] /\ mRun \in [Missions -> Runs \cup {NoRun}]
  BY DEF TypeOK, RunType, MissionType
<1>4. CASE rMission[r] = NoMission
  <2>1. mStatus' = mStatus /\ mRun' = mRun
    BY <1>4 DEF TransitionRun, mission
  <2>2. \A n \in Missions : mRun[n] # r
    BY <1>4, NoMissionAssumption DEF Linked, LinkAgreement
  <2>3. LinkAgreement'
    BY <1>2, <1>3, <1>4, <2>1, <2>2, NoMissionAssumption DEF Linked, LinkAgreement
  <2>4. LinkedStatus' /\ NetworkLinked'
    BY <1>2, <1>3, <2>1, <2>2 DEF Linked, LinkedStatus, NetworkLinked
  <2> QED BY <2>3, <2>4 DEF Linked
<1>5. CASE rMission[r] # NoMission
  <2> DEFINE m == rMission[r]
             next == Mirror(m, status)
             gone == next \in Terminal \cup {"awaiting_manual_handoff"} /\ mStatus[m] # next
  <2>1. m \in Missions /\ mRun[m] = r
    BY <1>1, <1>3, <1>5 DEF Linked, LinkAgreement
  <2>2. /\ mStatus' = [mStatus EXCEPT ![m] = next]
        /\ mRun' = IF gone THEN [mRun EXCEPT ![m] = NoRun] ELSE mRun
    BY <1>5 DEF TransitionRun, SyncFromRun
  <2>3. \A n \in Missions : n # m => mRun[n] # r
    BY <1>3, <2>1 DEF Linked, LinkAgreement
  <2>4. r # NoRun
    BY NoRunAssumption
  <2>5. CASE status \in NetworkActive
    <3>1. next = status /\ ~gone
      BY <2>5, StatusesApart DEF Mirror, NetworkActive, Terminal
    <3>2. mRun' = mRun
      BY <2>2, <3>1
    <3>3. LinkAgreement'
      BY <1>1, <1>2, <1>3, <2>5, <3>2, StatusesApart DEF Linked, LinkAgreement
    <3>4. LinkedStatus' /\ NetworkLinked'
      <4> HIDE DEF next, gone
      <4> QED BY <1>2, <1>3, <2>1, <2>2, <2>3, <2>4, <2>5, <3>1, <3>2
              DEF Linked, LinkedStatus, NetworkLinked
    <3> QED BY <3>3, <3>4 DEF Linked
  <2>6. CASE status \in Terminal
    <3>1. next \in Terminal \cup {"awaiting_manual_handoff"}
      BY <2>6 DEF Mirror
    <3>2. mStatus[m] # next
      <4>1. CASE rStatus[r] \in NetworkActive
        <5>1. mStatus[m] = rStatus[r]
          BY <2>1, <2>4, <4>1 DEF Linked, LinkedStatus
        <5> QED BY <3>1, <4>1, <5>1, StatusesApart DEF Waiting
      <4>2. CASE rStatus[r] \notin NetworkActive
        <5>1. rStatus[r] = "queued"
          BY <1>1, <4>2 DEF ActiveRunStatus
        <5>2. mStatus[m] \in {"awaiting_action_approval", "queued", "stopped"}
          BY <2>1, <2>4, <4>2 DEF Linked, LinkedStatus
        <5>3. next = status /\ next \notin {"stopped", "completed"}
          BY <1>1, <5>1 DEF Mirror
        <5> QED BY <2>6, <5>2, <5>3 DEF Terminal
      <4> QED BY <4>1, <4>2
    <3>3. mRun' = [mRun EXCEPT ![m] = NoRun]
      BY <2>2, <3>1, <3>2
    <3>4. next \notin NetworkActive
      BY <3>1 DEF Terminal, NetworkActive
    <3> HIDE DEF next, gone
    <3>5. LinkAgreement'
      <4> SUFFICES ASSUME NEW n \in Missions, NEW q \in Runs
                   PROVE  mRun'[n] = q <=> rMission'[q] = n /\ rStatus'[q] \in ActiveRunStatus
        BY DEF LinkAgreement
      <4>1. mRun[n] = q <=> rMission[q] = n /\ rStatus[q] \in ActiveRunStatus
        BY DEF Linked, LinkAgreement
      <4>2. CASE q = r
        BY <1>2, <1>3, <2>1, <2>3, <2>4, <2>6, <3>3, <4>2, StatusesApart
      <4>3. CASE q # r
        <5>1. rStatus'[q] = rStatus[q] /\ rMission'[q] = rMission[q]
          BY <1>2, <1>3, <4>3
        <5>2. q # NoRun
          BY NoRunAssumption
        <5>3. mRun'[n] = q <=> mRun[n] = q
          BY <1>3, <2>1, <3>3, <4>3, <5>2
        <5> QED BY <4>1, <5>1, <5>3
      <4> QED BY <4>2, <4>3
    <3>6. LinkedStatus' /\ NetworkLinked'
      BY <1>2, <1>3, <2>1, <2>2, <2>3, <3>3, <3>4 DEF Linked, LinkedStatus, NetworkLinked
    <3> QED BY <3>5, <3>6 DEF Linked
  <2> QED BY <1>1, <2>5, <2>6
<1> QED BY <1>4, <1>5

links == <<mStatus, mRun, rStatus, rMission>>

(* A command that changes the status of a mission off the network, and     *)
(* nothing else of interest here, keeps the links.                         *)
LEMMA StatusChangeLinks ==
    ASSUME TypeOK, Linked, NEW m \in Missions, NEW s,
           mStatus[m] \notin NetworkActive,
           mStatus' = [mStatus EXCEPT ![m] = s],
           UNCHANGED <<mRun, rStatus, rMission>>,
           \/ s \in {"awaiting_action_approval", "queued", "stopped"}
           \/ s = "awaiting_context_approval" /\ mRun[m] = NoRun
    PROVE  Linked'
<1>1. mStatus \in [Missions -> MissionStatus]
  BY DEF TypeOK, MissionType
<1>2. LinkAgreement'
  BY DEF Linked, LinkAgreement
<1>3. s \notin NetworkActive
  BY DEF NetworkActive
<1>4. LinkedStatus'
  BY <1>1 DEF Linked, LinkedStatus
<1>5. NetworkLinked'
  BY <1>1, <1>3 DEF Linked, NetworkLinked
<1> QED BY <1>2, <1>4, <1>5 DEF Linked

(* A runner changes the links by transition_run only.                      *)
LEMMA RunnerMoves ==
    ASSUME NEW r \in Runs, Runner(r)
    PROVE  \/ UNCHANGED links
           \/ \E status : CanTransition(r, status) /\ TransitionRun(r, status)
<1> DEFINE ok == \/ UNCHANGED links
                 \/ \E status : CanTransition(r, status) /\ TransitionRun(r, status)
<1>1. /\ \A status, pc : Advance(r, status, pc) => ok
      /\ \A pc : GoTo(r, pc) => ok
      /\ \A end : Fail(r, end) => ok
  BY DEF Advance, GoTo, Fail, links, run, mission
<1>2. ASSUME \/ RunnerRecheck(r) \/ RunnerPlanned(r) \/ RunnerSelectRead(r)
             \/ RunnerSelectCommit(r) \/ RunnerRelease(r)
      PROVE  ok
  BY <1>2 DEF RunnerRecheck, RunnerPlanned, RunnerSelectRead, RunnerSelectCommit,
              RunnerRelease, GoTo, Fail, links, run, mission
<1>3. ASSUME FinalizeError(r) PROVE ok
  BY <1>3 DEF FinalizeError, links, run, mission
<1> HIDE DEF ok
<1>4. ASSUME \/ RunnerStart(r) \/ RunnerFault(r) \/ RunnerDiscover(r) \/ RunnerRound(r)
             \/ RunnerMaterialised(r) \/ RunnerExecute(r) \/ RunnerVerify(r)
             \/ RunnerFinish(r)
      PROVE  ok
  BY <1>1, <1>4 DEF RunnerStart, RunnerFault, RunnerDiscover, RunnerRound,
                    RunnerMaterialised, RunnerExecute, RunnerVerify, RunnerFinish
<1>5. ok
  BY <1>2, <1>3, <1>4 DEF Runner
<1> QED BY <1>5 DEF ok

(* No mission has a run at first.                                          *)
LEMMA LinkedInit == Init => Linked
<1> SUFFICES ASSUME Init PROVE Linked
  OBVIOUS
<1>1. LinkAgreement
  BY NoRunAssumption DEF Init, LinkAgreement, ActiveRunStatus, NetworkActive
<1>2. LinkedStatus /\ NetworkLinked
  BY DEF Init, LinkedStatus, NetworkLinked, NetworkActive
<1> QED BY <1>1, <1>2 DEF Linked

(* Every step keeps mission, link and run in agreement.                    *)
LEMMA LinkedStep == TypeOK /\ Linked /\ [Next]_vars => Linked'
<1> SUFFICES ASSUME TypeOK, Linked, [Next]_vars PROVE Linked'
  OBVIOUS
<1>0. ASSUME UNCHANGED links PROVE Linked'
  BY <1>0 DEF links, Linked, LinkAgreement, LinkedStatus, NetworkLinked
<1>1. CASE UNCHANGED vars
  BY <1>0, <1>1 DEF vars, mission, run, links
<1>2. CASE Command
  <2>1. ASSUME NEW m \in Missions, CreateMission(m) PROVE Linked'
    <3>1. mStatus[m] = "none" /\ mStatus[m] \notin NetworkActive
      BY <2>1 DEF CreateMission, NetworkActive
    <3>2. mRun[m] = NoRun
      BY <3>1, StatusesApart DEF Linked, LinkedStatus
    <3> QED BY <2>1, <3>1, <3>2, StatusChangeLinks DEF CreateMission, run
  <2>2. ASSUME NEW m \in Missions, ConfirmContext(m) PROVE Linked'
    <3>1. mStatus[m] \notin NetworkActive
      BY <2>2, StatusesApart DEF ConfirmContext, Reconfirmable
    <3>2. \E s \in {"awaiting_action_approval", "queued"} :
             mStatus' = [mStatus EXCEPT ![m] = s]
      BY <2>2 DEF ConfirmContext
    <3>3. UNCHANGED <<mRun, rStatus, rMission>>
      BY <2>2 DEF ConfirmContext, run
    <3> QED BY <3>1, <3>2, <3>3, StatusChangeLinks
  <2>3. ASSUME NEW m \in Missions, DecideAction(m) PROVE Linked'
    <3>1. mStatus[m] = "awaiting_action_approval" /\ mStatus[m] \notin NetworkActive
      BY <2>3, StatusesApart DEF DecideAction, NetworkActive
    <3>2. \E s \in {"awaiting_action_approval", "queued"} :
             mStatus' = [mStatus EXCEPT ![m] = s]
      BY <2>3, <3>1 DEF DecideAction
    <3>3. UNCHANGED <<mRun, rStatus, rMission>>
      BY <2>3 DEF DecideAction, run
    <3> QED BY <3>1, <3>2, <3>3, StatusChangeLinks
  <2>4. ASSUME NEW m \in Missions, RequestStop(m) PROVE Linked'
    <3>1. mStatus[m] \notin NetworkActive
      BY <2>4, StatusesApart DEF RequestStop, Stoppable
    <3> QED BY <2>4, <3>1, StatusChangeLinks DEF RequestStop, run
  <2>5. ASSUME NEW m \in Missions, SendMessage(m) \/ RequestStopRecord(m) PROVE Linked'
    BY <1>0, <2>5 DEF SendMessage, RequestStopRecord, links, mission, run
  <2>6. ASSUME NEW r \in Runs, CancelAssessment(r) PROVE Linked'
    BY <1>0, <2>6 DEF CancelAssessment, links, mission, run
  <2>7. ASSUME SetToolPermission \/ ChangeContract \/ RequestStopSignal PROVE Linked'
    BY <1>0, <2>7 DEF SetToolPermission, ChangeContract, RequestStopSignal, links,
                      mission, run
  <2> QED BY <1>2, <2>1, <2>2, <2>3, <2>4, <2>5, <2>6, <2>7 DEF Command
<1>3. ASSUME NEW c \in Callers, Start(c) PROVE Linked'
  <2>1. ASSUME NEW m \in Missions \cup {NoMission}, PrepareStart(c, m) PROVE Linked'
    BY <1>0, <2>1 DEF PrepareStart, links, mission, run
  <2>2. ASSUME StartRefused(c) \/ ClaimSlot(c) PROVE Linked'
    BY <1>0, <2>2 DEF StartRefused, ClaimSlot, links, mission, run
  <2>3. ASSUME ClaimBusy(c) PROVE Linked'
    <3>1. cRun[c] \in Runs
      BY <2>3 DEF ClaimBusy, TypeOK, CallType
    <3>2. CASE CanTransition(cRun[c], "failed")
      BY <2>3, <3>1, <3>2, TransitionLinks DEF ClaimBusy
    <3>3. CASE ~CanTransition(cRun[c], "failed")
      BY <1>0, <2>3, <3>3 DEF ClaimBusy, links, mission, run
    <3> QED BY <3>2, <3>3
  <2>4. ASSUME CreateAndLinkRun(c) PROVE Linked'
    <3>1. PICK r \in Runs :
            /\ rStatus[r] = "none"
            /\ rStatus' = [rStatus EXCEPT ![r] = "queued"]
            /\ rMission' = [rMission EXCEPT ![r] = cMission[c]]
            /\ mRun' = IF cMission[c] = NoMission THEN mRun
                       ELSE [mRun EXCEPT ![cMission[c]] = r]
      BY <2>4 DEF CreateAndLinkRun
    <3>2. /\ mStatus' = mStatus
          /\ cMission[c] # NoMission =>
               mStatus[cMission[c]] = "queued" /\ mRun[cMission[c]] = NoRun
      BY <2>4 DEF CreateAndLinkRun, MayLink
    <3>3. /\ rStatus \in [Runs -> RunStatus] /\ rMission \in [Runs -> Missions \cup {NoMission}]
          /\ mRun \in [Missions -> Runs \cup {NoRun}]
          /\ cMission[c] \in Missions \cup {NoMission}
      BY DEF TypeOK, RunType, MissionType, CallType
    <3>4. r # NoRun /\ \A n \in Missions : mRun[n] # r
      BY <3>1, StatusesApart, NoRunAssumption DEF Linked, LinkAgreement
    <3>5. LinkAgreement'
      <4> SUFFICES ASSUME NEW n \in Missions, NEW q \in Runs
                   PROVE  mRun'[n] = q <=> rMission'[q] = n /\ rStatus'[q] \in ActiveRunStatus
        BY DEF LinkAgreement
      <4>1. mRun[n] = q <=> rMission[q] = n /\ rStatus[q] \in ActiveRunStatus
        BY DEF Linked, LinkAgreement
      <4>2. CASE q = r
        BY <3>1, <3>3, <3>4, <4>2, NoMissionAssumption, StatusesApart
      <4>3. CASE q # r
        <5>1. rStatus'[q] = rStatus[q] /\ rMission'[q] = rMission[q]
          BY <3>1, <3>3, <4>3
        <5>2. mRun'[n] = q <=> mRun[n] = q
          BY <3>1, <3>2, <3>3, <4>3, NoRunAssumption
        <5> QED BY <4>1, <5>1, <5>2
      <4> QED BY <4>2, <4>3
    <3>6. LinkedStatus'
      <4> SUFFICES ASSUME NEW n \in Missions, mRun'[n] # NoRun
                   PROVE  IF rStatus'[mRun'[n]] \in NetworkActive
                          THEN mStatus'[n] = rStatus'[mRun'[n]]
                          ELSE mStatus'[n] \in {"awaiting_action_approval", "queued", "stopped"}
        BY DEF LinkedStatus
      <4>1. CASE n = cMission[c]
        <5>1. mRun'[n] = r /\ rStatus'[r] = "queued" /\ mStatus'[n] = "queued"
          BY <3>1, <3>2, <3>3, <4>1, NoMissionAssumption
        <5> QED BY <5>1, StatusesApart
      <4>2. CASE n # cMission[c]
        <5>1. mRun'[n] = mRun[n] /\ mRun[n] # r
          BY <3>1, <3>3, <3>4, <4>2
        <5>2. rStatus'[mRun[n]] = rStatus[mRun[n]]
          BY <3>1, <3>3, <5>1
        <5> QED BY <3>2, <5>1, <5>2 DEF Linked, LinkedStatus
      <4> QED BY <4>1, <4>2
    <3>7. NetworkLinked'
      BY <3>1, <3>2, <3>3, <3>4 DEF Linked, NetworkLinked
    <3> QED BY <3>5, <3>6, <3>7 DEF Linked
  <2> QED BY <1>3, <2>1, <2>2, <2>3, <2>4 DEF Start
<1>4. ASSUME NEW r \in Runs, Runner(r) PROVE Linked'
  BY <1>0, <1>4, RunnerMoves, TransitionLinks
<1>5. CASE Crash \/ BootRefused
  BY <1>0, <1>5 DEF Crash, BootRefused, links, mission, run
<1>6. CASE Boot
  <2>1. \/ UNCHANGED links
        \/ \E r \in Runs : CanTransition(r, "interrupted") /\ TransitionRun(r, "interrupted")
    BY <1>6 DEF Boot, LeftBehind, links, mission, run
  <2> QED BY <1>0, <2>1, TransitionLinks
<1> QED BY <1>1, <1>2, <1>3, <1>4, <1>5, <1>6 DEF Next

(* A mission points at a run exactly while that run is active and its own, *)
(* for every number of missions, runs and start commands in flight.        *)
THEOREM LinksAgree == Spec => []LinkAgreement
<1>1. Init => TypeOK /\ Linked
  BY InitTypes, LinkedInit
<1>2. TypeOK /\ Linked /\ [Next]_vars => (TypeOK /\ Linked)'
  BY StepTypes, LinkedStep
<1>3. Linked => LinkAgreement
  BY DEF Linked
<1> QED BY <1>1, <1>2, <1>3, PTL DEF Spec

(* Linked implies that both are on the network or neither is.              *)
LEMMA LinkedMirrors == TypeOK /\ Linked => MirrorAgreement
<1> SUFFICES ASSUME TypeOK, Linked PROVE MirrorAgreement
  OBVIOUS
<1>1. ASSUME NEW r \in Runs, rStatus[r] \in NetworkActive, rMission[r] # NoMission
      PROVE  mStatus[rMission[r]] = rStatus[r]
  <2>1. rMission[r] \in Missions
    BY <1>1 DEF TypeOK, RunType
  <2>2. mRun[rMission[r]] = r /\ r # NoRun
    BY <1>1, <2>1, StatusesApart, NoRunAssumption DEF Linked, LinkAgreement
  <2> QED BY <1>1, <2>1, <2>2 DEF Linked, LinkedStatus
<1>2. ASSUME NEW m \in Missions, mStatus[m] \in NetworkActive
      PROVE  \E r \in Runs : mRun[m] = r /\ rStatus[r] = mStatus[m]
  <2>1. mRun[m] # NoRun /\ mRun[m] \in Runs
    BY <1>2 DEF Linked, NetworkLinked, TypeOK, MissionType
  <2>2. mStatus[m] \notin {"awaiting_action_approval", "queued", "stopped"}
    BY <1>2 DEF NetworkActive
  <2>3. rStatus[mRun[m]] = mStatus[m]
    BY <2>1, <2>2 DEF Linked, LinkedStatus
  <2> QED BY <2>1, <2>3
<1> QED BY <1>1, <1>2 DEF MirrorAgreement

(* Mission and run agree about the network whatever commands reconfirm,    *)
(* stop or restart around them.                                            *)
THEOREM MirrorsAgree == Spec => []MirrorAgreement
<1>1. Init => TypeOK /\ Linked
  BY InitTypes, LinkedInit
<1>2. TypeOK /\ Linked /\ [Next]_vars => (TypeOK /\ Linked)'
  BY StepTypes, LinkedStep
<1> QED BY <1>1, <1>2, LinkedMirrors, PTL DEF Spec

-----------------------------------------------------------------------------
(* Ended missions and runs *)

(* Neither transition table leads out of a terminal status, and a mission  *)
(* whose mirror would not change is not written.                           *)
LEMMA TransitionIsFinal ==
    ASSUME TypeOK, NEW r \in Runs, NEW status,
           CanTransition(r, status), TransitionRun(r, status)
    PROVE  /\ \A m \in Missions : mStatus[m] \in Terminal => mStatus'[m] = mStatus[m]
           /\ \A q \in Runs : rStatus[q] \in Terminal => rStatus'[q] = rStatus[q]
<1>1. /\ rStatus \in [Runs -> RunStatus] /\ mStatus \in [Missions -> MissionStatus]
  BY DEF TypeOK, RunType, MissionType
<1>2. rStatus[r] \notin Terminal
  BY RunMoveFacts, StatusesApart DEF CanTransition
<1>3. \A q \in Runs : rStatus[q] \in Terminal => rStatus'[q] = rStatus[q]
  BY <1>1, <1>2 DEF TransitionRun
<1>4. ASSUME NEW m \in Missions, mStatus[m] \in Terminal PROVE mStatus'[m] = mStatus[m]
  <2>1. CASE rMission[r] = NoMission
    BY <2>1 DEF TransitionRun, mission
  <2>2. CASE rMission[r] # NoMission
    <3>1. /\ CanSync(rMission[r], status)
          /\ mStatus' = [mStatus EXCEPT ![rMission[r]] = Mirror(rMission[r], status)]
      BY <2>2 DEF CanTransition, TransitionRun, SyncFromRun
    <3>2. CASE rMission[r] = m
      <4>1. mStatus[m] = Mirror(m, status)
        BY <1>4, <3>1, <3>2, MissionMoveFacts DEF CanSync
      <4> QED BY <1>1, <3>1, <3>2, <4>1
    <3>3. CASE rMission[r] # m
      BY <1>1, <3>1, <3>3
    <3> QED BY <3>2, <3>3
  <2> QED BY <2>1, <2>2
<1> QED BY <1>3, <1>4

Ends ==
    /\ \A m \in Missions : mStatus[m] \in Terminal => mStatus'[m] = mStatus[m]
    /\ \A r \in Runs : rStatus[r] \in Terminal => rStatus'[r] = rStatus[r]

(* No step moves what has ended.                                           *)
LEMMA StepIsFinal == TypeOK /\ [Next]_vars => Ends
<1> SUFFICES ASSUME TypeOK, [Next]_vars PROVE Ends
  OBVIOUS
<1>0. ASSUME UNCHANGED <<mStatus, rStatus>> PROVE Ends
  BY <1>0 DEF Ends
<1>1. CASE UNCHANGED vars
  BY <1>0, <1>1 DEF vars, mission, run
<1>2. ASSUME NEW m \in Missions, NEW s, mStatus[m] \notin Terminal,
             mStatus' = [mStatus EXCEPT ![m] = s], UNCHANGED rStatus
      PROVE  Ends
  BY <1>2 DEF Ends, TypeOK, MissionType
<1>3. CASE Command
  <2>1. ASSUME NEW m \in Missions,
               CreateMission(m) \/ ConfirmContext(m) \/ DecideAction(m) \/ RequestStop(m)
        PROVE  Ends
    <3>1. mStatus[m] \notin Terminal
      BY <2>1, StatusesApart
         DEF CreateMission, ConfirmContext, DecideAction, RequestStop, Reconfirmable,
             Stoppable, Waiting
    <3>2. \E s : mStatus' = [mStatus EXCEPT ![m] = s]
      BY <2>1 DEF CreateMission, ConfirmContext, DecideAction, RequestStop
    <3>3. UNCHANGED rStatus
      BY <2>1 DEF CreateMission, ConfirmContext, DecideAction, RequestStop, run
    <3> QED BY <1>2, <3>1, <3>2, <3>3
  <2>2. ASSUME NEW m \in Missions, SendMessage(m) \/ RequestStopRecord(m) PROVE Ends
    BY <1>0, <2>2 DEF SendMessage, RequestStopRecord, mission, run
  <2>3. ASSUME NEW r \in Runs, CancelAssessment(r) PROVE Ends
    BY <1>0, <2>3 DEF CancelAssessment, mission, run
  <2>4. ASSUME SetToolPermission \/ ChangeContract \/ RequestStopSignal PROVE Ends
    BY <1>0, <2>4 DEF SetToolPermission, ChangeContract, RequestStopSignal, mission, run
  <2> QED BY <1>3, <2>1, <2>2, <2>3, <2>4 DEF Command
<1>4. ASSUME NEW c \in Callers, Start(c) PROVE Ends
  <2>1. ASSUME NEW m \in Missions \cup {NoMission}, PrepareStart(c, m) PROVE Ends
    BY <1>0, <2>1 DEF PrepareStart, mission, run
  <2>2. ASSUME StartRefused(c) \/ ClaimSlot(c) PROVE Ends
    BY <1>0, <2>2 DEF StartRefused, ClaimSlot, mission, run
  <2>3. ASSUME ClaimBusy(c) PROVE Ends
    <3>1. cRun[c] \in Runs
      BY <2>3 DEF ClaimBusy, TypeOK, CallType
    <3>2. CASE CanTransition(cRun[c], "failed")
      BY <2>3, <3>1, <3>2, TransitionIsFinal DEF ClaimBusy, Ends
    <3>3. CASE ~CanTransition(cRun[c], "failed")
      BY <1>0, <2>3, <3>3 DEF ClaimBusy, mission, run
    <3> QED BY <3>2, <3>3
  <2>4. ASSUME CreateAndLinkRun(c) PROVE Ends
    <3>1. PICK r \in Runs : /\ rStatus[r] = "none"
                            /\ rStatus' = [rStatus EXCEPT ![r] = "queued"]
      BY <2>4 DEF CreateAndLinkRun
    <3>2. UNCHANGED mStatus
      BY <2>4 DEF CreateAndLinkRun
    <3> QED BY <3>1, <3>2, StatusesApart DEF Ends, TypeOK, RunType
  <2> QED BY <1>4, <2>1, <2>2, <2>3, <2>4 DEF Start
<1>5. ASSUME NEW r \in Runs, Runner(r) PROVE Ends
  BY <1>0, <1>5, RunnerMoves, TransitionIsFinal DEF Ends, links
<1>6. CASE Crash \/ BootRefused
  BY <1>0, <1>6 DEF Crash, BootRefused, mission, run
<1>7. CASE Boot
  <2>1. \/ UNCHANGED <<mStatus, rStatus>>
        \/ \E r \in Runs : CanTransition(r, "interrupted") /\ TransitionRun(r, "interrupted")
    BY <1>7 DEF Boot, LeftBehind, mission, run
  <2> QED BY <1>0, <2>1, TransitionIsFinal DEF Ends
<1> QED BY <1>1, <1>3, <1>4, <1>5, <1>6, <1>7 DEF Next

(* No command, late runner step, crash or boot changes how a mission or a  *)
(* run ended.                                                              *)
THEOREM EndsAreFinal == Spec => TerminalIsFinal
<1>1. TypeOK /\ [Next]_vars => [Ends]_vars
  BY StepIsFinal
<1> QED BY <1>1, TypeCorrect, PTL DEF Spec, TerminalIsFinal, Ends
-----------------------------------------------------------------------------
(* The slot and its runner *)

(* At most one run is active (the unique index on active runs).            *)
OneActiveRun ==
    \A q, r \in Runs :
        rStatus[q] \in ActiveRunStatus /\ rStatus[r] \in ActiveRunStatus => q = r

(* Tasks and commands in flight die with the process.                      *)
NothingRunsDown ==
    app # "up" => /\ \A r \in Runs : tPc[r] = "none"
                  /\ \A c \in Callers : cPc[c] = "idle"

SlotHeld == \A r \in Runs : tPc[r] # "none" <=> slot.run = r

(* A run between its insertion and its admission belongs to one start      *)
(* command, which is the only one to move it.                              *)
RunsWithoutTask ==
    /\ \A r \in Runs : rStatus[r] = "none" => tPc[r] = "none"
    /\ \A c \in Callers : cPc[c] = "linked" =>
          /\ tPc[cRun[c]] = "none" /\ rStatus[cRun[c]] = "queued"
          /\ \A d \in Callers \ {c} : cPc[d] = "linked" => cRun[d] # cRun[c]

(* A run on the network has a runner that has not come to its end: the     *)
(* task never gives its guard back over a run it left working.             *)
RunnersBehind ==
    app = "up" => \A r \in Runs : rStatus[r] \in NetworkActive
                                      => tPc[r] \notin {"none", "release"}

(* SlotAgreement is not inductive: it needs the start commands, which may  *)
(* run beside the runner, and the state of the process.                    *)
Slots == OneActiveRun /\ NothingRunsDown /\ SlotHeld /\ RunsWithoutTask /\ RunnersBehind

(* A run that works on the network can always be cut short: its mission    *)
(* has the same status, and both tables allow it.  So finalize_error,      *)
(* whose own failures are dropped, never has one then.                     *)
LEMMA CutIsLegal ==
    ASSUME TypeOK, Linked, NEW r \in Runs, rStatus[r] \in NetworkActive, NEW end \in Cut
    PROVE  CanTransition(r, end)
<1>1. \A s \in NetworkActive : <<s, end>> \in RunMoves /\ <<s, end>> \in MissionMoves
  BY DEF RunMoves, MissionMoves, NetworkActive
<1>2. end # "completed" /\ end \notin NetworkActive
  BY DEF Cut, Terminal, NetworkActive
<1>3. ASSUME rMission[r] # NoMission PROVE CanSync(rMission[r], end)
  <2>1. mStatus[rMission[r]] = rStatus[r]
    BY <1>3, LinkedMirrors DEF MirrorAgreement
  <2>2. Mirror(rMission[r], end) = end
    BY <1>2 DEF Mirror
  <2> QED BY <1>1, <1>2, <2>1, <2>2 DEF CanSync
<1> QED BY <1>1, <1>3 DEF CanTransition

(* What a runner's step does to its task and to the slot.                  *)
LEMMA TaskMoves ==
    ASSUME TypeOK, NEW r \in Runs, Runner(r)
    PROVE  /\ app = "up" /\ tPc[r] # "none"
           /\ UNCHANGED <<app, call, stop>>
           /\ \/ RunnerRelease(r)
              \/ /\ slot' = slot
                 /\ \E pc \in TaskPc \ {"none"} :
                      /\ tPc' = [tPc EXCEPT ![r] = pc]
                      /\ pc = "selecting" => RunnerSelectRead(r)
                      /\ pc = "release" =>
                            \/ \E end \in Terminal :
                                 CanTransition(r, end) /\ TransitionRun(r, end)
                            \/ ~CanTransition(r, tEnd[r]) /\ UNCHANGED rStatus
<1> DEFINE moved ==
             \E pc \in TaskPc \ {"none"} :
                /\ tPc' = [tPc EXCEPT ![r] = pc]
                /\ pc = "selecting" => RunnerSelectRead(r)
                /\ pc = "release" =>
                      \/ \E end \in Terminal : CanTransition(r, end) /\ TransitionRun(r, end)
                      \/ ~CanTransition(r, tEnd[r]) /\ UNCHANGED rStatus
<1>1. app = "up" /\ tPc[r] # "none"
  BY DEF Runner, RunnerStart, RunnerFault, RunnerDiscover, RunnerRound, RunnerRecheck,
         RunnerPlanned, RunnerSelectRead, RunnerSelectCommit, RunnerMaterialised,
         RunnerExecute, RunnerVerify, RunnerFinish, FinalizeError, RunnerRelease, TaskAt
<1>2. /\ UNCHANGED <<app, call, stop>>
      /\ RunnerRelease(r) \/ slot' = slot
  BY DEF Runner, RunnerStart, RunnerFault, RunnerDiscover, RunnerRound, RunnerRecheck,
         RunnerPlanned, RunnerSelectRead, RunnerSelectCommit, RunnerMaterialised,
         RunnerExecute, RunnerVerify, RunnerFinish, FinalizeError, RunnerRelease, Elsewhere
<1>3. /\ \A status \in NetworkActive, pc \in TaskPc \ {"none", "selecting", "release"} :
            Advance(r, status, pc) => moved
      /\ \A end \in Terminal : Advance(r, end, "release") => moved
      /\ \A pc \in TaskPc \ {"none", "selecting", "release"} : GoTo(r, pc) => moved
      /\ \A end : Fail(r, end) => moved
  BY DEF Advance, GoTo, Fail, TaskPc
<1>4. /\ {"spawned", "discover", "round", "recheck", "await", "planned", "materialised",
          "execute", "verify", "halt", "finish", "error"}
             \subseteq TaskPc \ {"none", "selecting", "release"}
      /\ {"discovering", "planning", "executing", "verifying"} \subseteq NetworkActive
      /\ {"completed", "stopped", "cancelled"} \subseteq Terminal
  BY DEF TaskPc, NetworkActive, Terminal
<1>5. ASSUME RunnerSelectRead(r) PROVE moved
  <2>1. CASE GoTo(r, "selecting")
    <3>1. /\ tPc' = [tPc EXCEPT ![r] = "selecting"]
          /\ "selecting" \in TaskPc \ {"none"} /\ "selecting" # "release"
      BY <2>1 DEF GoTo, TaskPc
    <3> QED BY <1>5, <3>1
  <2>2. CASE Fail(r, "failed")
    BY <1>3, <2>2
  <2> QED BY <1>5, <2>1, <2>2 DEF RunnerSelectRead
<1>6. ASSUME FinalizeError(r) PROVE moved
  <2>1. tPc' = [tPc EXCEPT ![r] = "release"] /\ "release" \in TaskPc \ {"none", "selecting"}
    BY <1>6 DEF FinalizeError, TaskPc
  <2>2. \/ CanTransition(r, tEnd[r]) /\ TransitionRun(r, tEnd[r])
        \/ ~CanTransition(r, tEnd[r]) /\ UNCHANGED rStatus
    BY <1>6 DEF FinalizeError, run
  <2>3. tEnd[r] \in Terminal
    BY DEF TypeOK, TaskType, Cut
  <2> QED BY <2>1, <2>2, <2>3
<1>7. ASSUME RunnerPlanned(r) \/ RunnerSelectCommit(r) PROVE moved
  <2>1. \/ \E end : Fail(r, end)
        \/ \E pc \in {"finish", "materialised", "planned"} : tPc' = [tPc EXCEPT ![r] = pc]
    BY <1>7 DEF RunnerPlanned, RunnerSelectCommit
  <2>2. CASE \E end : Fail(r, end)
    BY <1>3, <2>2
  <2>3. CASE \E pc \in {"finish", "materialised", "planned"} : tPc' = [tPc EXCEPT ![r] = pc]
    BY <1>4, <2>3
  <2> QED BY <2>1, <2>2, <2>3
<1> HIDE DEF moved
<1>8. ASSUME \/ RunnerStart(r) \/ RunnerFault(r) \/ RunnerDiscover(r) \/ RunnerRound(r)
             \/ RunnerRecheck(r) \/ RunnerMaterialised(r) \/ RunnerExecute(r)
             \/ RunnerVerify(r) \/ RunnerFinish(r)
      PROVE  moved
  BY <1>3, <1>4, <1>8 DEF RunnerStart, RunnerFault, RunnerDiscover, RunnerRound,
     RunnerRecheck, RunnerMaterialised, RunnerExecute, RunnerVerify, RunnerFinish
<1>9. moved \/ RunnerRelease(r)
  BY <1>5, <1>6, <1>7, <1>8 DEF Runner
<1> QED BY <1>1, <1>2, <1>9 DEF moved

(* transition_run leaves all other runs alone and moves an active one.     *)
LEMMA TransitionRuns ==
    ASSUME TypeOK, NEW r \in Runs, NEW status,
           CanTransition(r, status), TransitionRun(r, status)
    PROVE  /\ rStatus[r] \in ActiveRunStatus /\ rStatus'[r] = status
           /\ status \in NetworkActive \cup Terminal
           /\ \A q \in Runs \ {r} : rStatus'[q] = rStatus[q]
           /\ \A q \in Runs : rStatus'[q] \in ActiveRunStatus => rStatus[q] \in ActiveRunStatus
           /\ \A q \in Runs : rStatus'[q] = "none" => rStatus[q] = "none"
<1>1. /\ rStatus[r] \in ActiveRunStatus /\ status \in NetworkActive \cup Terminal
      /\ rStatus' = [rStatus EXCEPT ![r] = status]
  BY RunMoveFacts DEF CanTransition, TransitionRun
<1>2. rStatus \in [Runs -> RunStatus]
  BY DEF TypeOK, RunType
<1> QED BY <1>1, <1>2, StatusesApart

(* No run, no task and no start command at first.                          *)
LEMMA SlotsInit == Init => Slots
<1> SUFFICES ASSUME Init PROVE Slots
  OBVIOUS
<1>1. OneActiveRun /\ RunnersBehind
  BY DEF Init, OneActiveRun, RunnersBehind, ActiveRunStatus, NetworkActive
<1>2. NothingRunsDown /\ SlotHeld /\ RunsWithoutTask
  BY NoRunAssumption DEF Init, FreeSlot, NothingRunsDown, SlotHeld, RunsWithoutTask
<1> QED BY <1>1, <1>2 DEF Slots

(* A runner's step keeps slot, tasks and runs in agreement.                *)
LEMMA RunnerSlots ==
    ASSUME TypeOK, Linked, Slots, NEW r \in Runs, Runner(r)
    PROVE  Slots'
<1>0. /\ OneActiveRun /\ NothingRunsDown /\ SlotHeld /\ RunsWithoutTask /\ RunnersBehind
      /\ tPc \in [Runs -> TaskPc] /\ rStatus \in [Runs -> RunStatus]
  BY DEF Slots, TypeOK, TaskType, RunType
<1>1. app = "up" /\ tPc[r] # "none" /\ UNCHANGED <<app, cPc, cRun>>
  BY TaskMoves DEF call
<1>2. /\ \A q \in Runs \ {r} : rStatus'[q] = rStatus[q]
      /\ \A q \in Runs : rStatus'[q] \in ActiveRunStatus => rStatus[q] \in ActiveRunStatus
      /\ \A q \in Runs : rStatus'[q] = "none" => rStatus[q] = "none"
  BY RunnerMoves, TransitionRuns DEF links
<1>3. /\ slot.run = r
      /\ \A c \in Callers : cPc[c] = "linked" => cRun[c] \in Runs /\ cRun[c] # r
  BY <1>0, <1>1 DEF SlotHeld, RunsWithoutTask, TypeOK, CallType
<1>4. OneActiveRun'
  BY <1>0, <1>2 DEF OneActiveRun
<1>5. NothingRunsDown'
  BY <1>1 DEF NothingRunsDown
<1>6. CASE RunnerRelease(r)
  <2>1. /\ tPc' = [tPc EXCEPT ![r] = "none"] /\ slot' = FreeSlot
        /\ rStatus' = rStatus /\ tPc[r] = "release"
    BY <1>3, <1>6 DEF RunnerRelease, TaskEnds, Released, TaskAt, run
  <2>2. SlotHeld'
    BY <1>0, <1>3, <2>1, NoRunAssumption DEF SlotHeld, FreeSlot
  <2>3. RunsWithoutTask'
    BY <1>0, <1>1, <1>3, <2>1 DEF RunsWithoutTask
  <2>4. RunnersBehind'
    BY <1>0, <1>1, <2>1 DEF RunnersBehind
  <2> QED BY <1>4, <1>5, <2>2, <2>3, <2>4 DEF Slots
<1>7. CASE ~RunnerRelease(r)
  <2>1. PICK pc \in TaskPc \ {"none"} :
           /\ tPc' = [tPc EXCEPT ![r] = pc]
           /\ pc = "release" =>
                 \/ \E end \in Terminal : CanTransition(r, end) /\ TransitionRun(r, end)
                 \/ ~CanTransition(r, tEnd[r]) /\ UNCHANGED rStatus
    BY <1>7, TaskMoves
  <2>2. slot' = slot
    BY <1>7, TaskMoves
  <2>3. SlotHeld'
    BY <1>0, <1>1, <2>1, <2>2 DEF SlotHeld
  <2>4. RunsWithoutTask'
    <3>1. ASSUME NEW q \in Runs, rStatus'[q] = "none" PROVE tPc'[q] = "none"
      BY <1>0, <1>1, <1>2, <2>1, <3>1 DEF RunsWithoutTask
    <3>2. ASSUME NEW c \in Callers, cPc'[c] = "linked"
          PROVE  /\ tPc'[cRun'[c]] = "none" /\ rStatus'[cRun'[c]] = "queued"
                 /\ \A d \in Callers \ {c} : cPc'[d] = "linked" => cRun'[d] # cRun'[c]
      BY <1>0, <1>1, <1>2, <1>3, <2>1, <3>2 DEF RunsWithoutTask
    <3> QED BY <3>1, <3>2 DEF RunsWithoutTask
  <2>5. pc = "release" => rStatus'[r] \notin NetworkActive
    <3>1. CASE \E end \in Terminal : CanTransition(r, end) /\ TransitionRun(r, end)
      BY <3>1, TransitionRuns, StatusesApart
    <3>2. CASE ~CanTransition(r, tEnd[r]) /\ UNCHANGED rStatus
      BY <3>2, CutIsLegal DEF TypeOK, TaskType
    <3> QED BY <2>1, <3>1, <3>2
  <2>6. RunnersBehind'
    BY <1>0, <1>1, <1>2, <2>1, <2>5 DEF RunnersBehind
  <2> QED BY <1>4, <1>5, <2>3, <2>4, <2>6 DEF Slots
<1> QED BY <1>6, <1>7

(* So does every step of a start command ...                               *)
LEMMA StartSlots ==
    ASSUME TypeOK, Linked, Slots, NEW c \in Callers, Start(c)
    PROVE  Slots'
<1>0. /\ OneActiveRun /\ NothingRunsDown /\ SlotHeld /\ RunsWithoutTask /\ RunnersBehind
      /\ tPc \in [Runs -> TaskPc] /\ rStatus \in [Runs -> RunStatus]
      /\ cPc \in [Callers -> {"idle", "prepared", "linked"}]
      /\ cRun \in [Callers -> Runs \cup {NoRun}]
      /\ \A d \in Callers : cPc[d] = "linked" => cRun[d] \in Runs
  BY DEF Slots, TypeOK, TaskType, RunType, CallType
<1>1. ASSUME app = "up", UNCHANGED <<app, rStatus, tPc, slot>>,
             \A d \in Callers : cPc'[d] = "linked" => cPc[d] = "linked" /\ cRun'[d] = cRun[d]
      PROVE  Slots'
  <2>1. OneActiveRun' /\ NothingRunsDown' /\ SlotHeld' /\ RunnersBehind'
    BY <1>0, <1>1 DEF OneActiveRun, NothingRunsDown, SlotHeld, RunnersBehind
  <2>2. RunsWithoutTask'
    BY <1>0, <1>1 DEF RunsWithoutTask
  <2> QED BY <2>1, <2>2 DEF Slots
<1>2. ASSUME NEW m \in Missions \cup {NoMission}, PrepareStart(c, m) PROVE Slots'
  <2>1. app = "up" /\ UNCHANGED <<app, rStatus, tPc, slot, cRun>>
        /\ cPc' = [cPc EXCEPT ![c] = "prepared"]
    BY <1>2 DEF PrepareStart, run, task
  <2> QED BY <1>0, <1>1, <2>1
<1>3. ASSUME StartRefused(c) PROVE Slots'
  <2>1. app = "up" /\ UNCHANGED <<app, rStatus, tPc, slot>>
        /\ cPc' = [cPc EXCEPT ![c] = "idle"] /\ cRun' = [cRun EXCEPT ![c] = NoRun]
    BY <1>3 DEF StartRefused, CallEnds, run, task
  <2> QED BY <1>0, <1>1, <2>1
<1>4. ASSUME CreateAndLinkRun(c) PROVE Slots'
  <2>1. PICK r \in Runs :
          /\ rStatus[r] = "none" /\ rStatus' = [rStatus EXCEPT ![r] = "queued"]
          /\ cRun' = [cRun EXCEPT ![c] = r]
    BY <1>4 DEF CreateAndLinkRun
  <2>2. /\ app = "up" /\ cPc[c] = "prepared" /\ cPc' = [cPc EXCEPT ![c] = "linked"]
        /\ UNCHANGED <<app, slot, tPc>> /\ NoActiveRun
    BY <1>4 DEF CreateAndLinkRun, MayLink, task
  <2>3. OneActiveRun'
    BY <1>0, <2>1, <2>2 DEF OneActiveRun, NoActiveRun
  <2>4. NothingRunsDown' /\ SlotHeld'
    BY <1>0, <2>2 DEF NothingRunsDown, SlotHeld
  <2>5. tPc[r] = "none"
    BY <1>0, <2>1 DEF RunsWithoutTask
  <2>6. \A d \in Callers : cPc[d] = "linked" => FALSE
    BY <1>0, <2>2 DEF RunsWithoutTask, NoActiveRun, ActiveRunStatus
  <2>7. RunsWithoutTask'
    BY <1>0, <2>1, <2>2, <2>5, <2>6 DEF RunsWithoutTask
  <2>8. RunnersBehind'
    BY <1>0, <2>1, <2>2, StatusesApart DEF RunnersBehind
  <2> QED BY <2>3, <2>4, <2>7, <2>8 DEF Slots
<1>5. ASSUME ClaimSlot(c) PROVE Slots'
  <2>1. /\ app = "up" /\ cPc[c] = "linked" /\ slot.run = NoRun
        /\ slot'.run = cRun[c] /\ tPc' = [tPc EXCEPT ![cRun[c]] = "spawned"]
        /\ cPc' = [cPc EXCEPT ![c] = "idle"] /\ cRun' = [cRun EXCEPT ![c] = NoRun]
        /\ UNCHANGED <<app, rStatus>>
    BY <1>5 DEF ClaimSlot, SlotFree, CallEnds, run
  <2>2. cRun[c] \in Runs /\ rStatus[cRun[c]] = "queued"
    BY <1>0, <2>1 DEF RunsWithoutTask
  <2>3. OneActiveRun' /\ NothingRunsDown'
    BY <1>0, <2>1 DEF OneActiveRun, NothingRunsDown
  <2>4. SlotHeld'
    <3>1. \A q \in Runs : tPc[q] = "none"
      BY <1>0, <2>1, NoRunAssumption DEF SlotHeld
    <3> QED BY <1>0, <2>1, <2>2, <3>1 DEF SlotHeld
  <2>5. RunsWithoutTask'
    <3>1. ASSUME NEW q \in Runs, rStatus'[q] = "none" PROVE tPc'[q] = "none"
      BY <1>0, <2>1, <2>2, <3>1 DEF RunsWithoutTask
    <3>2. ASSUME NEW d \in Callers, cPc'[d] = "linked"
          PROVE  /\ d # c /\ cPc[d] = "linked" /\ cRun'[d] = cRun[d]
                 /\ cRun[d] \in Runs /\ cRun[d] # cRun[c]
      BY <1>0, <2>1, <3>2 DEF RunsWithoutTask
    <3>3. ASSUME NEW d \in Callers, cPc'[d] = "linked"
          PROVE  /\ tPc'[cRun'[d]] = "none" /\ rStatus'[cRun'[d]] = "queued"
                 /\ \A e \in Callers \ {d} : cPc'[e] = "linked" => cRun'[e] # cRun'[d]
      BY <1>0, <2>1, <3>2, <3>3 DEF RunsWithoutTask
    <3> QED BY <3>1, <3>3 DEF RunsWithoutTask
  <2>6. RunnersBehind'
    BY <1>0, <2>1, <2>2 DEF RunnersBehind
  <2> QED BY <2>3, <2>4, <2>5, <2>6 DEF Slots
<1>6. ASSUME ClaimBusy(c) PROVE Slots'
  <2>1. /\ app = "up" /\ cPc[c] = "linked" /\ UNCHANGED <<app, slot, tPc>>
        /\ cPc' = [cPc EXCEPT ![c] = "idle"] /\ cRun' = [cRun EXCEPT ![c] = NoRun]
    BY <1>6 DEF ClaimBusy, CallEnds, task
  <2>2. cRun[c] \in Runs /\ rStatus[cRun[c]] = "queued" /\ tPc[cRun[c]] = "none"
    BY <1>0, <2>1 DEF RunsWithoutTask
  <2>3. CASE CanTransition(cRun[c], "failed")
    <3>1. /\ \A q \in Runs \ {cRun[c]} : rStatus'[q] = rStatus[q]
          /\ rStatus'[cRun[c]] = "failed"
          /\ \A q \in Runs : rStatus'[q] \in ActiveRunStatus => rStatus[q] \in ActiveRunStatus
      BY <1>6, <2>2, <2>3, TransitionRuns DEF ClaimBusy
    <3>2. OneActiveRun' /\ NothingRunsDown' /\ SlotHeld'
      BY <1>0, <2>1, <3>1 DEF OneActiveRun, NothingRunsDown, SlotHeld
    <3>3. RunsWithoutTask'
      <4>1. ASSUME NEW q \in Runs, rStatus'[q] = "none" PROVE tPc'[q] = "none"
        BY <1>0, <2>1, <3>1, <4>1 DEF RunsWithoutTask
      <4>2. ASSUME NEW d \in Callers, cPc'[d] = "linked"
            PROVE  /\ d # c /\ cPc[d] = "linked" /\ cRun'[d] = cRun[d]
                   /\ cRun[d] \in Runs /\ cRun[d] # cRun[c]
        BY <1>0, <2>1, <4>2 DEF RunsWithoutTask
      <4>3. ASSUME NEW d \in Callers, cPc'[d] = "linked"
            PROVE  /\ tPc'[cRun'[d]] = "none" /\ rStatus'[cRun'[d]] = "queued"
                   /\ \A e \in Callers \ {d} : cPc'[e] = "linked" => cRun'[e] # cRun'[d]
        BY <1>0, <2>1, <3>1, <4>2, <4>3 DEF RunsWithoutTask
      <4> QED BY <4>1, <4>3 DEF RunsWithoutTask
    <3>4. "failed" \notin NetworkActive
      BY DEF NetworkActive
    <3>5. RunnersBehind'
      BY <1>0, <2>1, <3>1, <3>4 DEF RunnersBehind
    <3> QED BY <3>2, <3>3, <3>5 DEF Slots
  <2>4. CASE ~CanTransition(cRun[c], "failed")
    <3>1. rStatus' = rStatus
      BY <1>6, <2>4 DEF ClaimBusy, run
    <3> QED BY <1>0, <1>1, <2>1, <3>1
  <2> QED BY <2>3, <2>4
<1> QED BY <1>2, <1>3, <1>4, <1>5, <1>6 DEF Start

(* ... and every other step; a crash ends all tasks at once, and a boot    *)
(* finds at most one run to interrupt.                                     *)
LEMMA SlotsStep == TypeOK /\ Linked /\ Slots /\ [Next]_vars => Slots'
<1> SUFFICES ASSUME TypeOK, Linked, Slots, [Next]_vars PROVE Slots'
  OBVIOUS
<1>0. /\ OneActiveRun /\ NothingRunsDown /\ SlotHeld /\ RunsWithoutTask /\ RunnersBehind
      /\ tPc \in [Runs -> TaskPc] /\ rStatus \in [Runs -> RunStatus]
  BY DEF Slots, TypeOK, TaskType, RunType
<1>1. ASSUME UNCHANGED <<app, rStatus, tPc, cPc, cRun>>, slot'.run = slot.run PROVE Slots'
  <2>1. OneActiveRun' /\ NothingRunsDown' /\ SlotHeld' /\ RunnersBehind'
    BY <1>0, <1>1 DEF OneActiveRun, NothingRunsDown, SlotHeld, RunnersBehind
  <2>2. RunsWithoutTask'
    BY <1>0, <1>1 DEF RunsWithoutTask
  <2> QED BY <2>1, <2>2 DEF Slots
<1>2. CASE UNCHANGED vars
  BY <1>1, <1>2 DEF vars, run, task, call
<1>3. CASE Command
  <2>1. UNCHANGED <<app, rStatus, tPc, cPc, cRun>>
    BY <1>3 DEF Command, CreateMission, ConfirmContext, SendMessage, DecideAction,
       RequestStop, RequestStopRecord, CancelAssessment, SetToolPermission, ChangeContract,
       RequestStopSignal, run, task, call
  <2>2. slot' = slot \/ \E r : SignalCancel(r)
    BY <1>3 DEF Command, CreateMission, ConfirmContext, SendMessage, DecideAction,
       RequestStop, RequestStopRecord, CancelAssessment, SetToolPermission, ChangeContract,
       RequestStopSignal
  <2>3. slot'.run = slot.run
    BY <2>2 DEF SignalCancel, TypeOK, OtherType
  <2> QED BY <1>1, <2>1, <2>3
<1>4. CASE \E c \in Callers : Start(c)
  BY <1>4, StartSlots
<1>5. CASE \E r \in Runs : Runner(r)
  BY <1>5, RunnerSlots
<1>6. CASE Crash
  <2>1. /\ app' = "down" /\ slot'.run = NoRun /\ rStatus' = rStatus
        /\ \A r \in Runs : tPc'[r] = "none"
        /\ \A c \in Callers : cPc'[c] = "idle"
    BY <1>6 DEF Crash, FreeSlot, run
  <2>2. OneActiveRun' /\ NothingRunsDown' /\ RunnersBehind'
    BY <1>0, <2>1 DEF OneActiveRun, NothingRunsDown, RunnersBehind
  <2>3. SlotHeld' /\ RunsWithoutTask'
    BY <2>1, NoRunAssumption DEF SlotHeld, RunsWithoutTask
  <2> QED BY <2>2, <2>3 DEF Slots
<1>7. CASE Boot
  <2>1. app = "down" /\ UNCHANGED <<slot, tPc, cPc, cRun>>
    BY <1>7 DEF Boot, call, task
  <2>2. /\ \A r \in Runs : tPc[r] = "none"
        /\ \A c \in Callers : cPc[c] = "idle"
    BY <1>0, <2>1 DEF NothingRunsDown
  <2>3. /\ \A r \in Runs : rStatus'[r] \notin NetworkActive
        /\ OneActiveRun'
    <3>1. CASE LeftBehind = {} /\ UNCHANGED rStatus
      BY <1>0, <3>1, StatusesApart DEF LeftBehind, OneActiveRun
    <3>2. CASE \E r \in LeftBehind : /\ CanTransition(r, "interrupted")
                                     /\ TransitionRun(r, "interrupted")
      <4>1. PICK r \in Runs : /\ CanTransition(r, "interrupted")
                              /\ TransitionRun(r, "interrupted")
        BY <3>2 DEF LeftBehind
      <4>2. /\ rStatus[r] \in ActiveRunStatus /\ rStatus'[r] = "interrupted"
            /\ \A q \in Runs \ {r} : rStatus'[q] = rStatus[q]
            /\ \A q \in Runs : rStatus'[q] \in ActiveRunStatus => rStatus[q] \in ActiveRunStatus
        BY <4>1, TransitionRuns
      <4>3. "interrupted" \notin NetworkActive
        BY DEF NetworkActive
      <4> QED BY <1>0, <4>2, <4>3, StatusesApart DEF OneActiveRun
    <3> QED BY <1>7, <3>1, <3>2 DEF Boot, run
  <2>4. NothingRunsDown' /\ SlotHeld' /\ RunnersBehind'
    BY <1>0, <2>1, <2>2, <2>3 DEF NothingRunsDown, SlotHeld, RunnersBehind
  <2>5. RunsWithoutTask'
    BY <2>1, <2>2 DEF RunsWithoutTask
  <2> QED BY <2>3, <2>4, <2>5 DEF Slots
<1>8. CASE BootRefused
  <2>1. app = "down" /\ app' = "refused" /\ UNCHANGED <<rStatus, tPc, cPc, cRun, slot>>
    BY <1>8 DEF BootRefused, run, call, task
  <2>2. OneActiveRun' /\ NothingRunsDown' /\ SlotHeld' /\ RunnersBehind'
    BY <1>0, <2>1 DEF OneActiveRun, NothingRunsDown, SlotHeld, RunnersBehind
  <2>3. RunsWithoutTask'
    BY <1>0, <2>1 DEF RunsWithoutTask
  <2> QED BY <2>2, <2>3 DEF Slots
<1> QED BY <1>2, <1>3, <1>4, <1>5, <1>6, <1>7, <1>8 DEF Next

(* Every reachable state satisfies the invariants of this module so far.   *)
LEMMA CoreInvariant == Spec => [](TypeOK /\ Linked /\ Slots)
<1>1. Init => TypeOK /\ Linked /\ Slots
  BY InitTypes, LinkedInit, SlotsInit
<1>2. TypeOK /\ Linked /\ Slots /\ [Next]_vars => (TypeOK /\ Linked /\ Slots)'
  BY StepTypes, LinkedStep, SlotsStep
<1> QED BY <1>1, <1>2, PTL DEF Spec

(* The slot is held by the one live runner, and no run works on the        *)
(* network without it, for any number of start commands racing for the     *)
(* slot, cancellations, faults, crashes and boots.                         *)
THEOREM SlotsAgree == Spec => []SlotAgreement
<1>1. Slots => SlotAgreement
  BY DEF Slots, SlotHeld, RunnersBehind, SlotAgreement
<1> QED BY <1>1, CoreInvariant, PTL

-----------------------------------------------------------------------------
(* What a boot recovers *)

(* A boot ends the one active run with its mission, and a mission that has *)
(* that run but waits for the user, or has ended, would make it fail.      *)
LEMMA BootStep ==
    ASSUME TypeOK, Linked, Slots, Boot
    PROVE  /\ \A r \in Runs : rStatus'[r] \notin ActiveRunStatus
           /\ \A m \in Missions :
                /\ mStatus'[m] \notin NetworkActive
                /\ mStatus[m] \in Waiting \cup Terminal
                       => mStatus'[m] = mStatus[m] /\ acts'[m] = acts[m]
<1>0. /\ mStatus \in [Missions -> MissionStatus] /\ acts \in [Missions -> ActionTables]
      /\ rStatus \in [Runs -> RunStatus]
  BY DEF TypeOK, MissionType, RunType
<1>1. \A m \in Missions : mStatus[m] \in NetworkActive
                             => \E r \in Runs : mRun[m] = r /\ rStatus[r] = mStatus[m]
  BY LinkedMirrors DEF MirrorAgreement
<1>2. CASE LeftBehind = {} /\ UNCHANGED <<run, mission>>
  <2>1. \A r \in Runs : rStatus[r] \notin ActiveRunStatus
    BY <1>2 DEF LeftBehind
  <2> QED BY <1>1, <1>2, <2>1, StatusesApart DEF run, mission
<1>3. CASE \E r \in LeftBehind : /\ CanTransition(r, "interrupted")
                                 /\ TransitionRun(r, "interrupted")
  <2>1. PICK r \in Runs : CanTransition(r, "interrupted") /\ TransitionRun(r, "interrupted")
    BY <1>3 DEF LeftBehind
  <2>2. /\ rStatus[r] \in ActiveRunStatus /\ rStatus'[r] = "interrupted"
        /\ \A q \in Runs \ {r} : rStatus'[q] = rStatus[q]
    BY <2>1, TransitionRuns
  <2>3. \A q \in Runs : rStatus'[q] \notin ActiveRunStatus
    <3>1. "interrupted" \notin ActiveRunStatus
      BY DEF ActiveRunStatus, NetworkActive
    <3> QED BY <2>2, <3>1 DEF Slots, OneActiveRun
  <2>4. ASSUME NEW m \in Missions, rMission[r] # m
        PROVE  mStatus'[m] = mStatus[m] /\ acts'[m] = acts[m] /\ mStatus[m] \notin NetworkActive
    <3>1. mStatus'[m] = mStatus[m] /\ acts'[m] = acts[m]
      BY <1>0, <2>1, <2>4 DEF TransitionRun, SyncFromRun, mission
    <3>2. ASSUME mStatus[m] \in NetworkActive PROVE FALSE
      <4>1. PICK q \in Runs : mRun[m] = q /\ rStatus[q] = mStatus[m]
        BY <1>1, <3>2
      <4>2. q = r
        BY <2>2, <3>2, <4>1, StatusesApart DEF Slots, OneActiveRun
      <4> QED BY <2>4, <4>1, <4>2 DEF Linked, LinkAgreement
    <3> QED BY <3>1, <3>2
  <2>5. ASSUME rMission[r] \in Missions
        PROVE  /\ mStatus[rMission[r]] \notin Waiting \cup Terminal
               /\ mStatus'[rMission[r]] = "interrupted"
    <3> DEFINE m == rMission[r]
    <3>1. m # NoMission /\ mRun[m] = r /\ r # NoRun
      BY <2>2, <2>5, NoMissionAssumption, NoRunAssumption DEF Linked, LinkAgreement
    <3>2. Mirror(m, "interrupted") = "interrupted"
      BY DEF Mirror
    <3>3. mStatus' = [mStatus EXCEPT ![m] = "interrupted"]
      BY <2>1, <3>1, <3>2 DEF TransitionRun, SyncFromRun
    <3>4. mStatus[m] = "interrupted" \/ <<mStatus[m], "interrupted">> \in MissionMoves
      BY <2>1, <3>1, <3>2 DEF CanTransition, CanSync
    <3>5. mStatus[m] \in NetworkActive \cup {"awaiting_action_approval", "queued", "stopped"}
      BY <2>5, <3>1 DEF Linked, LinkedStatus
    <3>6. mStatus[m] \in NetworkActive \cup {"queued"}
      BY <3>4, <3>5 DEF MissionMoves, NetworkActive, Cut, Terminal
    <3>7. mStatus[m] \notin Waiting \cup Terminal
      BY <3>6 DEF Waiting, Terminal, NetworkActive
    <3> QED BY <1>0, <2>5, <3>3, <3>7
  <2>6. "interrupted" \notin NetworkActive
    BY DEF NetworkActive
  <2> QED BY <2>3, <2>4, <2>5, <2>6
<1> QED BY <1>2, <1>3 DEF Boot

(* Only Boot starts the process.                                           *)
LEMMA OnlyBootStarts ==
    ASSUME TypeOK, [Next]_vars, app = "down", app' = "up" PROVE Boot
<1>1. CASE UNCHANGED vars
  BY <1>1 DEF vars
<1>2. CASE Command
  BY <1>2 DEF Command, CreateMission, ConfirmContext, SendMessage, DecideAction,
     RequestStop, RequestStopRecord, CancelAssessment, SetToolPermission, ChangeContract,
     RequestStopSignal, MainThreadFree
<1>3. CASE \E c \in Callers : Start(c)
  BY <1>3 DEF Start, PrepareStart, CreateAndLinkRun, StartRefused, ClaimSlot, ClaimBusy
<1>4. CASE \E r \in Runs : Runner(r)
  BY <1>4, TaskMoves
<1>5. CASE Crash \/ BootRefused
  BY <1>5 DEF Crash, BootRefused
<1> QED BY <1>1, <1>2, <1>3, <1>4, <1>5 DEF Next

(* Whatever state the process died in, a boot that succeeds leaves no run  *)
(* active and no mission on the network, and hands every mission that      *)
(* waited for the user back untouched.                                     *)
THEOREM BootsRecover == Spec => BootRecovers
<1> DEFINE recovered ==
             app = "down" /\ app' = "up" =>
               /\ \A r \in Runs : rStatus'[r] \notin ActiveRunStatus
               /\ \A m \in Missions :
                    /\ mStatus'[m] \notin NetworkActive
                    /\ mStatus[m] \in Waiting \cup Terminal
                           => mStatus'[m] = mStatus[m] /\ acts'[m] = acts[m]
<1>1. TypeOK /\ Linked /\ Slots /\ [Next]_vars => recovered
  <2> SUFFICES ASSUME TypeOK, Linked, Slots, [Next]_vars, app = "down", app' = "up"
               PROVE  recovered
    OBVIOUS
  <2>1. Boot
    BY OnlyBootStarts
  <2> QED BY <2>1, BootStep
<1> HIDE DEF recovered
<1>2. TypeOK /\ Linked /\ Slots /\ [Next]_vars => [recovered]_vars
  BY <1>1
<1>3. Spec => [][recovered]_vars
  BY <1>2, CoreInvariant, PTL DEF Spec
<1> QED BY <1>3 DEF recovered, BootRecovers

-----------------------------------------------------------------------------
(* Approvals *)

(* Selecting a recipe and closing what was queued leave the rows that wait *)
(* for an approval as they are, and never add one.                         *)
LEMMA AwaitingKept ==
    ASSUME NEW table \in ActionTables
    PROVE  /\ \A tools : AwaitingApproval(SelectManual(table, tools)) = AwaitingApproval(table)
           /\ AwaitingApproval(SyncActions(table)) = AwaitingApproval(table)
<1>1. \A a \in ActionIds : table[a] \in Action
  BY DEF ActionTables
<1>2. ASSUME NEW tools
      PROVE  AwaitingApproval(SelectManual(table, tools)) = AwaitingApproval(table)
  <2> SUFFICES ASSUME NEW a \in ActionIds
               PROVE  LET new == SelectManual(table, tools)[a]
                      IN new.approval = "pending" /\ new.status = "awaiting_approval"
                         <=> table[a].approval = "pending"
                             /\ table[a].status = "awaiting_approval"
    BY DEF AwaitingApproval
  <2> QED BY <1>1 DEF SelectManual, Selectable, Action
<1>3. AwaitingApproval(SyncActions(table)) = AwaitingApproval(table)
  BY <1>1 DEF AwaitingApproval, SyncActions, CloseActions, Action
<1> QED BY <1>2, <1>3

(* transition_run of the run r, seen from one mission: the mission is left *)
(* alone, or it is the run's own and moves as its table allows.            *)
LEMMA TransitionMission ==
    ASSUME TypeOK, NEW r \in Runs, NEW status, NEW m \in Missions,
           CanTransition(r, status), TransitionRun(r, status)
    PROVE  /\ mApproved' = mApproved
           /\ \/ mStatus'[m] = mStatus[m] /\ acts'[m] = acts[m]
              \/ /\ rMission[r] = m
                 /\ mStatus'[m] = Mirror(m, status) /\ mStatus'[m] # mStatus[m]
                 /\ <<mStatus[m], mStatus'[m]>> \in MissionMoves
                 /\ mStatus'[m] \in NetworkActive => MayBeNetworkActive(m)
                 /\ acts'[m] = IF mStatus'[m] \in Terminal \cup {"awaiting_manual_handoff"}
                               THEN SyncActions(acts[m])
                               ELSE acts[m]
<1>0. mStatus \in [Missions -> MissionStatus] /\ acts \in [Missions -> ActionTables]
  BY DEF TypeOK, MissionType
<1>1. mApproved' = mApproved
  BY DEF TransitionRun, SyncFromRun, mission
<1>2. CASE rMission[r] # m
  BY <1>0, <1>1, <1>2 DEF TransitionRun, SyncFromRun, mission
<1>3. CASE rMission[r] = m
  <2> DEFINE next == Mirror(m, status)
  <2>1. m # NoMission
    BY NoMissionAssumption
  <2>2. /\ mStatus[m] = next \/ /\ <<mStatus[m], next>> \in MissionMoves
                                /\ next \in NetworkActive => MayBeNetworkActive(m)
        /\ mStatus' = [mStatus EXCEPT ![m] = next]
        /\ acts' = IF /\ next \in Terminal \cup {"awaiting_manual_handoff"}
                      /\ mStatus[m] # next
                   THEN [acts EXCEPT ![m] = SyncActions(@)]
                   ELSE acts
    BY <1>3, <2>1 DEF CanTransition, CanSync, TransitionRun, SyncFromRun
  <2> HIDE DEF next
  <2>3. mStatus'[m] = next
    BY <1>0, <2>2
  <2>4. CASE mStatus[m] = next
    BY <1>1, <2>2, <2>3, <2>4
  <2>5. CASE mStatus[m] # next
    <3>1. acts'[m] = IF next \in Terminal \cup {"awaiting_manual_handoff"}
                     THEN SyncActions(acts[m])
                     ELSE acts[m]
      BY <1>0, <2>2, <2>5
    <3> QED BY <1>1, <1>3, <2>2, <2>3, <2>5, <3>1 DEF next
  <2> QED BY <2>4, <2>5
<1> QED BY <1>2, <1>3

(* Where the mission table lets the mirror of a run lead.                  *)
LEMMA MirrorMoves ==
    ASSUME NEW s, NEW t, <<s, t>> \in MissionMoves
    PROVE  /\ t \in NetworkActive => s \in NetworkActive \cup {"queued"}
           /\ t = "awaiting_manual_handoff" => s \in NetworkActive
           /\ s # "none"
BY DEF MissionMoves, NetworkActive, Terminal, Cut

(* A runner writes the action table of its own mission only, and only by   *)
(* transition_run or by selecting recipes.                                 *)
LEMMA RunnerActs ==
    ASSUME TypeOK, NEW r \in Runs, Runner(r)
    PROVE  \/ UNCHANGED <<mStatus, acts, mApproved>>
           \/ \E status : CanTransition(r, status) /\ TransitionRun(r, status)
           \/ /\ tPc[r] = "selecting" /\ UNCHANGED <<mStatus, mApproved>>
              /\ \E chosen : /\ r \in overtaken => chosen = {}
                             /\ acts' = [acts EXCEPT ![rMission[r]] = SelectManual(@, chosen)]
<1> DEFINE ok == \/ UNCHANGED <<mStatus, acts, mApproved>>
                 \/ \E status : CanTransition(r, status) /\ TransitionRun(r, status)
<1>1. /\ \A status, pc : Advance(r, status, pc) => ok
      /\ \A pc : GoTo(r, pc) => ok
      /\ \A end : Fail(r, end) => ok
  BY DEF Advance, GoTo, Fail, run, mission
<1>2. ASSUME RunnerRecheck(r) \/ RunnerPlanned(r) \/ RunnerSelectRead(r) \/ RunnerRelease(r)
      PROVE  ok
  BY <1>2 DEF RunnerRecheck, RunnerPlanned, RunnerSelectRead, RunnerRelease, GoTo, Fail,
              run, mission
<1>3. ASSUME FinalizeError(r) PROVE ok
  BY <1>3 DEF FinalizeError, run, mission
<1> HIDE DEF ok
<1>4. ASSUME \/ RunnerStart(r) \/ RunnerFault(r) \/ RunnerDiscover(r) \/ RunnerRound(r)
             \/ RunnerMaterialised(r) \/ RunnerExecute(r) \/ RunnerVerify(r)
             \/ RunnerFinish(r)
      PROVE  ok
  BY <1>1, <1>4 DEF RunnerStart, RunnerFault, RunnerDiscover, RunnerRound,
                    RunnerMaterialised, RunnerExecute, RunnerVerify, RunnerFinish
<1>5. ASSUME RunnerSelectCommit(r)
      PROVE  \/ ok
             \/ /\ tPc[r] = "selecting" /\ UNCHANGED <<mStatus, mApproved>>
                /\ \E chosen : /\ r \in overtaken => chosen = {}
                               /\ acts' = [acts EXCEPT ![rMission[r]] = SelectManual(@, chosen)]
  <2>1. PICK chosen : IF chosen # {} /\ r \in overtaken
                      THEN Fail(r, "failed")
                      ELSE /\ acts' = [acts EXCEPT ![rMission[r]] = SelectManual(@, chosen)]
                           /\ UNCHANGED <<mStatus, mApproved>>
    BY <1>5 DEF RunnerSelectCommit
  <2>2. tPc[r] = "selecting"
    BY <1>5 DEF RunnerSelectCommit, TaskAt
  <2> QED BY <1>1, <2>1, <2>2
<1> QED BY <1>2, <1>3, <1>4, <1>5 DEF Runner, ok

(* ApprovalAgreement is inductive: a decision or a confirmation moves the  *)
(* status together with the table it read, and the mirror of a run takes a *)
(* mission to a network status or to the handoff only from the queue or    *)
(* from the network.                                                       *)
LEMMA ApprovalStep == TypeOK /\ ApprovalAgreement /\ [Next]_vars => ApprovalAgreement'
<1> DEFINE agrees(m, s, table, approved) ==
             /\ s = "awaiting_action_approval" => AwaitingApproval(table) # {}
             /\ s \in NetworkActive \cup {"queued", "awaiting_manual_handoff"}
                    => approved /\ AwaitingApproval(table) = {}
<1> SUFFICES ASSUME TypeOK, ApprovalAgreement, [Next]_vars, NEW m \in Missions
             PROVE  agrees(m, mStatus'[m], acts'[m], mApproved'[m])
  BY DEF ApprovalAgreement
<1>0. /\ agrees(m, mStatus[m], acts[m], mApproved[m])
      /\ mStatus \in [Missions -> MissionStatus] /\ acts \in [Missions -> ActionTables]
      /\ mApproved \in [Missions -> BOOLEAN]
  BY DEF ApprovalAgreement, TypeOK, MissionType
<1>1. ASSUME UNCHANGED <<mStatus, acts, mApproved>>
      PROVE  agrees(m, mStatus'[m], acts'[m], mApproved'[m])
  BY <1>0, <1>1
<1>2. ASSUME NEW r \in Runs, NEW status, CanTransition(r, status), TransitionRun(r, status)
      PROVE  agrees(m, mStatus'[m], acts'[m], mApproved'[m])
  <2>1. CASE mStatus'[m] = mStatus[m] /\ acts'[m] = acts[m]
    BY <1>0, <1>2, <2>1, TransitionMission
  <2>2. CASE ~(mStatus'[m] = mStatus[m] /\ acts'[m] = acts[m])
    <3>1. /\ mStatus'[m] = Mirror(m, status) /\ mApproved' = mApproved
          /\ <<mStatus[m], mStatus'[m]>> \in MissionMoves
          /\ acts'[m] \in {acts[m], SyncActions(acts[m])}
      BY <1>2, <2>2, TransitionMission
    <3>2. AwaitingApproval(acts'[m]) = AwaitingApproval(acts[m])
      BY <1>0, <3>1, AwaitingKept
    <3>3. mStatus'[m] \in NetworkActive \cup Terminal \cup {"awaiting_manual_handoff"}
      BY <1>2, <3>1, RunMoveFacts DEF CanTransition, Mirror
    <3>4. mStatus'[m] \notin {"queued", "awaiting_action_approval"}
      BY <3>3 DEF NetworkActive, Terminal
    <3> QED BY <1>0, <3>1, <3>2, <3>4, MirrorMoves
  <2> QED BY <2>1, <2>2
<1>3. CASE UNCHANGED vars
  BY <1>1, <1>3 DEF vars, mission
<1>4. CASE Command
  <2>1. ASSUME NEW n \in Missions, CreateMission(n)
        PROVE  agrees(m, mStatus'[m], acts'[m], mApproved'[m])
    <3>1. /\ mStatus' = [mStatus EXCEPT ![n] = "awaiting_context_approval"]
          /\ UNCHANGED <<acts, mApproved>>
      BY <2>1 DEF CreateMission
    <3> QED BY <1>0, <3>1 DEF NetworkActive
  <2>2. ASSUME NEW n \in Missions, ConfirmContext(n)
        PROVE  agrees(m, mStatus'[m], acts'[m], mApproved'[m])
    <3> DEFINE table == PrepareActions(acts[n], mGen[n] + 1, perm)
    <3>1. /\ acts' = [acts EXCEPT ![n] = table]
          /\ mStatus' = [mStatus EXCEPT ![n] = IF AwaitingApproval(table) # {}
                                               THEN "awaiting_action_approval"
                                               ELSE "queued"]
          /\ mApproved' = [mApproved EXCEPT ![n] = TRUE]
      BY <2>2 DEF ConfirmContext, ApprovalsOpen
    <3> HIDE DEF table
    <3> QED BY <1>0, <3>1 DEF NetworkActive
  <2>3. ASSUME NEW n \in Missions, DecideAction(n)
        PROVE  agrees(m, mStatus'[m], acts'[m], mApproved'[m])
    <3>1. PICK table : /\ acts' = [acts EXCEPT ![n] = table]
                       /\ mStatus' = [mStatus EXCEPT ![n] = IF AwaitingApproval(table) # {}
                                                            THEN @ ELSE "queued"]
      BY <2>3 DEF DecideAction, ApprovalsOpen
    <3>2. mStatus[n] = "awaiting_action_approval" /\ mApproved[n] /\ mApproved' = mApproved
      BY <2>3 DEF DecideAction, Integrity
    <3> QED BY <1>0, <3>1, <3>2 DEF NetworkActive
  <2>4. ASSUME NEW n \in Missions, RequestStop(n)
        PROVE  agrees(m, mStatus'[m], acts'[m], mApproved'[m])
    <3>1. PICK table : /\ mStatus' = [mStatus EXCEPT ![n] = "stopped"]
                       /\ acts' = [acts EXCEPT ![n] = table]
                       /\ mApproved' = mApproved
      BY <2>4 DEF RequestStop
    <3> QED BY <1>0, <3>1 DEF NetworkActive
  <2>5. ASSUME NEW n \in Missions, SendMessage(n) \/ RequestStopRecord(n)
        PROVE  UNCHANGED <<mStatus, acts, mApproved>>
    BY <2>5 DEF SendMessage, RequestStopRecord, mission
  <2>6. ASSUME NEW r \in Runs, CancelAssessment(r) PROVE UNCHANGED <<mStatus, acts, mApproved>>
    BY <2>6 DEF CancelAssessment, mission
  <2>7. ASSUME SetToolPermission \/ ChangeContract \/ RequestStopSignal
        PROVE  UNCHANGED <<mStatus, acts, mApproved>>
    BY <2>7 DEF SetToolPermission, ChangeContract, RequestStopSignal, mission
  <2> HIDE DEF agrees
  <2> QED BY <1>1, <1>4, <2>1, <2>2, <2>3, <2>4, <2>5, <2>6, <2>7 DEF Command
<1>5. ASSUME NEW c \in Callers, Start(c)
      PROVE  agrees(m, mStatus'[m], acts'[m], mApproved'[m])
  <2>1. CASE ClaimBusy(c) /\ CanTransition(cRun[c], "failed")
    <3>1. cRun[c] \in Runs /\ TransitionRun(cRun[c], "failed")
      BY <2>1 DEF ClaimBusy, TypeOK, CallType
    <3> HIDE DEF agrees
    <3> QED BY <1>2, <2>1, <3>1
  <2>2. CASE ~(ClaimBusy(c) /\ CanTransition(cRun[c], "failed"))
    <3>1. UNCHANGED <<mStatus, acts, mApproved>>
      BY <1>5, <2>2 DEF Start, PrepareStart, CreateAndLinkRun, StartRefused, ClaimSlot,
                        ClaimBusy, mission
    <3> QED BY <1>1, <3>1
  <2> QED BY <2>1, <2>2
<1>6. ASSUME NEW r \in Runs, Runner(r)
      PROVE  agrees(m, mStatus'[m], acts'[m], mApproved'[m])
  <2>1. ASSUME NEW chosen, UNCHANGED <<mStatus, mApproved>>,
               acts' = [acts EXCEPT ![rMission[r]] = SelectManual(@, chosen)]
        PROVE  agrees(m, mStatus'[m], acts'[m], mApproved'[m])
    <3>1. AwaitingApproval(acts'[m]) = AwaitingApproval(acts[m])
      BY <1>0, <2>1, AwaitingKept
    <3> QED BY <1>0, <2>1, <3>1
  <2> HIDE DEF agrees
  <2> QED BY <1>1, <1>2, <1>6, <2>1, RunnerActs
<1>7. CASE Crash \/ BootRefused
  BY <1>1, <1>7 DEF Crash, BootRefused, mission
<1>8. CASE Boot
  <2>1. \/ UNCHANGED <<mStatus, acts, mApproved>>
        \/ \E r \in Runs : CanTransition(r, "interrupted") /\ TransitionRun(r, "interrupted")
    BY <1>8 DEF Boot, LeftBehind, mission
  <2> HIDE DEF agrees
  <2> QED BY <1>1, <1>2, <2>1
<1> HIDE DEF agrees
<1> QED BY <1>3, <1>4, <1>5, <1>6, <1>7, <1>8 DEF Next

(* No mission is queued, works or is handed over with an action still to   *)
(* be decided or a context not confirmed, and none waits for a decision    *)
(* that nobody can make.                                                   *)
THEOREM ApprovalsAgree == Spec => []ApprovalAgreement
<1>1. Init => ApprovalAgreement
  BY DEF Init, ApprovalAgreement, NetworkActive
<1> QED BY <1>1, ApprovalStep, TypeCorrect, PTL DEF Spec

-----------------------------------------------------------------------------
(* Manual handoffs *)

(* A selection whose read has not been overtaken commits to the mission it *)
(* read: still at work under this run, so not over.                        *)
FreshSelection ==
    \A r \in Runs :
        tPc[r] = "selecting" /\ r \notin overtaken /\ rMission[r] \in Missions
            => mRun[rMission[r]] = r /\ mStatus[rMission[r]] = "planning"

(* A command that changes the status of a mission overtakes its runner.    *)
LEMMA BumpKeepsFresh ==
    ASSUME TypeOK, FreshSelection, NEW m \in Missions, NEW s,
           mStatus' = [mStatus EXCEPT ![m] = s], Bump(m),
           UNCHANGED <<mRun, rMission, tPc>>
    PROVE  FreshSelection'
<1> SUFFICES ASSUME NEW r \in Runs, tPc[r] = "selecting", r \notin overtaken',
                    rMission[r] \in Missions
             PROVE  mRun[rMission[r]] = r /\ mStatus'[rMission[r]] = "planning"
  BY DEF FreshSelection
<1>1. r \notin overtaken /\ rMission[r] # m
  BY DEF Bump
<1> QED BY <1>1 DEF FreshSelection, TypeOK, MissionType

(* While one run is being selected for, transition_run of another does not *)
(* touch its mission.                                                      *)
LEMMA TransitionKeepsFresh ==
    ASSUME TypeOK, Linked, FreshSelection, NEW q \in Runs, NEW status,
           CanTransition(q, status), TransitionRun(q, status),
           UNCHANGED overtaken,
           \A r \in Runs \ {q} : tPc'[r] = tPc[r],
           tPc'[q] # "selecting"
    PROVE  FreshSelection'
<1> SUFFICES ASSUME NEW r \in Runs, tPc'[r] = "selecting", r \notin overtaken,
                    rMission[r] \in Missions
             PROVE  mRun'[rMission[r]] = r /\ mStatus'[rMission[r]] = "planning"
  BY DEF FreshSelection, TransitionRun
<1>1. r # q /\ mRun[rMission[r]] = r /\ mStatus[rMission[r]] = "planning"
  BY DEF FreshSelection
<1>2. rStatus[q] \in ActiveRunStatus
  BY RunMoveFacts DEF CanTransition
<1>3. rMission[q] # rMission[r]
  BY <1>1, <1>2 DEF Linked, LinkAgreement
<1>4. mRun \in [Missions -> Runs \cup {NoRun}] /\ mStatus \in [Missions -> MissionStatus]
  BY DEF TypeOK, MissionType
<1>5. mRun'[rMission[r]] = mRun[rMission[r]] /\ mStatus'[rMission[r]] = mStatus[rMission[r]]
  BY <1>3, <1>4 DEF TransitionRun, SyncFromRun, mission
<1> QED BY <1>1, <1>5

(* The runner of r either starts a selection it has just read, or is at no *)
(* selection after its step; other runners' selections are left alone.     *)
LEMMA RunnerFresh ==
    ASSUME TypeOK, Linked, FreshSelection, NEW r \in Runs, Runner(r)
    PROVE  FreshSelection'
<1>0. tPc \in [Runs -> TaskPc]
  BY DEF TypeOK, TaskType
<1>1. CASE RunnerSelectRead(r)
  <2>1. /\ overtaken' = overtaken \ {r} /\ UNCHANGED <<mission, run>>
        /\ \/ /\ tPc' = [tPc EXCEPT ![r] = "selecting"]
              /\ mRun[rMission[r]] = r /\ mStatus[rMission[r]] = "planning"
           \/ tPc' = [tPc EXCEPT ![r] = "error"]
    BY <1>1 DEF RunnerSelectRead, GoTo, Fail
  <2> QED BY <1>0, <2>1 DEF FreshSelection, mission, run
<1>2. CASE ~RunnerSelectRead(r)
  <2>1. tPc'[r] # "selecting" /\ \A q \in Runs \ {r} : tPc'[q] = tPc[q]
    BY <1>0, <1>2, TaskMoves DEF RunnerRelease, TaskEnds
  <2>2. \A q \in Runs \ {r} : q \in overtaken' <=> q \in overtaken
    BY DEF Runner, RunnerStart, RunnerFault, RunnerDiscover, RunnerRound, RunnerRecheck,
       RunnerPlanned, RunnerSelectRead, RunnerSelectCommit, RunnerMaterialised,
       RunnerExecute, RunnerVerify, RunnerFinish, FinalizeError, RunnerRelease
  <2>3. CASE UNCHANGED links
    BY <2>1, <2>2, <2>3 DEF FreshSelection, links
  <2>4. ASSUME NEW status, CanTransition(r, status), TransitionRun(r, status)
        PROVE  FreshSelection'
    <3>1. CASE UNCHANGED overtaken
      BY <2>1, <2>4, <3>1, TransitionKeepsFresh
    <3>2. CASE ~UNCHANGED overtaken
      <4>1. RunnerSelectCommit(r)
        BY <1>2, <3>2 DEF Runner, RunnerStart, RunnerFault, RunnerDiscover, RunnerRound,
           RunnerRecheck, RunnerPlanned, RunnerMaterialised, RunnerExecute, RunnerVerify,
           RunnerFinish, FinalizeError, RunnerRelease
      <4>2. UNCHANGED links
        BY <4>1 DEF RunnerSelectCommit, Fail, links, run, mission
      <4> QED BY <2>3, <4>2
    <3> QED BY <3>1, <3>2
  <2> QED BY <2>3, <2>4, RunnerMoves
<1> QED BY <1>1, <1>2

(* Every step keeps fresh selections fresh: a start command whose run is   *)
(* failed for want of the slot moves a run without a task, and after a     *)
(* crash there is no selection.                                            *)
LEMMA FreshStep ==
    TypeOK /\ Linked /\ Slots /\ FreshSelection /\ [Next]_vars => FreshSelection'
<1> SUFFICES ASSUME TypeOK, Linked, Slots, FreshSelection, [Next]_vars
             PROVE  FreshSelection'
  OBVIOUS
<1>1. ASSUME UNCHANGED <<mRun, mStatus, rMission, tPc>>, overtaken \subseteq overtaken'
      PROVE  FreshSelection'
  BY <1>1 DEF FreshSelection
<1>2. CASE UNCHANGED vars
  BY <1>1, <1>2 DEF vars, mission, run, task
<1>3. CASE Command
  <2>1. ASSUME NEW m \in Missions, ConfirmContext(m) \/ DecideAction(m) \/ RequestStop(m)
        PROVE  FreshSelection'
    <3>1. /\ \E s : mStatus' = [mStatus EXCEPT ![m] = s]
          /\ Bump(m) /\ UNCHANGED <<mRun, rMission, tPc>>
      BY <2>1 DEF ConfirmContext, DecideAction, RequestStop, run, task
    <3> QED BY <3>1, BumpKeepsFresh
  <2>2. ASSUME NEW m \in Missions, CreateMission(m) PROVE FreshSelection'
    <3>1. /\ mStatus[m] = "none" /\ UNCHANGED <<mRun, rMission, tPc, overtaken>>
          /\ mStatus' = [mStatus EXCEPT ![m] = "awaiting_context_approval"]
      BY <2>2 DEF CreateMission, run, task
    <3> QED BY <3>1 DEF FreshSelection, TypeOK, MissionType
  <2>3. ASSUME NEW m \in Missions, SendMessage(m) \/ RequestStopRecord(m)
        PROVE  FreshSelection'
    BY <1>1, <2>3 DEF SendMessage, RequestStopRecord, Bump, mission, run, task
  <2>4. ASSUME NEW r \in Runs, CancelAssessment(r) PROVE FreshSelection'
    BY <1>1, <2>4 DEF CancelAssessment, mission, run, task
  <2>5. ASSUME SetToolPermission \/ ChangeContract \/ RequestStopSignal PROVE FreshSelection'
    BY <1>1, <2>5 DEF SetToolPermission, ChangeContract, RequestStopSignal, mission, run, task
  <2> QED BY <1>3, <2>1, <2>2, <2>3, <2>4, <2>5 DEF Command
<1>4. ASSUME NEW c \in Callers, Start(c) PROVE FreshSelection'
  <2>1. ASSUME \/ \E m \in Missions \cup {NoMission} : PrepareStart(c, m)
               \/ StartRefused(c)
        PROVE  FreshSelection'
    BY <1>1, <2>1 DEF PrepareStart, StartRefused, mission, run, task
  <2>2. ASSUME ClaimSlot(c) PROVE FreshSelection'
    <3>1. /\ tPc' = [tPc EXCEPT ![cRun[c]] = "spawned"]
          /\ UNCHANGED <<mRun, mStatus, rMission, overtaken>>
      BY <2>2 DEF ClaimSlot, mission, run
    <3> QED BY <3>1 DEF FreshSelection, TypeOK, TaskType
  <2>3. ASSUME CreateAndLinkRun(c) PROVE FreshSelection'
    <3>1. PICK r \in Runs : /\ rStatus[r] = "none"
                            /\ rMission' = [rMission EXCEPT ![r] = cMission[c]]
                            /\ mRun' = IF cMission[c] = NoMission THEN mRun
                                       ELSE [mRun EXCEPT ![cMission[c]] = r]
      BY <2>3 DEF CreateAndLinkRun
    <3>2. /\ UNCHANGED <<mStatus, tPc, overtaken>>
          /\ cMission[c] # NoMission => mStatus[cMission[c]] = "queued"
      BY <2>3 DEF CreateAndLinkRun, MayLink, task
    <3>3. tPc[r] = "none"
      BY <3>1 DEF Slots, RunsWithoutTask
    <3> QED BY <3>1, <3>2, <3>3 DEF FreshSelection, TypeOK, RunType, MissionType, CallType
  <2>4. ASSUME ClaimBusy(c) PROVE FreshSelection'
    <3>1. /\ cRun[c] \in Runs /\ tPc[cRun[c]] = "none"
          /\ UNCHANGED <<tPc, overtaken>>
      BY <2>4 DEF ClaimBusy, TypeOK, CallType, Slots, RunsWithoutTask, task
    <3>2. CASE CanTransition(cRun[c], "failed")
      <4>1. TransitionRun(cRun[c], "failed")
        BY <2>4, <3>2 DEF ClaimBusy
      <4> QED BY <3>1, <3>2, <4>1, TransitionKeepsFresh
    <3>3. CASE ~CanTransition(cRun[c], "failed")
      BY <1>1, <2>4, <3>1, <3>3 DEF ClaimBusy, mission, run
    <3> QED BY <3>2, <3>3
  <2> QED BY <1>4, <2>1, <2>2, <2>3, <2>4 DEF Start
<1>5. CASE \E r \in Runs : Runner(r)
  BY <1>5, RunnerFresh
<1>6. CASE Crash
  BY <1>6 DEF Crash, FreshSelection
<1>7. CASE Boot \/ BootRefused
  <2>1. app = "down" /\ tPc' = tPc
    BY <1>7 DEF Boot, BootRefused, task
  <2>2. \A r \in Runs : tPc'[r] = "none"
    BY <2>1 DEF Slots, NothingRunsDown
  <2> QED BY <2>2 DEF FreshSelection
<1> QED BY <1>2, <1>3, <1>4, <1>5, <1>6, <1>7 DEF Next

(* No update but the decision of a row, its cancellation or a new          *)
(* confirmation takes a recipe off the user's list.                        *)
LEMMA OutstandingKept ==
    ASSUME NEW table \in ActionTables
    PROVE  /\ \A tools : ManualOutstanding(table) => ManualOutstanding(SelectManual(table, tools))
           /\ SelectManual(table, {}) = table
           /\ ManualOutstanding(SyncActions(table)) <=> ManualOutstanding(table)
<1>1. \A a \in ActionIds : table[a] \in Action
  BY DEF ActionTables
<1>2. ASSUME NEW tools, ManualOutstanding(table)
      PROVE  ManualOutstanding(SelectManual(table, tools))
  <2>1. PICK a \in ActionIds : /\ a[1] \in ManualTools /\ table[a].approval = "approved"
                               /\ table[a].status = "manual_ready"
    BY <1>2 DEF ManualOutstanding
  <2>2. SelectManual(table, tools)[a].approval = "approved"
        /\ SelectManual(table, tools)[a].status = "manual_ready"
    BY <1>1, <2>1 DEF SelectManual, Selectable, Action
  <2> QED BY <2>1, <2>2 DEF ManualOutstanding
<1>3. SelectManual(table, {}) = table
  BY DEF SelectManual, ActionTables
<1>4. ManualOutstanding(SyncActions(table)) <=> ManualOutstanding(table)
  BY <1>1 DEF ManualOutstanding, SyncActions, CloseActions, Action
<1> QED BY <1>2, <1>3, <1>4

(* HandoffAgreement follows every step, given that a selection commits to  *)
(* a mission still at work.                                                *)
LEMMA HandoffStep ==
    TypeOK /\ FreshSelection /\ HandoffAgreement /\ [Next]_vars => HandoffAgreement'
<1> DEFINE agrees(s, table) ==
             /\ s = "awaiting_manual_handoff" => ManualOutstanding(table)
             /\ s = "completed" => ~ManualOutstanding(table)
<1> SUFFICES ASSUME TypeOK, FreshSelection, HandoffAgreement, [Next]_vars, NEW m \in Missions
             PROVE  agrees(mStatus'[m], acts'[m])
  BY DEF HandoffAgreement
<1>0. /\ agrees(mStatus[m], acts[m])
      /\ mStatus \in [Missions -> MissionStatus] /\ acts \in [Missions -> ActionTables]
  BY DEF HandoffAgreement, TypeOK, MissionType
<1>1. ASSUME UNCHANGED <<mStatus, acts>> PROVE agrees(mStatus'[m], acts'[m])
  BY <1>0, <1>1
<1>2. ASSUME NEW r \in Runs, NEW status, CanTransition(r, status), TransitionRun(r, status)
      PROVE  agrees(mStatus'[m], acts'[m])
  <2>1. CASE mStatus'[m] = mStatus[m] /\ acts'[m] = acts[m]
    BY <1>0, <2>1
  <2>2. CASE ~(mStatus'[m] = mStatus[m] /\ acts'[m] = acts[m])
    <3>1. /\ mStatus'[m] = Mirror(m, status)
          /\ acts'[m] \in {acts[m], SyncActions(acts[m])}
      BY <1>2, <2>2, TransitionMission
    <3>2. ManualOutstanding(acts'[m]) <=> ManualOutstanding(acts[m])
      BY <1>0, <3>1, OutstandingKept
    <3>3. status # "awaiting_manual_handoff"
      BY <1>2, RunMoveFacts DEF CanTransition, NetworkActive, Terminal
    <3> QED BY <3>1, <3>2, <3>3 DEF Mirror
  <2> QED BY <2>1, <2>2
<1>3. CASE UNCHANGED vars
  BY <1>1, <1>3 DEF vars, mission
<1>4. ASSUME NEW n \in Missions, NEW s, NEW table,
             mStatus' = [mStatus EXCEPT ![n] = s],
             acts' = [acts EXCEPT ![n] = table] \/ acts' = acts,
             s \notin {"awaiting_manual_handoff", "completed"}
      PROVE  agrees(mStatus'[m], acts'[m])
  BY <1>0, <1>4
<1>5. CASE Command
  <2>1. ASSUME NEW n \in Missions,
               CreateMission(n) \/ ConfirmContext(n) \/ DecideAction(n) \/ RequestStop(n)
        PROVE  agrees(mStatus'[m], acts'[m])
    <3>1. \E s : /\ s \notin {"awaiting_manual_handoff", "completed"}
                 /\ mStatus' = [mStatus EXCEPT ![n] = s]
      BY <2>1 DEF CreateMission, ConfirmContext, DecideAction, RequestStop
    <3>2. acts' = acts \/ \E table : acts' = [acts EXCEPT ![n] = table]
      BY <2>1 DEF CreateMission, ConfirmContext, DecideAction, RequestStop
    <3> HIDE DEF agrees
    <3> QED BY <1>4, <3>1, <3>2
  <2>2. ASSUME NEW n \in Missions, SendMessage(n) \/ RequestStopRecord(n)
        PROVE  UNCHANGED <<mStatus, acts>>
    BY <2>2 DEF SendMessage, RequestStopRecord, mission
  <2>3. ASSUME NEW r \in Runs, CancelAssessment(r) PROVE UNCHANGED <<mStatus, acts>>
    BY <2>3 DEF CancelAssessment, mission
  <2>4. ASSUME SetToolPermission \/ ChangeContract \/ RequestStopSignal
        PROVE  UNCHANGED <<mStatus, acts>>
    BY <2>4 DEF SetToolPermission, ChangeContract, RequestStopSignal, mission
  <2> HIDE DEF agrees
  <2> QED BY <1>1, <1>5, <2>1, <2>2, <2>3, <2>4 DEF Command
<1>6. ASSUME NEW c \in Callers, Start(c) PROVE agrees(mStatus'[m], acts'[m])
  <2>1. CASE ClaimBusy(c) /\ CanTransition(cRun[c], "failed")
    <3>1. cRun[c] \in Runs /\ TransitionRun(cRun[c], "failed")
      BY <2>1 DEF ClaimBusy, TypeOK, CallType
    <3> HIDE DEF agrees
    <3> QED BY <1>2, <2>1, <3>1
  <2>2. CASE ~(ClaimBusy(c) /\ CanTransition(cRun[c], "failed"))
    <3>1. UNCHANGED <<mStatus, acts>>
      BY <1>6, <2>2 DEF Start, PrepareStart, CreateAndLinkRun, StartRefused, ClaimSlot,
                        ClaimBusy, mission
    <3> QED BY <1>1, <3>1
  <2> QED BY <2>1, <2>2
<1>7. ASSUME NEW r \in Runs, Runner(r) PROVE agrees(mStatus'[m], acts'[m])
  <2>1. ASSUME NEW chosen, tPc[r] = "selecting", UNCHANGED mStatus,
               r \in overtaken => chosen = {},
               acts' = [acts EXCEPT ![rMission[r]] = SelectManual(@, chosen)]
        PROVE  agrees(mStatus'[m], acts'[m])
    <3>1. CASE rMission[r] # m \/ chosen = {}
      BY <1>0, <2>1, <3>1, OutstandingKept
    <3>2. CASE rMission[r] = m /\ chosen # {}
      <4>1. mStatus[m] = "planning"
        BY <2>1, <3>2 DEF FreshSelection
      <4> QED BY <2>1, <4>1
    <3> QED BY <3>1, <3>2
  <2> HIDE DEF agrees
  <2> QED BY <1>1, <1>2, <1>7, <2>1, RunnerActs
<1>8. CASE Crash \/ BootRefused
  BY <1>1, <1>8 DEF Crash, BootRefused, mission
<1>9. CASE Boot
  <2>1. \/ UNCHANGED <<mStatus, acts>>
        \/ \E r \in Runs : CanTransition(r, "interrupted") /\ TransitionRun(r, "interrupted")
    BY <1>9 DEF Boot, LeftBehind, mission
  <2> HIDE DEF agrees
  <2> QED BY <1>1, <1>2, <2>1
<1> HIDE DEF agrees
<1> QED BY <1>3, <1>5, <1>6, <1>7, <1>8, <1>9 DEF Next

(* A selection never commits to a mission that another actor moved on.     *)
LEMMA SelectionsStayFresh == Spec => []FreshSelection
<1>1. Init => FreshSelection
  BY DEF Init, FreshSelection
<1> QED BY <1>1, FreshStep, CoreInvariant, PTL DEF Spec

(* A mission waits for the handoff only with a recipe left to do, and is   *)
(* never completed over one, although recipes are selected by a runner     *)
(* that read the mission before the commands that came in between.         *)
THEOREM HandoffsAgree == Spec => []HandoffAgreement
<1>1. Init => HandoffAgreement
  BY DEF Init, HandoffAgreement
<1> QED BY <1>1, HandoffStep, TypeCorrect, SelectionsStayFresh, PTL DEF Spec

-----------------------------------------------------------------------------
(* The promise kept *)


(* The phases the statuses of a mission stand for.                         *)
LEMMA PhaseNames ==
    /\ PhaseOf("none") = "absent"
    /\ PhaseOf("awaiting_context_approval") = "preparing"
    /\ PhaseOf("awaiting_action_approval") = "preparing"
    /\ PhaseOf("queued") = "ready"
    /\ \A s \in NetworkActive : PhaseOf(s) = "working"
    /\ PhaseOf("awaiting_manual_handoff") = "handoff"
    /\ \A s \in Terminal : PhaseOf(s) = "ended"
    /\ \A s \in MissionStatus : PhaseOf(s) = "working" => s \in NetworkActive
BY DEF PhaseOf, NetworkActive, Terminal, MissionStatus, Waiting

(* The updates of the action table, as they change what is granted: a      *)
(* mission that ends keeps no tool, a selection takes tools away.          *)
LEMMA GrantFacts ==
    ASSUME NEW table \in ActionTables
    PROVE  /\ AllowedTools(table) \subseteq Tools
           /\ AllowedTools(SyncActions(table)) = {}
           /\ AllowedTools(CloseActions(table,
                  {"awaiting_approval", "queued", "manual_ready"})) = {}
           /\ \A tools : AllowedTools(SelectManual(table, tools)) \subseteq AllowedTools(table)
<1>1. \A a \in ActionIds : table[a] \in Action
  BY DEF ActionTables
<1>2. ASSUME NEW statuses, "queued" \in statuses
      PROVE  AllowedTools(CloseActions(table, statuses)) = {}
  BY <1>1, <1>2 DEF AllowedTools, CloseActions, Action
<1>3. ASSUME NEW tools, NEW a \in ActionIds, SelectManual(table, tools)[a].status = "queued"
      PROVE  SelectManual(table, tools)[a] = table[a]
  BY <1>1, <1>3 DEF SelectManual, Action
<1>4. \A tools : AllowedTools(SelectManual(table, tools)) \subseteq AllowedTools(table)
  BY <1>3 DEF AllowedTools
<1> QED BY <1>2, <1>4 DEF AllowedTools, SyncActions

(* A step that changes one mission is a MoveTo of the promise.             *)
LEMMA OneMissionMoves ==
    ASSUME TypeOK, NEW m \in Missions, NEW s, NEW table,
           mStatus' = [mStatus EXCEPT ![m] = s],
           acts' = [acts EXCEPT ![m] = table]
    PROVE  Promise!MoveTo(m, PhaseOf(s), AllowedTools(table))
<1>1. mStatus \in [Missions -> MissionStatus] /\ acts \in [Missions -> ActionTables]
  BY DEF TypeOK, MissionType
<1>2. ASSUME NEW n \in Missions
      PROVE  /\ PhaseOf(mStatus'[n]) = IF n = m THEN PhaseOf(s) ELSE PhaseOf(mStatus[n])
             /\ AllowedTools(acts'[n]) = IF n = m THEN AllowedTools(table)
                                                  ELSE AllowedTools(acts[n])
  BY <1>1
<1> QED BY <1>2 DEF Promise!MoveTo

(* transition_run begins, continues or ends the work of one mission, or    *)
(* gives it up before it began.                                            *)
LEMMA TransitionKeepsPromise ==
    ASSUME TypeOK, NEW r \in Runs, NEW status,
           CanTransition(r, status), TransitionRun(r, status)
    PROVE  [Promise!Next]_(Promise!promise)
<1>0. mStatus \in [Missions -> MissionStatus] /\ acts \in [Missions -> ActionTables]
  BY DEF TypeOK, MissionType
<1>1. CASE \A n \in Missions : mStatus'[n] = mStatus[n] /\ acts'[n] = acts[n]
  BY <1>1 DEF Promise!promise
<1>2. ASSUME NEW m \in Missions, ~(mStatus'[m] = mStatus[m] /\ acts'[m] = acts[m])
      PROVE  Promise!Next
  <2> DEFINE t == Mirror(m, status)
             table == IF t \in Terminal \cup {"awaiting_manual_handoff"}
                      THEN SyncActions(acts[m]) ELSE acts[m]
  <2>1. /\ rMission[r] = m /\ mStatus'[m] = t /\ t # mStatus[m]
        /\ <<mStatus[m], t>> \in MissionMoves
        /\ t \in NetworkActive => MayBeNetworkActive(m)
    BY <1>2, TransitionMission
  <2>2. mStatus' = [mStatus EXCEPT ![m] = t] /\ acts' = [acts EXCEPT ![m] = table]
    <3>1. SyncFromRun(m, status)
      BY <2>1, NoMissionAssumption DEF TransitionRun
    <3> QED BY <1>0, <2>1, <3>1 DEF SyncFromRun
  <2>3. Promise!MoveTo(m, PhaseOf(t), AllowedTools(table))
    BY <2>2, OneMissionMoves
  <2>4. CASE t \in NetworkActive
    <3>1. table = acts[m]
      BY <2>4 DEF NetworkActive, Terminal
    <3>2. CASE mStatus[m] \in NetworkActive
      <4>1. Promise!Narrow(m)
        BY <1>0, <2>3, <2>4, <3>1, <3>2, PhaseNames DEF Promise!Narrow
      <4> QED BY <4>1 DEF Promise!Next
    <3>3. CASE mStatus[m] = "queued"
      <4>1. \A n \in Missions : mStatus[n] \notin NetworkActive
        BY <2>1, <2>4, <3>3, StatusesApart DEF MayBeNetworkActive
      <4>2. \A n \in Missions : PhaseOf(mStatus[n]) # "working"
        BY <1>0, <4>1, PhaseNames
      <4>3. Promise!Begin(m)
        BY <2>3, <2>4, <3>1, <3>3, <4>2, PhaseNames DEF Promise!Begin
      <4> QED BY <4>3 DEF Promise!Next
    <3> QED BY <2>1, <2>4, <3>2, <3>3, MirrorMoves
  <2>5. CASE t = "awaiting_manual_handoff"
    <3>1. mStatus[m] \in NetworkActive
      BY <2>1, <2>5, MirrorMoves
    <3>2. AllowedTools(table) = {}
      BY <1>0, <2>5, GrantFacts
    <3>3. Promise!Leave(m)
      BY <2>3, <2>5, <3>1, <3>2, PhaseNames DEF Promise!Leave
    <3> QED BY <3>3 DEF Promise!Next
  <2>6. CASE t \in Terminal
    <3>1. AllowedTools(table) = {} /\ PhaseOf(t) = "ended"
      BY <1>0, <2>6, GrantFacts, PhaseNames
    <3>2. mStatus[m] # "none" /\ mStatus[m] \notin Terminal
      BY <2>1, MirrorMoves, MissionMoveFacts
    <3>3. PhaseOf(mStatus[m]) \in {"preparing", "ready", "working", "handoff"}
      BY <1>0, <3>2, PhaseNames DEF MissionStatus, Waiting
    <3>4. Promise!Leave(m) \/ Promise!GiveUp(m)
      BY <2>3, <3>1, <3>3 DEF Promise!Leave, Promise!GiveUp
    <3> QED BY <3>4 DEF Promise!Next
  <2>7. t \in NetworkActive \cup Terminal \cup {"awaiting_manual_handoff"}
    BY RunMoveFacts DEF CanTransition, Mirror
  <2> QED BY <2>4, <2>5, <2>6, <2>7
<1> QED BY <1>1, <1>2

(* Commands create, prepare or give up one mission.                        *)
LEMMA CommandKeepsPromise ==
    ASSUME TypeOK, Command PROVE [Promise!Next]_(Promise!promise)
<1>0. mStatus \in [Missions -> MissionStatus] /\ acts \in [Missions -> ActionTables]
  BY DEF TypeOK, MissionType
<1>1. ASSUME UNCHANGED <<mStatus, acts>> PROVE UNCHANGED Promise!promise
  BY <1>1 DEF Promise!promise
<1>2. ASSUME NEW m \in Missions, CreateMission(m) PROVE Promise!Create(m)
  <2>1. /\ mStatus[m] = "none" /\ mStatus' = [mStatus EXCEPT ![m] = "awaiting_context_approval"]
        /\ acts' = [acts EXCEPT ![m] = acts[m]]
    BY <1>0, <1>2 DEF CreateMission
  <2>2. Promise!MoveTo(m, "preparing", AllowedTools(acts[m]))
    BY <2>1, OneMissionMoves, PhaseNames
  <2> QED BY <2>1, <2>2, PhaseNames DEF Promise!Create
<1>3. ASSUME NEW m \in Missions, NEW table \in ActionTables,
             NEW s \in {"awaiting_action_approval", "queued"},
             mStatus[m] \in Waiting \cup {"queued"},
             mStatus' = [mStatus EXCEPT ![m] = s], acts' = [acts EXCEPT ![m] = table]
      PROVE  Promise!Prepare(m)
  <2>1. Promise!MoveTo(m, PhaseOf(s), AllowedTools(table))
    BY <1>3, OneMissionMoves
  <2>2. PhaseOf(s) \in {"preparing", "ready"} /\ AllowedTools(table) \in SUBSET Tools
    BY PhaseNames, GrantFacts
  <2>3. PhaseOf(mStatus[m]) \in {"preparing", "ready", "handoff"}
    BY <1>3, PhaseNames DEF Waiting
  <2> QED BY <2>1, <2>2, <2>3 DEF Promise!Prepare
<1>4. ASSUME NEW m \in Missions, ConfirmContext(m) PROVE Promise!Prepare(m)
  <2> DEFINE table == PrepareActions(acts[m], mGen[m] + 1, perm)
  <2>1. table \in ActionTables
    BY <1>0, TableTypes
  <2>2. /\ mStatus[m] \in Waiting \cup {"queued"} /\ acts' = [acts EXCEPT ![m] = table]
        /\ mStatus' = [mStatus EXCEPT ![m] = IF ApprovalsOpen(table)
                                             THEN "awaiting_action_approval"
                                             ELSE "queued"]
    BY <1>4 DEF ConfirmContext, Reconfirmable
  <2> HIDE DEF table
  <2> QED BY <1>3, <2>1, <2>2
<1>5. ASSUME NEW m \in Missions, DecideAction(m) PROVE Promise!Prepare(m)
  <2>1. PICK a, sameTool, approve :
          LET table == DecideActions(acts[m], DecisionTargets(acts[m], a, sameTool), approve)
          IN /\ acts' = [acts EXCEPT ![m] = table]
             /\ mStatus' = [mStatus EXCEPT ![m] = IF ApprovalsOpen(table) THEN @ ELSE "queued"]
    BY <1>5 DEF DecideAction
  <2> DEFINE table == DecideActions(acts[m], DecisionTargets(acts[m], a, sameTool), approve)
  <2>2. table \in ActionTables
    BY <1>0, TableTypes
  <2>3. mStatus[m] = "awaiting_action_approval"
    BY <1>5 DEF DecideAction
  <2>4. /\ acts' = [acts EXCEPT ![m] = table]
        /\ mStatus' = [mStatus EXCEPT ![m] = IF ApprovalsOpen(table)
                                             THEN "awaiting_action_approval"
                                             ELSE "queued"]
    BY <2>1, <2>3
  <2> HIDE DEF table
  <2> QED BY <1>3, <2>2, <2>3, <2>4 DEF Waiting
<1>6. ASSUME NEW m \in Missions, RequestStop(m) PROVE Promise!GiveUp(m)
  <2> DEFINE table == CloseActions(acts[m], {"awaiting_approval", "queued", "manual_ready"})
  <2>1. /\ mStatus[m] \in Waiting \cup {"queued"}
        /\ mStatus' = [mStatus EXCEPT ![m] = "stopped"] /\ acts' = [acts EXCEPT ![m] = table]
    BY <1>6 DEF RequestStop, Stoppable
  <2>2. AllowedTools(table) = {} /\ PhaseOf("stopped") = "ended"
    BY <1>0, GrantFacts, PhaseNames DEF Terminal
  <2>3. Promise!MoveTo(m, "ended", {})
    BY <2>1, <2>2, OneMissionMoves
  <2>4. PhaseOf(mStatus[m]) \in {"preparing", "ready", "handoff"}
    BY <2>1, PhaseNames DEF Waiting
  <2> QED BY <2>3, <2>4 DEF Promise!GiveUp
<1>7. ASSUME NEW m \in Missions, SendMessage(m) \/ RequestStopRecord(m)
      PROVE  UNCHANGED <<mStatus, acts>>
  BY <1>7 DEF SendMessage, RequestStopRecord, mission
<1>8. ASSUME NEW r \in Runs, CancelAssessment(r) PROVE UNCHANGED <<mStatus, acts>>
  BY <1>8 DEF CancelAssessment, mission
<1>9. ASSUME SetToolPermission \/ ChangeContract \/ RequestStopSignal
      PROVE  UNCHANGED <<mStatus, acts>>
  BY <1>9 DEF SetToolPermission, ChangeContract, RequestStopSignal, mission
<1> QED BY <1>1, <1>2, <1>4, <1>5, <1>6, <1>7, <1>8, <1>9 DEF Command, Promise!Next

(* A runner begins, narrows or ends the work of its mission.               *)
LEMMA RunnerKeepsPromise ==
    ASSUME TypeOK, FreshSelection, NEW r \in Runs, Runner(r)
    PROVE  [Promise!Next]_(Promise!promise)
<1>0. mStatus \in [Missions -> MissionStatus] /\ acts \in [Missions -> ActionTables]
  BY DEF TypeOK, MissionType
<1>1. CASE UNCHANGED <<mStatus, acts>>
  BY <1>1 DEF Promise!promise
<1>2. CASE \E status : CanTransition(r, status) /\ TransitionRun(r, status)
  BY <1>2, TransitionKeepsPromise
<1>3. ASSUME NEW chosen, tPc[r] = "selecting", UNCHANGED mStatus,
             r \in overtaken => chosen = {},
             acts' = [acts EXCEPT ![rMission[r]] = SelectManual(@, chosen)]
      PROVE  [Promise!Next]_(Promise!promise)
  <2> DEFINE m == rMission[r]
  <2>1. CASE m \notin Missions
    <3>1. acts' = acts
      BY <1>0, <1>3, <2>1
    <3> QED BY <1>3, <3>1 DEF Promise!promise
  <2>2. CASE m \in Missions /\ chosen = {}
    <3>1. acts' = acts
      <4>1. SelectManual(acts[m], {}) = acts[m]
        BY <1>0, <2>2, OutstandingKept
      <4> QED BY <1>0, <1>3, <2>2, <4>1
    <3> QED BY <1>3, <3>1 DEF Promise!promise
  <2>3. CASE m \in Missions /\ chosen # {}
    <3>1. mStatus[m] = "planning" /\ PhaseOf(mStatus[m]) = "working"
      BY <1>3, <2>3, PhaseNames DEF FreshSelection, NetworkActive
    <3>2. /\ mStatus' = [mStatus EXCEPT ![m] = mStatus[m]]
          /\ acts' = [acts EXCEPT ![m] = SelectManual(acts[m], chosen)]
      BY <1>0, <1>3
    <3>3. Promise!MoveTo(m, "working", AllowedTools(SelectManual(acts[m], chosen)))
      BY <2>3, <3>1, <3>2, OneMissionMoves
    <3>4. AllowedTools(SelectManual(acts[m], chosen)) \in SUBSET AllowedTools(acts[m])
      BY <1>0, <2>3, GrantFacts
    <3>5. Promise!Narrow(m)
      BY <2>3, <3>1, <3>3, <3>4 DEF Promise!Narrow
    <3> QED BY <2>3, <3>5 DEF Promise!Next
  <2> QED BY <2>1, <2>2, <2>3
<1> QED BY <1>1, <1>2, <1>3, RunnerActs

(* Every step of the code is a step of the promise, or none.               *)
LEMMA StepKeepsPromise ==
    TypeOK /\ FreshSelection /\ [Next]_vars => [Promise!Next]_(Promise!promise)
<1> SUFFICES ASSUME TypeOK, FreshSelection, [Next]_vars
             PROVE  [Promise!Next]_(Promise!promise)
  OBVIOUS
<1>0. ASSUME UNCHANGED <<mStatus, acts>> PROVE UNCHANGED Promise!promise
  BY <1>0 DEF Promise!promise
<1>1. CASE UNCHANGED vars
  BY <1>0, <1>1 DEF vars, mission
<1>2. CASE Command
  BY <1>2, CommandKeepsPromise
<1>3. ASSUME NEW c \in Callers, Start(c) PROVE [Promise!Next]_(Promise!promise)
  <2>1. CASE ClaimBusy(c) /\ CanTransition(cRun[c], "failed")
    <3>1. cRun[c] \in Runs /\ TransitionRun(cRun[c], "failed")
      BY <2>1 DEF ClaimBusy, TypeOK, CallType
    <3> QED BY <2>1, <3>1, TransitionKeepsPromise
  <2>2. CASE ~(ClaimBusy(c) /\ CanTransition(cRun[c], "failed"))
    <3>1. UNCHANGED <<mStatus, acts>>
      BY <1>3, <2>2 DEF Start, PrepareStart, CreateAndLinkRun, StartRefused, ClaimSlot,
                        ClaimBusy, mission
    <3> QED BY <1>0, <3>1
  <2> QED BY <2>1, <2>2
<1>4. CASE \E r \in Runs : Runner(r)
  BY <1>4, RunnerKeepsPromise
<1>5. CASE Crash \/ BootRefused
  BY <1>0, <1>5 DEF Crash, BootRefused, mission
<1>6. CASE Boot
  <2>1. \/ UNCHANGED <<mStatus, acts>>
        \/ \E r \in Runs : CanTransition(r, "interrupted") /\ TransitionRun(r, "interrupted")
    BY <1>6 DEF Boot, LeftBehind, mission
  <2> QED BY <1>0, <2>1, TransitionKeepsPromise
<1> QED BY <1>1, <1>2, <1>3, <1>4, <1>5, <1>6 DEF Next

(* The code keeps the safety part of what MissionPromise promises: one     *)
(* mission at work at a time, tools settled before the work begins and     *)
(* only taken away after that, and an ended mission is over.               *)
THEOREM PromiseKept == Spec => KeepsSafePromise
<1>1. Init => Promise!Init
  <2> SUFFICES ASSUME Init PROVE Promise!Init
    OBVIOUS
  <2>1. AllowedTools(EmptyTable) = {}
    BY DEF AllowedTools, EmptyTable
  <2>2. /\ \A m \in Missions : mStatus[m] = "none"
        /\ \A m \in Missions : acts[m] = EmptyTable
    BY DEF Init
  <2> QED BY <2>1, <2>2, PhaseNames DEF Promise!Init
<1> QED BY <1>1, StepKeepsPromise, TypeCorrect, SelectionsStayFresh, PTL
        DEF Spec, KeepsSafePromise, Promise!SafeSpec
=============================================================================
