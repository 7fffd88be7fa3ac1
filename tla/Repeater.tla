------------------------------ MODULE Repeater ------------------------------
(***************************************************************************)
(* The Repeater of RustForge (replay/service.rs) and the manual handoff    *)
(* that sends through it (create_handoff and link_handoff_replay of        *)
(* assessment/mission.rs).                                                 *)
(*                                                                         *)
(* A request leaves a row in replay_attempts before it goes out and a row  *)
(* in replay_runs when it is over.  A process-wide set of tokens says      *)
(* which attempts are still being executed; recovery turns every attempt   *)
(* without run and without token into an APP_INTERRUPTED run.  Requests    *)
(* run beside the main thread, which executes the synchronous commands one *)
(* at a time; recovery and persist_attempt both hold the token lock around *)
(* their transactions, hence each is one action.                           *)
(***************************************************************************)
EXTENDS FiniteSets

CONSTANTS Requests,     \* bound: calls of replay_request and of the executor
          Sessions,     \* bound: session ids that may be handed out
          Hidden,       \* those owned by an assessment run (owner_kind)
          Actions,      \* approved manual recipes, selected by a planner
          NoSession, NoRequest, NoAction

ASSUME HiddenAssumption == Hidden \subseteq Sessions
ASSUME NoSessionAssumption == NoSession \notin Sessions
ASSUME NoRequestAssumption == NoRequest \notin Requests
ASSUME NoActionAssumption == NoAction \notin Actions

VARIABLES
    app,                \* the process: up or down
    session,            \* replay_sessions: absent, open, deleted
    selected,           \* the manual session with is_selected = 1
    attempt,            \* replay_attempts: none, kept, deleted (with its session)
    result,             \* replay_runs.outcome of the request, or none
    tokens,             \* ACTIVE_ATTEMPT_TOKENS
    qPc, qSession,      \* requests in flight
    wire,               \* requests that may have had an effect on the network
    mPc, mSession, mAction,         \* the main thread's command
    hStatus, hSession, hRun,        \* assessment_manual_handoffs, by action
    aStatus,            \* assessment_actions.status of the action
    mission             \* the mission of all actions: open or ended

rows == <<session, selected, attempt, result>>
flight == <<tokens, qPc, qSession, wire>>
main == <<mPc, mSession, mAction>>
handoff == <<hStatus, hSession, hRun, aStatus, mission>>
vars == <<app, rows, flight, main, handoff>>

Manual == Sessions \ Hidden

Init ==
    /\ app = "up"
    /\ session = [s \in Sessions |-> "absent"]
    /\ selected = NoSession
    /\ attempt = [q \in Requests |-> "none"]
    /\ result = [q \in Requests |-> "none"]
    /\ tokens = {} /\ wire = {}
    /\ qPc = [q \in Requests |-> "idle"]
    /\ qSession = [q \in Requests |-> NoSession]
    /\ mPc = "idle" /\ mSession = NoSession /\ mAction = NoAction
    /\ hStatus = [a \in Actions |-> "none"]
    /\ hSession = [a \in Actions |-> NoSession]
    /\ hRun = [a \in Actions |-> NoRequest]
    /\ aStatus = [a \in Actions |-> "manual_ready"]
    /\ mission = "open"

(* An attempt without a run: what recovery looks for and what blocks the   *)
(* deletion of its session.                                                *)
Pending(q) == attempt[q] = "kept" /\ result[q] = "none"

(* Mutant: recovery does not ask whether the request is still running.     *)
RecoveredAll(live) ==
    [q \in Requests |-> IF Pending(q) THEN "interrupted" ELSE result[q]]

(* recover_interrupted_attempts, given the tokens it sees.                 *)
Recovered(live) ==
    [q \in Requests |-> IF Pending(q) /\ q \notin live THEN "interrupted" ELSE result[q]]

-----------------------------------------------------------------------------
(* A request *)

RequestAt(q, pc) == app = "up" /\ qPc[q] = pc

GoTo(q, pc) == qPc' = [qPc EXCEPT ![q] = pc]

(* load_session_context, load_assessment_session_context.                  *)
Load(q) ==
    /\ RequestAt(q, "idle")
    /\ \E s \in Sessions : /\ session[s] = "open"
                           /\ qSession' = [qSession EXCEPT ![q] = s]
    /\ GoTo(q, "loaded")
    /\ UNCHANGED <<app, rows, tokens, wire, main, handoff>>

(* INSERT INTO replay_runs: a trigger wants the session, the attempt's run *)
(* is unique.                                                              *)
Insertable(q) == session[qSession[q]] = "open" /\ result[q] = "none"

(* persist_run stores one of the outcomes, or fails with the database.     *)
PersistRun(q, outcomes) ==
    \/ Insertable(q) /\ \E o \in outcomes : result' = [result EXCEPT ![q] = o]
    \/ UNCHANGED result

PersistPreflightFailure(q) == PersistRun(q, {"scope_rejected"})

PersistRequestFailure(q) == PersistRun(q, {"request_failed"})

(* Refused before anything is sent.  A manual request leaves a run without *)
(* an attempt: the scope or the url itself does not allow it, or method,   *)
(* headers and body make no request.                                       *)
RefuseManual(q) == PersistPreflightFailure(q) \/ PersistRequestFailure(q)

(* An assessment's leaves an error only.                                   *)
Refuse(q) ==
    /\ RequestAt(q, "loaded")
    /\ IF qSession[q] \in Manual THEN RefuseManual(q) ELSE UNCHANGED result
    /\ GoTo(q, "over")
    /\ UNCHANGED <<app, session, selected, attempt, tokens, qSession, wire, main, handoff>>

(* Mutant: the attempt is stored and its token forgotten.                  *)
PersistAttemptUntracked(q) ==
    /\ RequestAt(q, "loaded")
    /\ IF session[qSession[q]] = "open"
       THEN /\ attempt' = [attempt EXCEPT ![q] = "kept"]
            /\ GoTo(q, "attempted")
       ELSE GoTo(q, "over") /\ UNCHANGED attempt
    /\ UNCHANGED <<app, session, selected, result, qSession, tokens, wire, main, handoff>>

(* persist_attempt; it fails, and nothing is sent, when the session is     *)
(* gone or the database refuses.                                           *)
PersistAttempt(q) ==
    /\ RequestAt(q, "loaded")
    /\ \/ /\ session[qSession[q]] = "open"
          /\ attempt' = [attempt EXCEPT ![q] = "kept"]
          /\ tokens' = tokens \cup {q}
          /\ GoTo(q, "attempted")
       \/ GoTo(q, "over") /\ UNCHANGED <<attempt, tokens>>
    /\ UNCHANGED <<app, session, selected, result, qSession, wire, main, handoff>>

(* An assessment looks at its cancel flag once more before sending.        *)
CancelUnsent(q) ==
    /\ RequestAt(q, "attempted")
    /\ qSession[q] \in Hidden
    /\ PersistRequestFailure(q)
    /\ GoTo(q, "stored")
    /\ UNCHANGED <<app, session, selected, attempt, tokens, qSession, wire, main, handoff>>

Send(q) ==
    /\ RequestAt(q, "attempted")
    /\ wire' = wire \cup {q}
    /\ GoTo(q, "sent")
    /\ UNCHANGED <<app, rows, tokens, qSession, main, handoff>>

(* The response arrives, breaks off, times out or is cancelled.            *)
Answer(q) ==
    /\ RequestAt(q, "sent")
    /\ PersistRun(q, {"completed", "response_incomplete"}) \/ PersistRequestFailure(q)
    /\ GoTo(q, "stored")
    /\ UNCHANGED <<app, session, selected, attempt, tokens, qSession, wire, main, handoff>>

(* The ActiveAttemptGuard is dropped when the call returns.                *)
DropGuard(q) ==
    /\ RequestAt(q, "stored")
    /\ tokens' = tokens \ {q}
    /\ GoTo(q, "over")
    /\ UNCHANGED <<app, rows, qSession, wire, main, handoff>>

(* create_assessment_session.                                              *)
CreateHidden(s) ==
    /\ app = "up" /\ s \in Hidden /\ session[s] = "absent"
    /\ session' = [session EXCEPT ![s] = "open"]
    /\ UNCHANGED <<app, selected, attempt, result, flight, main, handoff>>

-----------------------------------------------------------------------------
(* Synchronous commands, on the main thread *)

MainThreadFree == app = "up" /\ mPc = "idle"

(* The session a command of the user may name.                             *)
Usable(s) == s \in Manual /\ session[s] = "open"

(* create_session selects what it creates.                                 *)
CreateAndSelect(s) ==
    /\ s \in Manual /\ session[s] = "absent"
    /\ session' = [session EXCEPT ![s] = "open"]
    /\ selected' = s

CreateSession(s) ==
    /\ MainThreadFree
    /\ CreateAndSelect(s)
    /\ UNCHANGED <<app, attempt, result, flight, main, handoff>>

SelectSession(s) ==
    /\ MainThreadFree
    /\ Usable(s)
    /\ selected' = s
    /\ UNCHANGED <<app, session, attempt, result, flight, main, handoff>>

(* list_sessions and list_runs recover before they read.                   *)
List ==
    /\ MainThreadFree
    /\ result' = Recovered(tokens)
    /\ UNCHANGED <<app, session, selected, attempt, flight, main, handoff>>

(* delete_session recovers first, then deletes in a transaction.           *)
DeleteSession(s) ==
    /\ MainThreadFree
    /\ Usable(s)
    /\ result' = Recovered(tokens)
    /\ mPc' = "deleting" /\ mSession' = s
    /\ UNCHANGED <<app, session, selected, attempt, flight, mAction, handoff>>

(* The requests whose rows go with session s.                              *)
Of(s) == {q \in Requests : qSession[q] = s}

(* Mutant: the trigger on pending attempts is missing.                     *)
DeletableInFlight(s) == \A a \in Actions : hRun[a] \notin Of(s)

(* A trigger protects pending attempts, a foreign key a run that was       *)
(* handed back.                                                            *)
Deletable(s) ==
    /\ \A q \in Of(s) : ~Pending(q)
    /\ \A a \in Actions : hRun[a] \notin Of(s)

(* When the selected session goes, the session updated last is selected.   *)
SelectAfter(s) ==
    LET left == {t \in Manual \ {s} : session[t] = "open"}
    IN IF selected # s THEN UNCHANGED selected
       ELSE IF left = {} THEN selected' = NoSession
       ELSE selected' \in left

DeleteCommit ==
    /\ app = "up" /\ mPc = "deleting"
    /\ mPc' = "idle" /\ mSession' = NoSession
    /\ LET s == mSession
       IN IF Deletable(s)
          THEN /\ session' = [session EXCEPT ![s] = "deleted"]
               /\ SelectAfter(s)
               /\ attempt' = [q \in Requests |-> IF q \in Of(s) /\ attempt[q] = "kept"
                                                 THEN "deleted" ELSE attempt[q]]
               /\ result' = [q \in Requests |-> IF q \in Of(s) THEN "none" ELSE result[q]]
               /\ hSession' = [a \in Actions |-> IF hSession[a] = s THEN NoSession
                                                 ELSE hSession[a]]
          ELSE UNCHANGED <<rows, hSession>>
    /\ UNCHANGED <<app, flight, mAction, hStatus, hRun, aStatus, mission>>

-----------------------------------------------------------------------------
(* The manual handoff *)

(* create_handoff creates a session of its own and commits it; an action   *)
(* that has a handoff keeps it.                                            *)
CreateHandoff(a) ==
    /\ MainThreadFree
    /\ mission = "open"
    /\ aStatus[a] \in {"manual_ready", "manual_result_pending"}
    /\ hStatus[a] = "none"
    /\ \E s \in Manual : CreateAndSelect(s) /\ mSession' = s
    /\ mPc' = "drafting" /\ mAction' = a
    /\ UNCHANGED <<app, attempt, result, flight, handoff>>

(* The draft is built and stored, or either fails and the session stays.   *)
DraftHandoff ==
    /\ app = "up" /\ mPc = "drafting"
    /\ \/ /\ hStatus' = [hStatus EXCEPT ![mAction] = "draft_created"]
          /\ hSession' = [hSession EXCEPT ![mAction] = mSession]
       \/ UNCHANGED <<hStatus, hSession>>
    /\ mPc' = "idle" /\ mSession' = NoSession /\ mAction' = NoAction
    /\ UNCHANGED <<app, rows, flight, hRun, aStatus, mission>>

(* Mutant: the run may come from any session of the project.               *)
LinkableAnywhere(a, q) == result[q] # "none" /\ hStatus[a] = "draft_created"

(* A run of the handoff's own manual session.                              *)
Linkable(a, q) ==
    /\ hStatus[a] = "draft_created"
    /\ result[q] # "none"
    /\ qSession[q] = hSession[a]

(* link_handoff_replay looks at neither the mission's status nor the       *)
(* action's.                                                               *)
LinkHandoff(a, q) ==
    /\ MainThreadFree
    /\ Linkable(a, q)
    /\ hStatus' = [hStatus EXCEPT ![a] = "result_linked"]
    /\ hRun' = [hRun EXCEPT ![a] = q]
    /\ aStatus' = [aStatus EXCEPT ![a] = "manual_result_pending"]
    /\ UNCHANGED <<app, rows, flight, main, hSession, mission>>

(* request_stop of the mission cancels what is still ready.                *)
StopMission ==
    /\ MainThreadFree
    /\ mission = "open"
    /\ mission' = "ended"
    /\ aStatus' = [a \in Actions |-> IF aStatus[a] = "manual_ready" THEN "cancelled"
                                     ELSE aStatus[a]]
    /\ UNCHANGED <<app, rows, flight, main, hStatus, hSession, hRun>>

(* A later run of the mission fails or is interrupted, which cancels no    *)
(* manual action.                                                          *)
FailMission ==
    /\ app = "up" /\ mission = "open"
    /\ mission' = "ended"
    /\ UNCHANGED <<app, rows, flight, main, hStatus, hSession, hRun, aStatus>>

-----------------------------------------------------------------------------
(* Crash and boot *)

Crash ==
    /\ app = "up"
    /\ app' = "down"
    /\ tokens' = {}
    /\ qPc' = [q \in Requests |-> IF qPc[q] = "idle" THEN "idle" ELSE "over"]
    /\ mPc' = "idle" /\ mSession' = NoSession /\ mAction' = NoAction
    /\ UNCHANGED <<rows, qSession, wire, handoff>>

(* setup recovers before any command can run.                              *)
Boot ==
    /\ app = "down"
    /\ app' = "up"
    /\ result' = Recovered({})
    /\ UNCHANGED <<session, selected, attempt, flight, main, handoff>>

-----------------------------------------------------------------------------

Request(q) ==
    Load(q) \/ Refuse(q) \/ PersistAttempt(q) \/ CancelUnsent(q) \/ Send(q) \/ Answer(q)
    \/ DropGuard(q)

Command ==
    \/ \E s \in Sessions : CreateSession(s) \/ SelectSession(s) \/ DeleteSession(s)
    \/ List \/ DeleteCommit \/ DraftHandoff \/ StopMission
    \/ \E a \in Actions : CreateHandoff(a) \/ \E q \in Requests : LinkHandoff(a, q)

Next ==
    \/ \E q \in Requests : Request(q)
    \/ \E s \in Sessions : CreateHidden(s)
    \/ Command \/ FailMission \/ Crash \/ Boot

Spec == Init /\ [][Next]_vars

-----------------------------------------------------------------------------
(* Properties *)

Outcomes == {"completed", "response_incomplete", "request_failed", "scope_rejected",
             "interrupted"}

TypeOK ==
    /\ app \in {"up", "down"}
    /\ session \in [Sessions -> {"absent", "open", "deleted"}]
    /\ selected \in Manual \cup {NoSession}
    /\ attempt \in [Requests -> {"none", "kept", "deleted"}]
    /\ result \in [Requests -> {"none"} \cup Outcomes]
    /\ tokens \subseteq Requests /\ wire \subseteq Requests
    /\ qPc \in [Requests -> {"idle", "loaded", "attempted", "sent", "stored", "over"}]
    /\ qSession \in [Requests -> Sessions \cup {NoSession}]
    /\ \A q \in Requests : qPc[q] # "idle" => qSession[q] \in Sessions
    /\ mPc \in {"idle", "deleting", "drafting"}
    /\ mSession \in Manual \cup {NoSession}
    /\ mPc # "idle" => mSession \in Manual
    /\ mAction \in Actions \cup {NoAction}
    /\ mPc = "drafting" => mAction \in Actions
    /\ hStatus \in [Actions -> {"none", "draft_created", "result_linked"}]
    /\ hSession \in [Actions -> Manual \cup {NoSession}]
    /\ hRun \in [Actions -> Requests \cup {NoRequest}]
    /\ aStatus \in [Actions -> {"manual_ready", "manual_result_pending", "cancelled"}]
    /\ mission \in {"open", "ended"}

(* Nothing is told about a request, and nothing it needs disappears, while *)
(* it is still being executed: its attempt is there, its session can take  *)
(* the run, and no recovery has spoken for it.  Listing, deleting and      *)
(* recovering run beside it (ActiveAttemptGuard, replay/service.rs).       *)
InFlightIsSafe ==
    \A q \in Requests : qPc[q] \in {"attempted", "sent"} =>
        q \in tokens /\ attempt[q] = "kept" /\ Insertable(q)

(* No request reaches the network without a durable trace, and the trace   *)
(* of one whose story is not told yet cannot be deleted: once rows are     *)
(* gone the request is over (replay_attempts and its delete trigger).      *)
AuditBeforeNetwork ==
    \A q \in wire : \/ attempt[q] = "kept"
                    \/ attempt[q] = "deleted" /\ qPc[q] \in {"stored", "over"}

(* The history says what happened on the network: a request with a         *)
(* response, or one it could not tell about, did reach for it and had an   *)
(* attempt; a rejected one never did.                                      *)
TruthfulResult ==
    \A q \in Requests :
        /\ result[q] \in {"completed", "response_incomplete"} => q \in wire
        /\ result[q] = "interrupted" => attempt[q] = "kept" /\ qPc[q] \in {"stored", "over"}
        /\ result[q] = "scope_rejected" => q \notin wire /\ attempt[q] = "none"

(* A project with manual sessions has exactly one selected, through        *)
(* creation, deletion, refused deletion, handoffs and restarts.            *)
SelectionAgreement ==
    IF \E s \in Manual : session[s] = "open"
    THEN selected \in Manual /\ session[selected] = "open"
    ELSE selected = NoSession

(* A result handed back to a mission stays: its run, told by the handoff's *)
(* own manual session, and that session cannot be deleted any more.        *)
LinkedIsKept ==
    \A a \in Actions : hStatus[a] = "result_linked" =>
        /\ hRun[a] \in Requests /\ result[hRun[a]] # "none"
        /\ hSession[a] = qSession[hRun[a]]
        /\ hSession[a] \in Manual /\ session[hSession[a]] = "open"

(* A run never changes what it says, whoever recovers or finishes when; it *)
(* goes only with its session (triggers on replay_runs).                   *)
HistoryIsImmutable ==
    [][\A q \in Requests : result[q] # "none" /\ result'[q] # result[q] =>
           session[qSession[q]] = "open" /\ session'[qSession[q]] = "deleted"]_vars

(* After a restart every attempt has its run: a request that may have had  *)
(* an effect is never left without a statement (docs/PHASE4.md).           *)
BootTellsAll ==
    [][app = "down" /\ app' = "up" =>
           \A q \in Requests : attempt'[q] = "kept" => result'[q] # "none"]_vars
=============================================================================
