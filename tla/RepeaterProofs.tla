--------------------------- MODULE RepeaterProofs ---------------------------
(***************************************************************************)
(* Theorems about Repeater for every set of requests, sessions and manual  *)
(* actions.  The argument: the type of the state, then the invariant       *)
(* Flight, which says what a request's rows look like in each phase, and   *)
(* from which the statements about network, history and handoff follow.    *)
(***************************************************************************)
EXTENDS Repeater, TLAPS

USE HiddenAssumption, NoSessionAssumption, NoRequestAssumption, NoActionAssumption

-----------------------------------------------------------------------------
(* Types *)

(* The initial rows are well typed.                                        *)
LEMMA InitTypes == Init => TypeOK
BY DEF Init, TypeOK, Manual

(* What the steps of a request keep.                                       *)
LEMMA RequestTypes ==
    ASSUME TypeOK, NEW q \in Requests, Request(q) PROVE TypeOK'
<1> USE DEF TypeOK, Outcomes, GoTo, RequestAt, rows, main, handoff
<1>1. ASSUME Load(q) PROVE TypeOK'
  BY <1>1 DEF Load
<1>2. ASSUME NEW outcomes \in SUBSET Outcomes, PersistRun(q, outcomes)
      PROVE  result' \in [Requests -> {"none"} \cup Outcomes]
  BY <1>2 DEF PersistRun
<1>3. ASSUME Refuse(q) PROVE TypeOK'
  <2>1. result' \in [Requests -> {"none"} \cup Outcomes]
    BY <1>2, <1>3 DEF Refuse, RefuseManual, PersistPreflightFailure, PersistRequestFailure
  <2> QED BY <1>3, <2>1 DEF Refuse
<1>4. ASSUME PersistAttempt(q) PROVE TypeOK'
  BY <1>4 DEF PersistAttempt
<1>5. ASSUME CancelUnsent(q) \/ Answer(q) PROVE TypeOK'
  <2>1. result' \in [Requests -> {"none"} \cup Outcomes]
    BY <1>2, <1>5 DEF CancelUnsent, Answer, PersistRequestFailure
  <2> QED BY <1>5, <2>1 DEF CancelUnsent, Answer
<1>6. ASSUME Send(q) \/ DropGuard(q) PROVE TypeOK'
  BY <1>6 DEF Send, DropGuard
<1> QED BY <1>1, <1>3, <1>4, <1>5, <1>6 DEF Request

(* Recovery keeps the type of the history.                                 *)
LEMMA RecoveredType ==
    ASSUME TypeOK, NEW live PROVE Recovered(live) \in [Requests -> {"none"} \cup Outcomes]
BY DEF TypeOK, Recovered, Outcomes

(* Every step keeps the types.                                             *)
LEMMA StepTypes == TypeOK /\ [Next]_vars => TypeOK'
<1> SUFFICES ASSUME TypeOK, [Next]_vars PROVE TypeOK'
  OBVIOUS
<1> USE DEF TypeOK, Outcomes, rows, flight, main, handoff, MainThreadFree
<1>1. CASE UNCHANGED vars
  BY <1>1 DEF vars
<1>2. ASSUME NEW q \in Requests, Request(q) PROVE TypeOK'
  BY <1>2, RequestTypes
<1>3. ASSUME NEW s \in Sessions, CreateHidden(s) \/ CreateSession(s) \/ SelectSession(s)
      PROVE  TypeOK'
  BY <1>3 DEF CreateHidden, CreateSession, CreateAndSelect, SelectSession, Usable, Manual
<1>4. CASE List \/ Boot \/ \E s \in Sessions : DeleteSession(s)
  <2>1. result' \in [Requests -> {"none"} \cup Outcomes]
    BY <1>4, RecoveredType DEF List, Boot, DeleteSession
  <2> QED BY <1>4, <2>1 DEF List, Boot, DeleteSession, Usable
<1>5. CASE DeleteCommit
  <2>1. mSession \in Manual
    BY <1>5 DEF DeleteCommit
  <2>2. selected' \in Manual \cup {NoSession}
    BY <1>5 DEF DeleteCommit, SelectAfter
  <2> QED BY <1>5, <2>1, <2>2 DEF DeleteCommit, Manual
<1>6. ASSUME NEW a \in Actions, CreateHandoff(a) PROVE TypeOK'
  BY <1>6 DEF CreateHandoff, CreateAndSelect, Manual
<1>7. CASE DraftHandoff
  BY <1>7 DEF DraftHandoff
<1>8. ASSUME NEW a \in Actions, NEW q \in Requests, LinkHandoff(a, q) PROVE TypeOK'
  BY <1>8 DEF LinkHandoff
<1>9. CASE StopMission \/ FailMission
  BY <1>9 DEF StopMission, FailMission
<1>10. CASE Crash
  BY <1>10 DEF Crash
<1> QED
  BY <1>1, <1>2, <1>3, <1>4, <1>5, <1>6, <1>7, <1>8, <1>9, <1>10 DEF Next, Command

(* Every reachable state is well typed: in particular the selected session *)
(* and the session of a handoff are manual ones.                           *)
THEOREM TypeCorrect == Spec => []TypeOK
<1> QED BY InitTypes, StepTypes, PTL DEF Spec

-----------------------------------------------------------------------------
(* The rows of a request, phase by phase *)

(* Nothing is stored for a request before persist_attempt.                 *)
Fresh ==
    \A q \in Requests : qPc[q] \in {"idle", "loaded"} =>
        attempt[q] = "none" /\ result[q] = "none"

(* No request survives the process.                                        *)
DownIsIdle == app = "down" => \A q \in Requests : qPc[q] \in {"idle", "over"}

(* Attempt and run exist only while their session does.                    *)
RowsHaveSession ==
    \A q \in Requests : attempt[q] = "kept" \/ result[q] # "none" =>
        qSession[q] \in Sessions /\ session[qSession[q]] = "open"

SentIsOnWire == \A q \in Requests : qPc[q] = "sent" => q \in wire

Flight == Fresh /\ DownIsIdle /\ InFlightIsSafe /\ RowsHaveSession /\ SentIsOnWire

(* No request has rows at first.                                           *)
LEMMA FlightInit == Init => Flight
BY DEF Init, Flight, Fresh, DownIsIdle, InFlightIsSafe, RowsHaveSession, SentIsOnWire

(* The tokens keep recovery away from requests in flight.                  *)
LEMMA RecoveryFlight ==
    ASSUME TypeOK, Flight, NEW live,
           \A q \in Requests : qPc[q] \in {"attempted", "sent"} => q \in live,
           result' = Recovered(live),
           UNCHANGED <<session, attempt, tokens, qPc, qSession, wire>>,
           app' = "up"
    PROVE  Flight'
<1> USE DEF TypeOK, Flight
<1>1. \A q \in Requests : result'[q] # result[q] => Pending(q) /\ q \notin live
  BY DEF Recovered
<1>2. Fresh' /\ DownIsIdle' /\ SentIsOnWire'
  BY <1>1 DEF Fresh, DownIsIdle, SentIsOnWire, Pending
<1>3. InFlightIsSafe'
  BY <1>1 DEF InFlightIsSafe, Insertable
<1>4. RowsHaveSession'
  BY <1>1 DEF RowsHaveSession, Pending
<1> QED BY <1>2, <1>3, <1>4

(* The steps of a request move it through its phases and leave the others  *)
(* where they are.                                                         *)
LEMMA RequestFlight ==
    ASSUME TypeOK, Flight, NEW q \in Requests, Request(q) PROVE Flight'
<1> USE DEF TypeOK, Flight, Fresh, DownIsIdle, InFlightIsSafe, RowsHaveSession,
            SentIsOnWire, Insertable, GoTo, RequestAt, rows
<1>1. ASSUME Load(q) PROVE Flight'
  BY <1>1 DEF Load
<1>2. ASSUME Refuse(q) PROVE Flight'
  BY <1>2 DEF Refuse, RefuseManual, PersistPreflightFailure, PersistRequestFailure, PersistRun
<1>3. ASSUME PersistAttempt(q) PROVE Flight'
  BY <1>3 DEF PersistAttempt
<1>4. ASSUME CancelUnsent(q) \/ Answer(q) PROVE Flight'
  BY <1>4 DEF CancelUnsent, Answer, PersistRequestFailure, PersistRun
<1>5. ASSUME Send(q) PROVE Flight'
  BY <1>5 DEF Send
<1>6. ASSUME DropGuard(q) PROVE Flight'
  BY <1>6 DEF DropGuard
<1> QED BY <1>1, <1>2, <1>3, <1>4, <1>5, <1>6 DEF Request

(* A session goes only when none of its requests is in flight.             *)
LEMMA DeleteFlight ==
    ASSUME TypeOK, Flight, DeleteCommit PROVE Flight'
<1> USE DEF TypeOK, Flight
<1> DEFINE s == mSession
<1>1. CASE Deletable(s)
  <2>1. \A q \in Requests : qPc[q] \in {"attempted", "sent"} => Pending(q) /\ q \notin Of(s)
    BY <1>1 DEF InFlightIsSafe, Insertable, Pending, Deletable
  <2>2. /\ session' = [session EXCEPT ![s] = "deleted"]
        /\ attempt' = [q \in Requests |-> IF q \in Of(s) /\ attempt[q] = "kept"
                                          THEN "deleted" ELSE attempt[q]]
        /\ result' = [q \in Requests |-> IF q \in Of(s) THEN "none" ELSE result[q]]
        /\ UNCHANGED <<app, tokens, qPc, qSession, wire>>
    BY <1>1 DEF DeleteCommit, flight
  <2>3. Fresh' /\ DownIsIdle' /\ SentIsOnWire'
    BY <2>2 DEF Fresh, DownIsIdle, SentIsOnWire
  <2>4. \A q \in Requests \ Of(s) : session'[qSession[q]] = session[qSession[q]]
    BY <2>2 DEF Of
  <2>5. InFlightIsSafe'
    BY <2>1, <2>2, <2>4 DEF InFlightIsSafe, Insertable
  <2>6. RowsHaveSession'
    BY <2>2, <2>4 DEF RowsHaveSession
  <2> QED BY <2>3, <2>5, <2>6
<1>2. CASE ~Deletable(s)
  BY <1>2 DEF DeleteCommit, rows, flight, Fresh, DownIsIdle, InFlightIsSafe,
              RowsHaveSession, SentIsOnWire, Insertable
<1> QED BY <1>1, <1>2

(* Every step keeps the rows of requests in phase.                         *)
LEMMA FlightStep == TypeOK /\ Flight /\ [Next]_vars => Flight'
<1> SUFFICES ASSUME TypeOK, Flight, [Next]_vars PROVE Flight'
  OBVIOUS
<1>1. ASSUME UNCHANGED <<app, session, attempt, result, flight>> PROVE Flight'
  BY <1>1 DEF Flight, Fresh, DownIsIdle, InFlightIsSafe, RowsHaveSession, SentIsOnWire,
              Insertable, flight
<1>2. CASE UNCHANGED vars
  BY <1>1, <1>2 DEF vars, rows
<1>3. ASSUME NEW q \in Requests, Request(q) PROVE Flight'
  BY <1>3, RequestFlight
<1>4. ASSUME NEW s \in Sessions, session[s] = "absent",
             session' = [session EXCEPT ![s] = "open"],
             UNCHANGED <<app, attempt, result, flight>>
      PROVE  Flight'
  BY <1>4 DEF TypeOK, Flight, Fresh, DownIsIdle, InFlightIsSafe, RowsHaveSession,
              SentIsOnWire, Insertable, flight
<1>5. ASSUME NEW s \in Sessions, CreateHidden(s) \/ CreateSession(s) PROVE Flight'
  BY <1>4, <1>5 DEF CreateHidden, CreateSession, CreateAndSelect
<1>6. ASSUME NEW s \in Sessions, SelectSession(s) PROVE Flight'
  BY <1>1, <1>6 DEF SelectSession
<1>7. CASE List \/ \E s \in Sessions : DeleteSession(s)
  BY <1>7, RecoveryFlight
     DEF List, DeleteSession, MainThreadFree, flight, Flight, InFlightIsSafe
<1>8. CASE DeleteCommit
  BY <1>8, DeleteFlight
<1>9. ASSUME NEW a \in Actions, CreateHandoff(a) PROVE Flight'
  <2>1. PICK s \in Manual : CreateAndSelect(s)
    BY <1>9 DEF CreateHandoff
  <2> QED BY <1>4, <1>9, <2>1 DEF CreateHandoff, CreateAndSelect, Manual
<1>10. CASE DraftHandoff \/ StopMission \/ FailMission
  BY <1>1, <1>10 DEF DraftHandoff, StopMission, FailMission, rows
<1>11. ASSUME NEW a \in Actions, NEW q \in Requests, LinkHandoff(a, q) PROVE Flight'
  BY <1>1, <1>11 DEF LinkHandoff, rows
<1>12. CASE Crash
  BY <1>12 DEF Crash, TypeOK, Flight, Fresh, DownIsIdle, InFlightIsSafe, RowsHaveSession,
               SentIsOnWire, Insertable, rows
<1>13. CASE Boot
  BY <1>13, RecoveryFlight DEF Boot, Flight, DownIsIdle, flight
<1> QED
  BY <1>2, <1>3, <1>5, <1>6, <1>7, <1>8, <1>9, <1>10, <1>11, <1>12, <1>13
     DEF Next, Command

(* The rows of every request are in phase in every reachable state.        *)
LEMMA FlightHolds == Spec => [](TypeOK /\ Flight)
<1>1. Init => TypeOK /\ Flight
  BY InitTypes, FlightInit
<1>2. TypeOK /\ Flight /\ [Next]_vars => (TypeOK /\ Flight)'
  BY StepTypes, FlightStep
<1> QED BY <1>1, <1>2, PTL DEF Spec

(* What a running request needs stays: its token, its attempt, its session *)
(* and the place of its run.  No recovery, listing or deletion beside it   *)
(* speaks for it or takes them away.                                       *)
THEOREM InFlightSafe == Spec => []InFlightIsSafe
<1>1. Flight => InFlightIsSafe
  BY DEF Flight
<1> QED BY <1>1, FlightHolds, PTL

-----------------------------------------------------------------------------
(* What the rows say about the network *)

Story == AuditBeforeNetwork /\ TruthfulResult

(* There is nothing to tell at first.                                      *)
LEMMA StoryInit == Init => Story
BY DEF Init, Story, AuditBeforeNetwork, TruthfulResult

(* A request tells its own story truthfully.                               *)
LEMMA RequestStory ==
    ASSUME TypeOK, Flight, Story, NEW q \in Requests, Request(q) PROVE Story'
<1> USE DEF TypeOK, Flight, Story, Fresh, InFlightIsSafe, SentIsOnWire, AuditBeforeNetwork,
            TruthfulResult, Insertable, GoTo, RequestAt, rows
<1>1. ASSUME Load(q) PROVE Story'
  BY <1>1 DEF Load
<1>2. ASSUME Refuse(q) PROVE Story'
  BY <1>2 DEF Refuse, RefuseManual, PersistPreflightFailure, PersistRequestFailure, PersistRun
<1>3. ASSUME PersistAttempt(q) PROVE Story'
  BY <1>3 DEF PersistAttempt
<1>4. ASSUME CancelUnsent(q) \/ Answer(q) PROVE Story'
  BY <1>4 DEF CancelUnsent, Answer, PersistRequestFailure, PersistRun
<1>5. ASSUME Send(q) \/ DropGuard(q) PROVE Story'
  BY <1>5 DEF Send, DropGuard
<1> QED BY <1>1, <1>2, <1>3, <1>4, <1>5 DEF Request

(* Recovery speaks only for requests that are over.                        *)
LEMMA RecoveryStory ==
    ASSUME TypeOK, Flight, Story, NEW live,
           \A q \in Requests : qPc[q] \in {"attempted", "sent"} => q \in live,
           result' = Recovered(live),
           UNCHANGED <<attempt, qPc, wire>>
    PROVE  Story'
<1>1. ASSUME NEW q \in Requests, result'[q] # result[q]
      PROVE  /\ result'[q] = "interrupted" /\ attempt[q] = "kept"
             /\ qPc[q] \in {"stored", "over"}
  BY <1>1 DEF Recovered, Pending, TypeOK, Flight, Fresh
<1> QED BY <1>1 DEF Story, AuditBeforeNetwork, TruthfulResult

(* Every step keeps the story true.                                        *)
LEMMA StoryStep == TypeOK /\ Flight /\ Story /\ [Next]_vars => Story'
<1> SUFFICES ASSUME TypeOK, Flight, Story, [Next]_vars PROVE Story'
  OBVIOUS
<1>1. ASSUME UNCHANGED <<attempt, result, qPc, wire>> PROVE Story'
  BY <1>1 DEF Story, AuditBeforeNetwork, TruthfulResult
<1>2. CASE UNCHANGED vars
  BY <1>1, <1>2 DEF vars, rows, flight
<1>3. ASSUME NEW q \in Requests, Request(q) PROVE Story'
  BY <1>3, RequestStory
<1>4. CASE List \/ \E s \in Sessions : DeleteSession(s)
  BY <1>4, RecoveryStory DEF List, DeleteSession, flight, Flight, InFlightIsSafe
<1>5. CASE DeleteCommit
  <2>1. CASE ~Deletable(mSession)
    BY <1>1, <1>5, <2>1 DEF DeleteCommit, rows, flight
  <2>2. CASE Deletable(mSession)
    <3>1. /\ attempt' = [q \in Requests |-> IF q \in Of(mSession) /\ attempt[q] = "kept"
                                            THEN "deleted" ELSE attempt[q]]
          /\ result' = [q \in Requests |-> IF q \in Of(mSession) THEN "none" ELSE result[q]]
          /\ UNCHANGED <<qPc, wire>>
      BY <1>5, <2>2 DEF DeleteCommit, flight
    <3>2. \A q \in Of(mSession) : attempt[q] = "kept" => qPc[q] \in {"stored", "over"}
      BY <2>2 DEF Deletable, Pending, Of, TypeOK, Flight, Fresh, InFlightIsSafe, Insertable
    <3>3. wire \subseteq Requests
      BY DEF TypeOK
    <3> QED BY <3>1, <3>2, <3>3 DEF Story, AuditBeforeNetwork, TruthfulResult
  <2> QED BY <2>1, <2>2
<1>6. CASE Crash
  BY <1>6 DEF Crash, rows, TypeOK, Story, AuditBeforeNetwork, TruthfulResult, Flight, Fresh
<1>7. CASE Boot
  BY <1>7, RecoveryStory DEF Boot, flight, Flight, DownIsIdle
<1>8. CASE \/ \E s \in Sessions : CreateHidden(s) \/ CreateSession(s) \/ SelectSession(s)
           \/ \E a \in Actions : CreateHandoff(a) \/ \E q \in Requests : LinkHandoff(a, q)
           \/ DraftHandoff \/ StopMission \/ FailMission
  BY <1>1, <1>8 DEF CreateHidden, CreateSession, SelectSession, CreateHandoff, LinkHandoff,
                    DraftHandoff, StopMission, FailMission, rows, flight
<1> QED BY <1>2, <1>3, <1>4, <1>5, <1>6, <1>7, <1>8 DEF Next, Command

(* The story is true in every reachable state.                             *)
LEMMA StoryHolds == Spec => []Story
<1>1. TypeOK /\ Flight /\ Story /\ [Next]_vars => Story'
  BY StoryStep
<1> QED BY <1>1, StoryInit, FlightHolds, PTL DEF Spec

(* Whatever may have reached the network has a durable attempt, until the  *)
(* request is over and the user deletes its session.                       *)
THEOREM NetworkIsAudited == Spec => []AuditBeforeNetwork
<1>1. Story => AuditBeforeNetwork
  BY DEF Story
<1> QED BY <1>1, StoryHolds, PTL

(* A run says "completed" only of a request that was sent, "interrupted"   *)
(* only of one with an attempt that is over, and a rejection only of one   *)
(* that never reached the network.                                         *)
THEOREM HistoryIsTruthful == Spec => []TruthfulResult
<1>1. Story => TruthfulResult
  BY DEF Story
<1> QED BY <1>1, StoryHolds, PTL

-----------------------------------------------------------------------------
(* Sessions and handoffs *)

(* No session, no selection at first.                                      *)
LEMMA SelectionInit == Init => SelectionAgreement
BY DEF Init, SelectionAgreement, Manual

(* Every step keeps exactly one manual session selected, if there is one.  *)
LEMMA SelectionStep == TypeOK /\ SelectionAgreement /\ [Next]_vars => SelectionAgreement'
<1> SUFFICES ASSUME TypeOK, SelectionAgreement, [Next]_vars PROVE SelectionAgreement'
  OBVIOUS
<1>1. ASSUME UNCHANGED <<session, selected>> PROVE SelectionAgreement'
  BY <1>1 DEF SelectionAgreement
<1>2. ASSUME NEW s \in Manual, CreateAndSelect(s) PROVE SelectionAgreement'
  BY <1>2 DEF CreateAndSelect, SelectionAgreement, TypeOK, Manual
<1>3. ASSUME NEW s \in Sessions, CreateHidden(s) PROVE SelectionAgreement'
  BY <1>3 DEF CreateHidden, SelectionAgreement, TypeOK, Manual
<1>4. ASSUME NEW s \in Sessions, SelectSession(s) PROVE SelectionAgreement'
  BY <1>4 DEF SelectSession, Usable, SelectionAgreement
<1>5. CASE DeleteCommit
  <2>1. CASE ~Deletable(mSession)
    BY <1>1, <1>5, <2>1 DEF DeleteCommit, rows
  <2>2. CASE Deletable(mSession)
    <3>1. /\ session' = [session EXCEPT ![mSession] = "deleted"]
          /\ SelectAfter(mSession)
          /\ mSession \in Sessions
      BY <1>5, <2>2 DEF DeleteCommit, TypeOK, Manual
    <3>2. \A t \in Manual : session'[t] = "open" <=> t # mSession /\ session[t] = "open"
      BY <3>1 DEF TypeOK, Manual
    <3>3. CASE selected # mSession
      BY <3>1, <3>2, <3>3 DEF SelectAfter, SelectionAgreement
    <3>4. CASE selected = mSession
      BY <3>1, <3>2, <3>4 DEF SelectAfter, SelectionAgreement
    <3> QED BY <3>3, <3>4
  <2> QED BY <2>1, <2>2
<1>6. ASSUME NEW q \in Requests, Request(q) PROVE SelectionAgreement'
  BY <1>1, <1>6 DEF Request, Load, Refuse, PersistAttempt, CancelUnsent, Send, Answer,
                    DropGuard, rows
<1>7. CASE \/ UNCHANGED vars \/ Crash \/ Boot \/ List \/ DraftHandoff
           \/ StopMission \/ FailMission
           \/ \E s \in Sessions : DeleteSession(s)
           \/ \E a \in Actions, q \in Requests : LinkHandoff(a, q)
  BY <1>1, <1>7 DEF vars, Crash, Boot, List, DraftHandoff, StopMission, FailMission,
                    DeleteSession, LinkHandoff, rows
<1>8. CASE \/ \E s \in Sessions : CreateSession(s)
           \/ \E a \in Actions : CreateHandoff(a)
  BY <1>2, <1>8 DEF CreateSession, CreateHandoff, CreateAndSelect
<1> QED BY <1>3, <1>4, <1>5, <1>6, <1>7, <1>8 DEF Next, Command

(* A project with a manual session has one selected, and it is open,       *)
(* whatever creates, deletes or hands over sessions.                       *)
THEOREM SelectionAgrees == Spec => []SelectionAgreement
<1>1. TypeOK /\ SelectionAgreement /\ [Next]_vars => SelectionAgreement'
  BY SelectionStep
<1> QED BY <1>1, SelectionInit, TypeCorrect, PTL DEF Spec

(* What a step may do to a run, the session of which was known.            *)
KeepsHistory ==
    \A q \in Requests : result[q] # "none" =>
        /\ qSession'[q] = qSession[q]
        /\ \/ result'[q] = result[q] /\ session'[qSession[q]] = "open"
           \/ session[qSession[q]] = "open" /\ session'[qSession[q]] = "deleted"
              /\ DeleteCommit /\ Deletable(qSession[q]) /\ qSession[q] = mSession

(* No step changes a run but the deletion of its session.                  *)
LEMMA StepKeepsHistory == TypeOK /\ Flight /\ [Next]_vars => KeepsHistory
<1> SUFFICES ASSUME TypeOK, Flight, [Next]_vars, NEW q \in Requests, result[q] # "none"
             PROVE  /\ qSession'[q] = qSession[q]
                    /\ \/ result'[q] = result[q] /\ session'[qSession[q]] = "open"
                       \/ /\ session[qSession[q]] = "open"
                          /\ session'[qSession[q]] = "deleted"
                          /\ DeleteCommit /\ Deletable(qSession[q])
                          /\ qSession[q] = mSession
  BY DEF KeepsHistory
<1>0. /\ qSession[q] \in Sessions /\ session[qSession[q]] = "open"
      /\ qPc[q] \notin {"idle", "loaded"}
  BY DEF Flight, Fresh, RowsHaveSession
<1>1. ASSUME UNCHANGED <<session, result, qSession>>
      PROVE  qSession'[q] = qSession[q] /\ result'[q] = result[q]
             /\ session'[qSession[q]] = "open"
  BY <1>0, <1>1
<1>2. ASSUME NEW p \in Requests, Request(p)
      PROVE  qSession'[q] = qSession[q] /\ result'[q] = result[q]
             /\ session'[qSession[q]] = "open"
  <2>1. UNCHANGED session
    BY <1>2 DEF Request, Load, Refuse, PersistAttempt, CancelUnsent, Send, Answer, DropGuard,
                rows
  <2>2. qSession'[q] = qSession[q]
    BY <1>0, <1>2 DEF Request, Load, Refuse, PersistAttempt, CancelUnsent, Send, Answer,
                      DropGuard, RequestAt, TypeOK
  <2>3. result'[q] = result[q]
    BY <1>2 DEF Request, Load, Refuse, PersistAttempt, CancelUnsent, Send, Answer, DropGuard,
                RefuseManual, PersistPreflightFailure, PersistRequestFailure, PersistRun,
                Insertable, rows, TypeOK
  <2> QED BY <1>0, <2>1, <2>2, <2>3
<1>3. CASE Boot \/ List \/ \E s \in Sessions : DeleteSession(s)
  <2>1. \E l : result' = Recovered(l)
    BY <1>3 DEF Boot, List, DeleteSession
  <2>2. UNCHANGED <<session, qSession>>
    BY <1>3 DEF Boot, List, DeleteSession, flight
  <2> QED BY <1>0, <2>1, <2>2 DEF Recovered, Pending
<1>4. ASSUME NEW s \in Sessions, session[s] = "absent",
             session' = [session EXCEPT ![s] = "open"], UNCHANGED <<result, qSession>>
      PROVE  qSession'[q] = qSession[q] /\ result'[q] = result[q]
             /\ session'[qSession[q]] = "open"
  BY <1>0, <1>4
<1>5. CASE \/ \E s \in Sessions : CreateHidden(s) \/ CreateSession(s)
           \/ \E a \in Actions : CreateHandoff(a)
  BY <1>4, <1>5 DEF CreateHidden, CreateSession, CreateHandoff, CreateAndSelect, flight,
                    Manual
<1>6. CASE DeleteCommit
  <2>1. CASE ~Deletable(mSession)
    BY <1>1, <1>6, <2>1 DEF DeleteCommit, rows, flight
  <2>2. CASE Deletable(mSession)
    BY <1>0, <1>6, <2>2 DEF DeleteCommit, flight, Of, TypeOK, Manual
  <2> QED BY <1>6, <2>1, <2>2
<1>7. CASE \/ UNCHANGED vars \/ Crash \/ DraftHandoff \/ StopMission \/ FailMission
           \/ \E s \in Sessions : SelectSession(s)
           \/ \E a \in Actions, p \in Requests : LinkHandoff(a, p)
  BY <1>1, <1>7 DEF vars, Crash, DraftHandoff, StopMission, FailMission, SelectSession,
                    LinkHandoff, rows, flight
<1> QED BY <1>2, <1>3, <1>5, <1>6, <1>7 DEF Next, Command

(* No step rewrites a run: it keeps its outcome until its session goes.    *)
THEOREM HistoryKept == Spec => HistoryIsImmutable
<1>1. TypeOK /\ Flight /\ [Next]_vars =>
        [\A q \in Requests : result[q] # "none" /\ result'[q] # result[q] =>
            session[qSession[q]] = "open" /\ session'[qSession[q]] = "deleted"]_vars
  BY StepKeepsHistory DEF KeepsHistory
<1> QED BY <1>1, FlightHolds, PTL DEF Spec, HistoryIsImmutable

(* Every step keeps the result a handoff holds.                            *)
LEMMA LinkedStep ==
    TypeOK /\ Flight /\ LinkedIsKept /\ [Next]_vars => LinkedIsKept'
<1> SUFFICES ASSUME TypeOK, Flight, LinkedIsKept, [Next]_vars,
                    NEW a \in Actions, hStatus'[a] = "result_linked"
             PROVE  /\ hRun'[a] \in Requests /\ result'[hRun'[a]] # "none"
                    /\ hSession'[a] = qSession'[hRun'[a]]
                    /\ hSession'[a] \in Manual /\ session'[hSession'[a]] = "open"
  BY DEF LinkedIsKept
<1>1. ASSUME NEW b \in Actions, NEW q \in Requests, LinkHandoff(b, q), b = a
      PROVE  /\ hRun'[a] \in Requests /\ result'[hRun'[a]] # "none"
             /\ hSession'[a] = qSession'[hRun'[a]]
             /\ hSession'[a] \in Manual /\ session'[hSession'[a]] = "open"
  BY <1>1 DEF LinkHandoff, Linkable, rows, flight, TypeOK, Flight, RowsHaveSession
<1>2. ASSUME ~\E q \in Requests : LinkHandoff(a, q)
      PROVE  /\ hStatus[a] = "result_linked" /\ hRun'[a] = hRun[a]
             /\ hSession'[a] = hSession[a] \/ DeleteCommit
  BY <1>2 DEF Next, vars, Command, Request, Load, Refuse, PersistAttempt, CancelUnsent, Send,
              Answer, DropGuard, CreateHidden, CreateSession, SelectSession, List,
              DeleteSession, DeleteCommit, CreateHandoff, DraftHandoff, LinkHandoff,
              StopMission, FailMission, Crash, Boot, handoff, TypeOK
<1>3. ASSUME hStatus[a] = "result_linked", hRun'[a] = hRun[a],
             hSession'[a] = hSession[a] \/ DeleteCommit
      PROVE  /\ hRun'[a] \in Requests /\ result'[hRun'[a]] # "none"
             /\ hSession'[a] = qSession'[hRun'[a]]
             /\ hSession'[a] \in Manual /\ session'[hSession'[a]] = "open"
  <2> DEFINE q == hRun[a]
  <2>1. /\ q \in Requests /\ result[q] # "none"
        /\ hSession[a] = qSession[q] /\ hSession[a] \in Manual
    BY <1>3 DEF LinkedIsKept
  <2>2. ~(Deletable(qSession[q]))
    BY <2>1 DEF Deletable, Of
  <2>3. /\ qSession'[q] = qSession[q] /\ result'[q] = result[q]
        /\ session'[qSession[q]] = "open"
    BY <2>1, <2>2, StepKeepsHistory DEF KeepsHistory
  <2>4. hSession'[a] = hSession[a]
    BY <1>3, <2>1, <2>2, <2>3 DEF DeleteCommit, rows, TypeOK
  <2> QED BY <1>3, <2>1, <2>3, <2>4
<1> QED BY <1>1, <1>2, <1>3

(* A result that was handed back keeps its run and its manual session.     *)
THEOREM LinkedKept == Spec => []LinkedIsKept
<1>1. Init => LinkedIsKept
  BY DEF Init, LinkedIsKept
<1>2. TypeOK /\ Flight /\ LinkedIsKept /\ [Next]_vars => LinkedIsKept'
  BY LinkedStep
<1> QED BY <1>1, <1>2, FlightHolds, PTL DEF Spec

(* The first step after a crash leaves no attempt without a run.           *)
THEOREM BootTells == Spec => BootTellsAll
<1>1. TypeOK /\ [Next]_vars =>
        [app = "down" /\ app' = "up" =>
            \A q \in Requests : attempt'[q] = "kept" => result'[q] # "none"]_vars
  <2> SUFFICES ASSUME TypeOK, Next, app = "down", app' = "up",
                      NEW q \in Requests, attempt'[q] = "kept"
               PROVE  result'[q] # "none"
    OBVIOUS
  <2>1. Boot
    BY DEF Next, Command, Request, Load, Refuse, PersistAttempt, CancelUnsent, Send, Answer,
           DropGuard, RequestAt, MainThreadFree, CreateHidden, CreateSession, SelectSession,
           List, DeleteSession, DeleteCommit, CreateHandoff, DraftHandoff, LinkHandoff,
           StopMission, FailMission, Crash
  <2> QED BY <2>1 DEF Boot, Recovered, Pending
<1> QED BY <1>1, TypeCorrect, PTL DEF Spec, BootTellsAll
=============================================================================
