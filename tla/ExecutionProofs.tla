-------------------------- MODULE ExecutionProofs --------------------------
(***************************************************************************)
(* Theorems about Scope, Transport and Execution.                          *)
(*                                                                         *)
(* Transport is proved for any caller (TSpec), then Execution is shown to  *)
(* be one, so everything proved of TSpec holds of a run. What a run says   *)
(* of its own (a confirmation, the money of the checks) rests on RunHolds, *)
(* the invariant of the last part.                                         *)
(***************************************************************************)
EXTENDS Execution, TLAPS, FiniteSetTheorems, WellFoundedInduction

-----------------------------------------------------------------------------
(* Scope: another spelling of a url is decided as the url *)

(* Two spellings of one url: each segment and each value may be encoded    *)
(* again, up to the rounds the policy decodes.                             *)
Spelling(q) == [name |-> q.name, word |-> q.word]

Alias(u, v) ==
    /\ OriginOf(u) = OriginOf(v)
    /\ DOMAIN u.path = DOMAIN v.path
    /\ \A i \in DOMAIN u.path :
        /\ u.path[i].word = v.path[i].word
        /\ u.path[i].depth <= DecodeRounds /\ v.path[i].depth <= DecodeRounds
    /\ \A q \in u.query \cup v.query : q.depth <= DecodeRounds
    /\ \A q \in u.query : \E r \in v.query : Spelling(q) = Spelling(r)
    /\ \A r \in v.query : \E q \in u.query : Spelling(q) = Spelling(r)

LEMMA SameReading ==
    ASSUME NEW u, NEW v, Alias(u, v)
    PROVE  PathReads(u) = PathReads(v)
BY DEF Alias, PathReads, Decoded

LEMMA SameQuery ==
    ASSUME NEW u, NEW v, Alias(u, v),
           NEW q \in u.query,
           q.name = "_method" \/ (q.name \in {"action", "do"} /\ Decoded(q) \in Destructive)
    PROVE  \E r \in v.query :
                r.name = "_method" \/ (r.name \in {"action", "do"} /\ Decoded(r) \in Destructive)
<1>1. PICK r \in v.query : Spelling(q) = Spelling(r)
  BY DEF Alias
<1>2. q.name = r.name /\ q.word = r.word
  BY <1>1 DEF Spelling
<1>3. q.depth <= DecodeRounds /\ r.depth <= DecodeRounds
  BY DEF Alias
<1>4. Decoded(q) = Decoded(r)
  BY <1>2, <1>3 DEF Decoded
<1> QED BY <1>2, <1>4

LEMMA AliasSymmetric ==
    ASSUME NEW u, NEW v, Alias(u, v)
    PROVE  Alias(v, u)
BY DEF Alias

LEMMA AliasAllowed ==
    ASSUME NEW origin, NEW excluded, NEW u, NEW v, Alias(u, v),
           PolicyAllows(origin, excluded, u)
    PROVE  PolicyAllows(origin, excluded, v)
<1>1. OriginOf(v) = origin
  BY DEF Alias, PolicyAllows
<1>2. \A i \in DOMAIN v.path : Decoded(v.path[i]) \notin Destructive
  <2>1. \A i \in DOMAIN v.path : Decoded(v.path[i]) = Decoded(u.path[i])
    BY DEF Alias, Decoded
  <2> QED BY <2>1 DEF PolicyAllows, Alias
<1>3. ~\E e \in excluded : Below(PathReads(v), e)
  BY SameReading DEF PolicyAllows
<1>4. ~\E r \in v.query :
        r.name = "_method" \/ (r.name \in {"action", "do"} /\ Decoded(r) \in Destructive)
  <2>1. ~\E q \in u.query :
        q.name = "_method" \/ (q.name \in {"action", "do"} /\ Decoded(q) \in Destructive)
    BY DEF PolicyAllows
  <2>2. Alias(v, u)
    BY AliasSymmetric
  <2> QED BY <2>1, <2>2, SameQuery
<1> QED BY <1>1, <1>2, <1>3, <1>4 DEF PolicyAllows

(* Encoding a path or a value again, up to three times, changes no         *)
(* decision of the policy, for any origin, exclusions and urls.            *)
THEOREM AliasesAgree ==
    ASSUME NEW origin, NEW excluded, NEW u, NEW v, Alias(u, v)
    PROVE  PolicyAllows(origin, excluded, u) <=> PolicyAllows(origin, excluded, v)
BY AliasAllowed, AliasSymmetric

-----------------------------------------------------------------------------
(* Transport: the inductive invariant *)

Stages == {"idle", "paced", "reserved", "sent", "returned"}

IsCall ==
    /\ wire = [stage |-> wire.stage, phase |-> wire.phase, who |-> wire.who,
               url |-> wire.url, role |-> wire.role]
    /\ wire.stage \in Stages

Counters ==
    /\ budget \in [used : Nat, discovery : Nat, bytes : Nat]
    /\ counted \in Nat /\ sent \in Nat /\ overdue \in Nat /\ changes \in Nat

WithinLimits ==
    /\ budget.used <= Total
    /\ budget.discovery <= DiscoveryLimit
    /\ budget.bytes <= MaxBytes

(* Only a request on the wire may be missing from the stored count, and    *)
(* one that is about to be sent has its budget already.                    *)
CountFollows ==
    /\ counted <= budget.used
    /\ wire.stage \in {"idle", "paced", "returned"} => sent <= counted
    /\ wire.stage = "reserved" => sent <= counted /\ sent + 1 <= budget.used
    /\ wire.stage = "sent" => sent <= counted + 1 /\ sent <= budget.used

(* A call that was checked under the contract has one change to its name   *)
(* when the contract no longer holds.                                      *)
DriftPaid ==
    /\ overdue <= changes
    /\ wire.stage \in {"paced", "reserved"} /\ ~ContractHolds => overdue + 1 <= changes

CheckedFirst == wire.stage \in {"paced", "reserved"} => Authorized(Contracted, wire.url)

TInv == IsCall /\ Counters /\ WithinLimits /\ CountFollows /\ DriftPaid /\ CheckedFirst

LEMMA LimitIsNat == DiscoveryLimit \in Nat
<1>1. Total \in Nat /\ MaxDiscovery \in Nat
  BY TotalAssumption, BoundsAssumption
<1>2. Total \div 3 \in Nat
  BY <1>1
<1> QED BY <1>1, <1>2 DEF DiscoveryLimit

LEMMA TInvInit == TInit => TInv
<1> SUFFICES ASSUME TInit PROVE TInv
  OBVIOUS
<1>1. IsCall
  BY DEF TInit, Idle, IsCall, Stages
<1>2. Counters
  BY DEF TInit, Counters
<1>3. WithinLimits
  BY LimitIsNat, TotalAssumption, BoundsAssumption DEF TInit, WithinLimits
<1>4. CountFollows /\ DriftPaid
  BY DEF TInit, Idle, CountFollows, DriftPaid
<1>5. CheckedFirst
  BY DEF TInit, Idle, CheckedFirst
<1> QED BY <1>1, <1>2, <1>3, <1>4, <1>5 DEF TInv

(* A step that leaves the counters and the changes alone and does not      *)
(* begin a request.                                                        *)
LEMMA QuietStep ==
    ASSUME TInv,
           UNCHANGED <<scope, terms, changes, budget, counted, sent, overdue>>,
           IsCall', wire.stage \in {"idle", "paced", "reserved", "returned"},
           wire'.stage \in {"idle", "returned"}
    PROVE  TInv'
<1>1. Counters' /\ WithinLimits'
  BY DEF TInv, Counters, WithinLimits, DiscoveryLimit
<1>2. CountFollows'
  BY DEF TInv, CountFollows, Counters
<1>3. DriftPaid'
  BY DEF TInv, DriftPaid
<1>4. CheckedFirst'
  BY DEF CheckedFirst
<1> QED BY <1>1, <1>2, <1>3, <1>4 DEF TInv

LEMMA AskKeeps ==
    ASSUME TInv, NEW phase, NEW who, NEW u, NEW role, Ask(phase, who, u, role)
    PROVE  TInv'
<1> DEFINE call == [stage |-> "paced", phase |-> phase, who |-> who, url |-> u, role |-> role]
<1>0. UNCHANGED <<scope, terms, changes, budget, counted, sent, overdue>> /\ wire.stage = "idle"
  BY DEF Ask, project
<1>1. CASE Refusal(u) = "none"
  <2>1. wire' = call
    BY <1>1 DEF Ask
  <2>2. ContractHolds /\ Authorized(scope, u)
    BY <1>1 DEF Refusal
  <2>3. IsCall'
    BY <2>1 DEF IsCall, Stages
  <2>4. Counters' /\ WithinLimits'
    BY <1>0 DEF TInv, Counters, WithinLimits, DiscoveryLimit
  <2>5. CountFollows'
    BY <1>0, <2>1 DEF TInv, CountFollows
  <2>6. DriftPaid'
    BY <1>0, <2>1, <2>2 DEF TInv, DriftPaid, ContractHolds
  <2>7. Authorized(Contracted, u)
    BY <2>2 DEF ContractHolds
  <2>8. CheckedFirst'
    BY <2>1, <2>7 DEF CheckedFirst, Authorized
  <2> QED BY <2>3, <2>4, <2>5, <2>6, <2>8 DEF TInv
<1>2. CASE Refusal(u) # "none"
  <2>1. wire' = [call EXCEPT !.stage = "returned"]
    BY <1>2 DEF Ask
  <2>2. IsCall' /\ wire'.stage = "returned"
    BY <2>1 DEF IsCall, Stages
  <2> QED BY <1>0, <2>2, QuietStep
<1> QED BY <1>1, <1>2

LEMMA TakeKeeps == ASSUME TInv, Take PROVE TInv'
<1>1. IsCall' /\ wire'.stage = "idle"
  BY DEF Take, Idle, IsCall, Stages
<1>2. wire.stage = "returned"
  BY DEF Take
<1> QED BY <1>1, <1>2, QuietStep DEF Take, project

LEMMA FailReturns ==
    ASSUME IsCall, NEW error, Fail(error)
    PROVE  IsCall' /\ wire'.stage = "returned"
<1>1. wire' = [wire EXCEPT !.stage = "returned"]
  BY DEF Fail
<1> QED BY <1>1 DEF IsCall, Stages

LEMMA ReserveKeeps == ASSUME TInv, Reserve PROVE TInv'
<1>0. /\ IsCall /\ wire.stage = "paced"
      /\ UNCHANGED <<scope, terms, changes, counted, sent, overdue>>
  BY DEF TInv, Reserve, project
<1>1. CASE UNCHANGED budget /\ \E error : Fail(error)
  BY <1>0, <1>1, FailReturns, QuietStep
<1>2. CASE /\ budget.used < Total
           /\ wire.phase = "discovery" => budget.discovery < DiscoveryLimit
           /\ budget' = [budget EXCEPT !.used = @ + 1,
                                       !.discovery = IF wire.phase = "discovery" THEN @ + 1 ELSE @]
           /\ wire' = [wire EXCEPT !.stage = "reserved"]
  <2>1. IsCall' /\ wire'.stage = "reserved" /\ wire'.url = wire.url
    BY <1>0, <1>2 DEF IsCall, Stages
  <2>2. PICK a \in Nat, b \in Nat, c \in Nat : budget = [used |-> a, discovery |-> b, bytes |-> c]
    BY DEF TInv, Counters
  <2>3. budget' = [used |-> a + 1, discovery |-> IF wire.phase = "discovery" THEN b + 1 ELSE b,
                   bytes |-> c]
    BY <1>2, <2>2
  <2>4. Counters'
    BY <1>0, <2>3 DEF TInv, Counters
  <2>5. DiscoveryLimit \in Nat /\ Total \in Nat /\ DiscoveryLimit' = DiscoveryLimit
    BY LimitIsNat, TotalAssumption DEF DiscoveryLimit
  <2>6. WithinLimits'
    BY <1>2, <2>2, <2>3, <2>5 DEF TInv, WithinLimits
  <2>7. CountFollows'
    BY <1>0, <2>1, <2>2, <2>3 DEF TInv, CountFollows, Counters
  <2>8. DriftPaid'
    BY <1>0, <2>1 DEF TInv, DriftPaid, ContractHolds
  <2>9. CheckedFirst'
    BY <1>0, <2>1 DEF TInv, CheckedFirst, Authorized
  <2> QED BY <2>1, <2>4, <2>6, <2>7, <2>8, <2>9 DEF TInv
<1> QED BY <1>1, <1>2 DEF Reserve

(* What a stored run leaves, whatever was read of it within the limit.     *)
LEMMA ReturnKeeps ==
    ASSUME TInv, NEW reply, NEW size \in Nat, size <= RemainingBytes,
           wire.stage \in {"reserved", "sent"}, Return(reply, size),
           UNCHANGED <<scope, terms, changes, sent, overdue>>
    PROVE  TInv'
<1>1. wire' = [wire EXCEPT !.stage = "returned"] /\ IsCall
  BY DEF Return, TInv
<1>2. IsCall' /\ wire'.stage = "returned"
  BY <1>1 DEF IsCall, Stages
<1>3. PICK a \in Nat, b \in Nat, c \in Nat : budget = [used |-> a, discovery |-> b, bytes |-> c]
  BY DEF TInv, Counters
<1>4. budget' = [used |-> a, discovery |-> b, bytes |-> c + size]
  BY <1>3 DEF Return
<1>5. counted' = a
  BY <1>3 DEF Return, CountAfter
<1>6. Counters'
  BY <1>3, <1>4, <1>5 DEF TInv, Counters
<1>7. c + size <= MaxBytes
  BY <1>3, BoundsAssumption DEF RemainingBytes
<1>8. WithinLimits'
  BY <1>3, <1>4, <1>7 DEF TInv, WithinLimits, DiscoveryLimit
<1>9. sent <= a /\ sent \in Nat
  BY <1>3 DEF TInv, CountFollows, Counters
<1>10. CountFollows'
  BY <1>2, <1>3, <1>4, <1>5, <1>9 DEF CountFollows
<1>11. DriftPaid' /\ CheckedFirst'
  BY <1>2 DEF TInv, DriftPaid, CheckedFirst
<1> QED BY <1>2, <1>6, <1>8, <1>10, <1>11 DEF TInv

LEMMA ReadWithin ==
    ASSUME TInv
    PROVE  ReadLimit \in Nat /\ ReadLimit <= RemainingBytes /\ RemainingBytes \in Nat
<1>1. PICK c \in Nat : budget.bytes = c /\ c <= MaxBytes
  BY DEF TInv, Counters, WithinLimits
<1>2. RemainingBytes \in Nat
  BY <1>1, BoundsAssumption DEF RemainingBytes
<1> QED BY <1>2, BoundsAssumption DEF ReadLimit

LEMMA OpenKeeps == ASSUME TInv, Open PROVE TInv'
<1>0. IsCall /\ wire.stage = "reserved" /\ UNCHANGED <<scope, terms, changes>>
  BY DEF TInv, Open, project
<1>1. CASE Fail("rejected") /\ UNCHANGED <<budget, counted, sent, overdue>>
  BY <1>0, <1>1, FailReturns, QuietStep
<1>2. CASE Return(Unanswered, 0) /\ UNCHANGED <<sent, overdue>>
  BY <1>0, <1>2, ReturnKeeps, ReadWithin
<1>3. CASE /\ wire' = [wire EXCEPT !.stage = "sent"]
           /\ sent' = sent + 1
           /\ overdue' = IF ContractHolds THEN overdue ELSE overdue + 1
           /\ UNCHANGED <<budget, counted>>
  <2>1. IsCall' /\ wire'.stage = "sent"
    BY <1>0, <1>3 DEF IsCall, Stages
  <2>2. Counters' /\ WithinLimits'
    BY <1>0, <1>3 DEF TInv, Counters, WithinLimits, DiscoveryLimit
  <2>3. CountFollows'
    BY <1>0, <1>3, <2>1 DEF TInv, CountFollows, Counters
  <2>4. DriftPaid' /\ CheckedFirst'
    BY <1>0, <1>3, <2>1 DEF TInv, DriftPaid, CheckedFirst, Counters
  <2> QED BY <2>1, <2>2, <2>3, <2>4 DEF TInv
<1> QED BY <1>1, <1>2, <1>3 DEF Open

LEMMA ReceiveKeeps == ASSUME TInv, NEW a \in Answers, Receive(a) PROVE TInv'
<1>1. a.size \in Nat
  BY AnswersAssumption
<1> DEFINE whole == a.size <= ReadLimit
           size == IF whole THEN a.size ELSE ReadLimit
<1>2. PICK reply : Return(reply, size)
  BY DEF Receive
<1>4. ReadLimit \in Nat /\ ReadLimit <= RemainingBytes /\ RemainingBytes \in Nat
  BY ReadWithin
<1>3. size \in Nat /\ size <= RemainingBytes
  BY <1>1, <1>4
<1>5. wire.stage = "sent" /\ UNCHANGED <<scope, terms, changes, sent, overdue>>
  BY DEF Receive, project
<1> HIDE DEF size
<1> QED BY <1>2, <1>3, <1>5, ReturnKeeps

LEMMA AbortKeeps == ASSUME TInv, Abort PROVE TInv'
<1>1. ReadLimit \in Nat /\ ReadLimit <= RemainingBytes /\ RemainingBytes \in Nat
  BY ReadWithin
<1>2. wire.stage = "sent" /\ UNCHANGED <<scope, terms, changes, sent, overdue>>
  BY DEF Abort, project
<1>3. CASE Return(Unanswered, 0)
  BY <1>1, <1>2, <1>3, ReturnKeeps
<1>4. ASSUME NEW a \in Answers, NEW size \in 0..ReadLimit,
             Return([Unanswered EXCEPT !.status = a.status], size)
      PROVE  TInv'
  <2>1. size \in Nat /\ size <= RemainingBytes
    BY <1>1
  <2> QED BY <1>2, <1>4, <2>1, ReturnKeeps
<1> QED BY <1>3, <1>4 DEF Abort

LEMMA UserKeeps == ASSUME TInv, Cancel \/ Change PROVE TInv'
<1>0. UNCHANGED <<budget, wire, counted, sent, overdue>>
  BY DEF Cancel, Change
<1>1. IsCall' /\ WithinLimits' /\ CountFollows' /\ CheckedFirst'
  BY <1>0 DEF TInv, IsCall, WithinLimits, CountFollows, CheckedFirst, DiscoveryLimit, Authorized
<1>2. changes' \in Nat
  BY DEF Cancel, Change, TInv, Counters, project
<1>3. Counters'
  BY <1>0, <1>2 DEF TInv, Counters
<1>4. DriftPaid'
  <2>1. CASE Cancel
    BY <2>1 DEF Cancel, TInv, DriftPaid, ContractHolds, project
  <2>2. CASE Change
    BY <1>0, <2>2 DEF Change, TInv, DriftPaid, Counters
  <2> QED BY <2>1, <2>2
<1> QED BY <1>1, <1>3, <1>4 DEF TInv

LEMMA TInvNext == TInv /\ [TNext]_tvars => TInv'
<1> SUFFICES ASSUME TInv, [TNext]_tvars PROVE TInv'
  OBVIOUS
<1>1. CASE \E phase, who, u, role : Ask(phase, who, u, role)
  BY <1>1, AskKeeps
<1>2. CASE Take
  BY <1>2, TakeKeeps
<1>3. CASE Transporting
  BY <1>3, ReserveKeeps, OpenKeeps, ReceiveKeeps, AbortKeeps DEF Transporting
<1>4. CASE Cancel \/ Change
  BY <1>4, UserKeeps
<1>5. CASE UNCHANGED tvars
  BY <1>5 DEF tvars, TInv, IsCall, Counters, WithinLimits, CountFollows, DriftPaid, CheckedFirst,
              DiscoveryLimit, ContractHolds, Authorized
<1> QED BY <1>1, <1>2, <1>3, <1>4, <1>5 DEF TNext

THEOREM TransportInvariant == TSpec => []TInv
BY TInvInit, TInvNext, PTL DEF TSpec

(* No reply reads past the bytes of the run, discovery leaves two thirds   *)
(* of the requests, and the stored count misses at most the request that   *)
(* is on the wire: for any limits, answers and callers.                    *)
THEOREM BudgetKept == TSpec => []BudgetIsKept
<1>1. TInv => BudgetIsKept
  <2> SUFFICES ASSUME TInv PROVE BudgetIsKept
    OBVIOUS
  <2>1. budget.used \in Nat /\ counted \in Nat /\ sent \in Nat
    BY DEF TInv, Counters
  <2>2. sent <= budget.used /\ sent <= counted + 1
    BY <2>1 DEF TInv, CountFollows, IsCall, Stages
  <2> QED BY <2>2 DEF TInv, WithinLimits, CountFollows, BudgetIsKept
<1> QED BY <1>1, TransportInvariant, PTL

(* A change of the contract lets at most one more request through.         *)
THEOREM DriftBounded == TSpec => []DriftIsNoticed
<1>1. TInv => DriftIsNoticed
  BY DEF TInv, DriftPaid, DriftIsNoticed
<1> QED BY <1>1, TransportInvariant, PTL

(* A request that reaches the wire was allowed by the contract and is by   *)
(* the scope of the moment: whatever is edited between check and send.     *)
THEOREM SentIsAuthorized == TSpec => OnlyAuthorizedIsSent
<1>1. TInv /\ [TNext]_tvars =>
        [sent' # sent => Authorized(Contracted, wire.url) /\ Authorized(scope, wire.url)]_tvars
  <2> SUFFICES ASSUME TInv, TNext, sent' # sent
               PROVE  Authorized(Contracted, wire.url) /\ Authorized(scope, wire.url)
    OBVIOUS
  <2>1. Open
    BY DEF TNext, Ask, Take, Transporting, Reserve, Receive, Abort, Cancel, Change
  <2>2. wire.stage = "reserved" /\ Authorized(scope, wire.url)
    BY <2>1 DEF Open, ScopeNow
  <2> QED BY <2>2 DEF TInv, CheckedFirst
<1> QED BY <1>1, TransportInvariant, PTL DEF TSpec, OnlyAuthorizedIsSent

-----------------------------------------------------------------------------
(* Execution is a caller of Transport *)

LEMMA InitIsTransport == Init => TInit
BY DEF Init

LEMMA RunnerIsTransport == Runner => [TNext]_tvars
<1> SUFFICES ASSUME Runner PROVE [TNext]_tvars
  OBVIOUS
<1>1. CASE Crawl \/ AskAs \/ Probe
  BY <1>1 DEF Crawl, AskAs, Probe, TNext
<1>2. CASE Crawled \/ SeenAs \/ Probed \/ CallFailed
  BY <1>2 DEF Crawled, SeenAs, Probed, CallFailed, TNext
<1>3. CASE Gather \/ Round \/ PlannerFails \/ StartCheck \/ Judge \/ Conclude
  BY <1>3 DEF Gather, Round, PlannerFails, StartCheck, Judge, Conclude
<1>4. CASE \E batch \in Batches, manual \in {"none", "unselected", "selected"} :
             Planned(batch, manual)
  BY <1>4 DEF Planned
<1>5. CASE Transporting
  BY <1>5 DEF TNext
<1> QED BY <1>1, <1>2, <1>3, <1>4, <1>5 DEF Runner

LEMMA NextIsTransport == [Next]_vars => [TNext]_tvars
<1> SUFFICES ASSUME [Next]_vars PROVE [TNext]_tvars
  OBVIOUS
<1>1. CASE Runner
  BY <1>1, RunnerIsTransport
<1>2. CASE User
  BY <1>2 DEF User, TNext
<1>3. CASE UNCHANGED vars
  BY <1>3 DEF vars
<1> QED BY <1>1, <1>2, <1>3 DEF Next

(* A run reaches its target through Transport alone: every step of         *)
(* discovery, planning and checking is a step of TSpec or leaves it alone. *)
THEOREM RunUsesTransport == Spec => TSpec
BY InitIsTransport, NextIsTransport, PTL DEF Spec, TSpec

(* So what was proved of Transport holds of every run.                     *)
THEOREM RunIsSafe == Spec => []BudgetIsKept /\ []DriftIsNoticed /\ OnlyAuthorizedIsSent
BY RunUsesTransport, BudgetKept, DriftBounded, SentIsAuthorized

-----------------------------------------------------------------------------
(* The status of a run *)

(* A request is under way only where the runner awaits one, and the        *)
(* status is that of the phase the runner is in.                           *)
StatusFollows ==
    /\ wire.stage # "idle" => pc \in {"crawl", "a", "b", "probe"}
    /\ pc \in {"crawl", "a", "b", "gather", "round", "planner", "check", "probe", "verify", "done"}
    /\ pc \in {"crawl", "a", "b", "gather"} => status = "discovering"
    /\ pc = "round" => status \in {"discovering", "planning", "verifying"}
    /\ status = "discovering" => round = 0
    /\ pc = "planner" => status = "planning"
    /\ pc \in {"check", "probe"} => status = "executing"
    /\ pc = "verify" => status = "verifying"

StatusMoves ==
    /\ StatusFollows'
    /\ status' # status => <<status, status'>> \in RunMoves

LEMMA EndMoves ==
    ASSUME StatusFollows, pc # "done",
           NEW s \in {"completed", "stopped", "cancelled", "failed"}, EndRun(s),
           s = "completed" => status \in {"planning", "verifying"},
           wire'.stage = "idle"
    PROVE  StatusMoves
<1>1. status' = s /\ pc' = "done"
  BY DEF EndRun
<1>2. StatusFollows'
  BY <1>1 DEF StatusFollows
<1>3. <<status, s>> \in RunMoves
  <2>1. status \in {"discovering", "planning", "executing", "verifying"}
    BY DEF StatusFollows
  <2>2. CASE s = "completed"
    BY <2>2 DEF RunMoves
  <2>3. CASE s # "completed"
    BY <2>1, <2>3 DEF RunMoves, Cut, Terminal
  <2> QED BY <2>2, <2>3
<1> QED BY <1>1, <1>3, <1>2 DEF StatusMoves

LEMMA FinalizeMoves ==
    ASSUME StatusFollows, pc # "done", NEW error, Finalize(error), wire'.stage = "idle"
    PROVE  StatusMoves
<1>1. EndFor(error) \in {"stopped", "cancelled", "failed"}
  BY DEF EndFor
<1>2. EndRun(EndFor(error))
  BY DEF Finalize
<1> QED BY <1>1, <1>2, EndMoves

(* A call that Ask begins or refuses, in a phase that awaits one.          *)
LEMMA WaitMoves ==
    ASSUME StatusFollows, UNCHANGED <<status, round>>, pc' = pc,
           pc \in {"crawl", "a", "b", "probe"}
    PROVE  StatusMoves
BY DEF StatusFollows, StatusMoves

LEMMA DiscoveryMoves ==
    ASSUME StatusFollows, Crawl \/ Crawled \/ AskAs \/ SeenAs
    PROVE  StatusMoves
<1>1. status' = status /\ round' = round
  BY DEF Crawl, Crawled, AskAs, SeenAs
<1>2. pc \in {"crawl", "a", "b"} /\ pc' \in {"crawl", "a", "b", "gather"}
  BY DEF Crawl, Crawled, AskAs, SeenAs, AfterIdentity
<1>3. wire'.stage = "idle" \/ pc' = pc
  <2>1. CASE Crawl /\ pc' # pc
    <3>1. UNCHANGED tvars /\ wire.stage = "idle"
      BY <2>1 DEF Crawl
    <3> QED BY <3>1 DEF tvars
  <2>2. CASE AskAs /\ pc' # pc
    <3>1. UNCHANGED tvars /\ wire.stage = "idle"
      BY <2>2 DEF AskAs
    <3> QED BY <3>1 DEF tvars
  <2>3. CASE Crawled \/ SeenAs
    <3>1. Take
      BY <2>3 DEF Crawled, SeenAs
    <3> QED BY <3>1 DEF Take, Idle
  <2> QED BY <2>1, <2>2, <2>3
<1> QED BY <1>1, <1>2, <1>3 DEF StatusFollows, StatusMoves

LEMMA RoundMoves ==
    ASSUME StatusFollows, Gather \/ Round
    PROVE  StatusMoves
<1>0. wire' = wire /\ wire.stage = "idle" /\ pc # "done"
  BY DEF Gather, Round, tvars, StatusFollows
<1>1. CASE Gather /\ EndRun("cancelled")
  BY <1>0, <1>1, EndMoves
<1>2. CASE Gather /\ EndRun("stopped")
  BY <1>0, <1>2, EndMoves
<1>3. CASE /\ Gather /\ pc' = "round"
           /\ status' = IF inventory' = <<>> THEN "planning" ELSE status
  <2>1. status = "discovering" /\ status' \in {"discovering", "planning"}
    BY <1>3 DEF Gather, StatusFollows
  <2>2. status' = "discovering" => round' = 0
    BY <1>3, <2>1 DEF Gather, StatusFollows
  <2>3. <<"discovering", "planning">> \in RunMoves
    BY DEF RunMoves
  <2> QED BY <1>0, <1>3, <2>1, <2>2, <2>3 DEF StatusFollows, StatusMoves
<1>4. CASE Round /\ round = MaxRounds /\ EndRun("completed")
  <2>1. status \in {"planning", "verifying"}
    BY <1>4, RoundsAssumption DEF Round, StatusFollows
  <2> QED BY <1>0, <1>4, <2>1, EndMoves
<1>5. CASE Round /\ EndRun("cancelled")
  BY <1>0, <1>5, EndMoves
<1>6. CASE Round /\ Finalize("drift")
  BY <1>0, <1>6, FinalizeMoves
<1>7. CASE Round /\ pc' = "planner" /\ status' = StatusOfRound
  <2>1. status \in {"discovering", "planning", "verifying"} /\ status' = "planning"
    BY <1>7 DEF Round, StatusFollows, StatusOfRound
  <2>2. status # "planning" => <<status, "planning">> \in RunMoves
    BY <2>1 DEF RunMoves
  <2> QED BY <1>0, <1>7, <2>1, <2>2 DEF StatusFollows, StatusMoves
<1> QED BY <1>1, <1>2, <1>3, <1>4, <1>5, <1>6, <1>7 DEF Gather, Round

LEMMA PlannerMoves ==
    ASSUME StatusFollows,
           \/ PlannerFails
           \/ \E batch \in Batches, manual \in {"none", "unselected", "selected"} :
                    Planned(batch, manual)
    PROVE  StatusMoves
<1>0. wire' = wire /\ wire.stage = "idle" /\ pc = "planner" /\ status = "planning"
  BY DEF PlannerFails, Planned, tvars, StatusFollows
<1>1. CASE Finalize("cancelled")
  BY <1>0, <1>1, FinalizeMoves
<1>2. CASE Finalize("planner")
  BY <1>0, <1>2, FinalizeMoves
<1>3. CASE EndRun("completed")
  BY <1>0, <1>3, EndMoves
<1>4. CASE pc' = "check" /\ status' = "executing"
  <2>1. <<"planning", "executing">> \in RunMoves
    BY DEF RunMoves
  <2> QED BY <1>0, <1>4, <2>1 DEF StatusFollows, StatusMoves
<1>5. CASE pc' = "round" /\ status' = status
  BY <1>0, <1>5 DEF StatusFollows, StatusMoves
<1> QED BY <1>1, <1>2, <1>3, <1>4, <1>5 DEF PlannerFails, Planned

LEMMA CheckMoves ==
    ASSUME StatusFollows, StartCheck \/ Probe \/ Probed \/ Judge \/ Conclude
    PROVE  StatusMoves
<1>1. CASE StartCheck
  BY <1>1 DEF StartCheck, tvars, StatusFollows, StatusMoves
<1>2. CASE Probe
  BY <1>2, WaitMoves DEF Probe, svars
<1>3. CASE Probed
  BY <1>3, WaitMoves DEF Probed
<1>4. CASE Judge
  <2>1. wire' = wire /\ wire.stage = "idle" /\ status = "executing"
    BY <1>4 DEF Judge, tvars, StatusFollows
  <2>2. <<"executing", "verifying">> \in RunMoves
    BY DEF RunMoves
  <2> QED BY <1>4, <2>1, <2>2 DEF Judge, StatusFollows, StatusMoves
<1>5. CASE Conclude
  <2>1. wire' = wire /\ wire.stage = "idle" /\ status = "verifying" /\ pc = "verify"
    BY <1>5 DEF Conclude, tvars, StatusFollows
  <2>2. CASE EndRun("cancelled")
    BY <2>1, <2>2, EndMoves
  <2>3. CASE EndRun("stopped")
    BY <2>1, <2>3, EndMoves
  <2>4. CASE EndRun("completed")
    BY <2>1, <2>4, EndMoves
  <2>5. CASE pc' = "round" /\ status' = status
    BY <2>1, <2>5 DEF StatusFollows, StatusMoves
  <2> QED BY <1>5, <2>2, <2>3, <2>4, <2>5 DEF Conclude
<1> QED BY <1>1, <1>2, <1>3, <1>4, <1>5

LEMMA FailureMoves == ASSUME StatusFollows, CallFailed PROVE StatusMoves
<1>1. pc # "done" /\ wire'.stage = "idle"
  BY DEF CallFailed, StatusFollows, Take, Idle
<1> QED BY <1>1, FinalizeMoves DEF CallFailed

LEMMA TransportMoves ==
    ASSUME StatusFollows, UNCHANGED svars, Transporting \/ Cancel \/ Change
    PROVE  StatusMoves
<1>1. CASE Transporting
  <2>1. wire.stage # "idle"
    BY <1>1 DEF Transporting, Reserve, Open, Receive, Abort
  <2> QED BY <2>1 DEF svars, StatusFollows, StatusMoves
<1>2. CASE Cancel \/ Change
  BY <1>2 DEF Cancel, Change, svars, StatusFollows, StatusMoves
<1> QED BY <1>1, <1>2

LEMMA EveryStepMoves == ASSUME StatusFollows, [Next]_vars PROVE StatusMoves
<1>1. CASE Runner
  BY <1>1, DiscoveryMoves, RoundMoves, PlannerMoves, CheckMoves, FailureMoves, TransportMoves
     DEF Runner
<1>2. CASE User
  BY <1>2, TransportMoves DEF User
<1>3. CASE UNCHANGED vars
  BY <1>3 DEF vars, svars, tvars, StatusFollows, StatusMoves
<1> QED BY <1>1, <1>2, <1>3 DEF Next

(* Every status the runner writes is one transition_run accepts, so a run  *)
(* never fails for a move of its own, for any target, plan and limits.     *)
THEOREM LegalMoves == Spec => MovesAreLegal
<1>1. Init => StatusFollows
  BY DEF Init, TInit, Idle, StatusFollows
<1>2. StatusFollows /\ [Next]_vars => StatusFollows'
  BY EveryStepMoves DEF StatusMoves
<1>3. StatusFollows /\ [Next]_vars => [status' # status => <<status, status'>> \in RunMoves]_vars
  BY EveryStepMoves DEF StatusMoves
<1> QED BY <1>1, <1>2, <1>3, PTL DEF Spec, MovesAreLegal

-----------------------------------------------------------------------------
(* The discovery and the course of a check: the inductive invariant *)

Verdicts == {"none", "inconclusive", "confirmed", "suspected", "not_observed"}

PlanSet == UNION {{b[i] : i \in 1..Len(b)} : b \in Batches}

CheckType ==
    [plan : PlanSet, round : Nat,
     status : {"queued", "executing", "completed", "failed", "cancelled"},
     cost : Nat, verdict : Verdicts]

Ended == pc = "done" => status \in {"completed", "stopped", "cancelled", "failed"}

(* A result that is no error answers the call that was made.               *)
Answered == Returned => result.reply.who = wire.who /\ result.reply.url = wire.url

(* The start url is the first that is asked, anonymously; unless that is   *)
(* not to be, no identity is used before its shape is known.               *)
StartKnown == Shape("GET", Start) \in DOMAIN inventory

StartSeen ==
    /\ pc = "crawl" =>
        \/ wire.stage = "idle" /\ queue = <<Start>> /\ queued = {}
        \/ wire.stage # "idle" /\ wire.url = Start
        \/ StartKnown \/ ~Candidate(Start)
    /\ pc = "crawl" /\ wire.stage # "idle" => wire.who = "anonymous"
    /\ pc \in {"a", "b"} => StartKnown \/ DiscoveryOver \/ ~Candidate(Start)
    /\ pc \in {"a", "b"} /\ wire.stage # "idle" => StartKnown

(* What the discovery lends to a check is an anonymous answer of the url.  *)
Lent(e) ==
    /\ {"url", "auth", "replayed", "reply"} \subseteq DOMAIN e
    /\ e.replayed => e.reply.url = e.url /\ e.reply.who = "anonymous"

Inventory == \A s \in DOMAIN inventory : Lent(inventory[s])

(* An endpoint is filed under the shape of its own url, which parses: only *)
(* such a url is crawled.                                                  *)
Own(s, e) ==
    /\ {"url", "method"} \subseteq DOMAIN e
    /\ e.url \in DOMAIN Address /\ s = Shape(e.method, e.url)

Filed ==
    /\ pc = "crawl" /\ wire.stage # "idle" => wire.url \in DOMAIN Address
    /\ \A s \in DOMAIN inventory : Own(s, inventory[s])

Payable(plan, cost) ==
    /\ plan.tool \in Tools /\ plan.mode \in Modes(plan.tool)
    /\ plan.shape \in DOMAIN inventory
    /\ cost = CostOf(plan)
    /\ plan.tool = "security_headers_cookie" => inventory[plan.shape].replayed
    /\ plan.tool \in Rewriting => plan.param \in plan.shape.query

Rows ==
    /\ round \in Nat
    /\ checks \in Seq(CheckType)
    /\ pc \in {"crawl", "a", "b", "gather"} => checks = <<>>
    /\ \A i \in DOMAIN checks : Payable(checks[i].plan, checks[i].cost)

(* Checks are executed in their order.                                     *)
InOrder ==
    /\ pc \in {"check", "probe"} =>
        /\ at \in 1..Len(checks)
        /\ \A i \in 1..Len(checks) : i > at => checks[i].status = "queued"
    /\ pc = "check" => checks[at].status = "queued"
    /\ pc = "probe" => checks[at].status = "executing"

(* The first n steps of the course are answered, the next is asked.        *)
Followed(n) ==
    /\ n \in 0..Len(Course)
    /\ DOMAIN responses = {Course[j].role : j \in 1..n}
    /\ \A j \in 1..n :
        LET r == responses[Course[j].role]
        IN  /\ r.url = Asked
            /\ r.who = Course[j].who \/ (j = 1 /\ Target.replayed /\ r.who = "anonymous")
    /\ wire.stage # "idle" =>
        /\ n < Len(Course)
        /\ wire.role = Course[n + 1].role /\ wire.who = Course[n + 1].who
        /\ wire.url = Asked

OnCourse == pc = "probe" => \E n \in 0..Len(Course) : Followed(n)

Checking ==
    Ended /\ Answered /\ StartSeen /\ Inventory /\ Filed /\ Rows /\ InOrder /\ OnCourse

-----------------------------------------------------------------------------
(* Courses and their costs *)

(* The steps of a course fill different roles.                             *)
Varied(course) ==
    /\ Len(course) \in 1..4
    /\ \A i, j \in 1..Len(course) : course[i].role = course[j].role => i = j

LEMMA CourseShape ==
    ASSUME NEW tool \in Tools, NEW mode \in Modes(tool)
    PROVE  Varied(Steps(tool, mode))
  <1>1. CASE tool = "security_headers_cookie"
    <2>1. Steps(tool, mode) = <<Step("baseline", "anonymous")>> BY <1>1 DEF Steps
    <2> QED BY <2>1 DEF Varied, Step
  <1>2. CASE tool = "credentialed_cors"
    <2>1. Steps(tool, mode) =
            <<Step("baseline", mode), Step("anonymous", "anonymous"), Step("probe", mode)>>
      BY <1>2 DEF Steps
    <2> QED BY <2>1 DEF Varied, Step
  <1>3. CASE tool = "jwt_integrity"
    <2>1. Steps(tool, mode) =
            <<Step("baseline", mode), Step("anonymous", "anonymous"),
              Step("signature_probe", "forged"), Step("alg_none_probe", "forged")>>
      BY <1>3 DEF Steps
    <2> QED BY <2>1 DEF Varied, Step
  <1>4. CASE tool \in {"open_redirect", "lazy_reflection"}
    <2>1. Steps(tool, mode) = <<Step("probe", mode)>> BY <1>4 DEF Steps
    <2> QED BY <2>1 DEF Varied, Step
  <1>5. CASE tool = "readonly_idor"
    <2>1. Steps(tool, mode) = <<Step("identity_a", "a"), Step("identity_b", "b")>>
      BY <1>5 DEF Steps
    <2> QED BY <2>1 DEF Varied, Step
  <1>6. CASE tool = "options_capabilities"
    <2>1. Steps(tool, mode) = <<Step("preflight", mode)>> BY <1>6 DEF Steps
    <2> QED BY <2>1 DEF Varied, Step
  <1>7. CASE tool = "anonymous_authenticated_diff"
    <2>1. Steps(tool, mode) = <<Step("anonymous", "anonymous"), Step("baseline", mode)>>
      BY <1>7 DEF Steps
    <2> QED BY <2>1 DEF Varied, Step
  <1> QED BY <1>1, <1>2, <1>3, <1>4, <1>5, <1>6, <1>7 DEF Tools

LEMMA CourseIsSequence ==
    ASSUME NEW tool \in Tools, NEW mode
    PROVE  DOMAIN Steps(tool, mode) = 1..Len(Steps(tool, mode))
  <1>1. CASE tool = "security_headers_cookie" BY <1>1 DEF Steps
  <1>2. CASE tool = "credentialed_cors" BY <1>2 DEF Steps
  <1>3. CASE tool = "jwt_integrity" BY <1>3 DEF Steps
  <1>4. CASE tool \in {"open_redirect", "lazy_reflection"}
    <2>1. Steps(tool, mode) = <<Step("probe", mode)>> BY <1>4 DEF Steps
    <2> QED BY <2>1
  <1>5. CASE tool = "readonly_idor" BY <1>5 DEF Steps
  <1>6. CASE tool = "options_capabilities" BY <1>6 DEF Steps
  <1>7. CASE tool = "anonymous_authenticated_diff" BY <1>7 DEF Steps
  <1> QED BY <1>1, <1>2, <1>3, <1>4, <1>5, <1>6, <1>7 DEF Tools

LEMMA CostCovers ==
    ASSUME NEW tool \in Tools, NEW mode \in Modes(tool), NEW e,
           tool = "security_headers_cookie" => e.replayed
    PROVE  /\ EffectiveCost(tool, mode, e) \in Nat
           /\ Len(Steps(tool, mode)) <=
                EffectiveCost(tool, mode, e)
                + (IF Reuses(tool, mode) /\ e.replayed THEN 1 ELSE 0)
  <1>1. CASE tool = "security_headers_cookie"
    BY <1>1 DEF Steps, Reuses, EffectiveCost, RequestCost
  <1>2. CASE tool = "credentialed_cors" BY <1>2 DEF Steps, Reuses, EffectiveCost
  <1>3. CASE tool = "jwt_integrity" BY <1>3 DEF Steps, Reuses, EffectiveCost, RequestCost
  <1>4. CASE tool \in {"open_redirect", "lazy_reflection"}
    BY <1>4 DEF Steps, Reuses, EffectiveCost, RequestCost
  <1>5. CASE tool = "readonly_idor" BY <1>5 DEF Steps, Reuses, EffectiveCost, RequestCost
  <1>6. CASE tool = "options_capabilities" BY <1>6 DEF Steps, Reuses, EffectiveCost, RequestCost
  <1>7. CASE tool = "anonymous_authenticated_diff" BY <1>7 DEF Steps, Reuses, EffectiveCost
  <1> QED BY <1>1, <1>2, <1>3, <1>4, <1>5, <1>6, <1>7 DEF Tools

LEMMA VerdictIsOne ==
    ASSUME NEW tool \in Tools, NEW mode, NEW e, NEW R
    PROVE  Verify(tool, mode, e, R) \in Verdicts
  <1>1. SecurityHeaders(R) \in Verdicts /\ IdentityVisibility(e, R) \in Verdicts
    BY DEF SecurityHeaders, IdentityVisibility, Verdicts
  <1>2. Cors(R) \in Verdicts /\ Jwt(R) \in Verdicts /\ OpenRedirect(R) \in Verdicts
    BY DEF Cors, Jwt, OpenRedirect, Verdicts
  <1>3. Reflection(R) \in Verdicts /\ Idor(e, R) \in Verdicts /\ OptionsCapabilities(R) \in Verdicts
    BY DEF Reflection, Idor, OptionsCapabilities, Verdicts
  <1>4. Concluded(tool, e, R) \in Verdicts BY <1>1, <1>2, <1>3 DEF Concluded, Tools
  <1> QED BY <1>4 DEF Verify, Verdicts

LEMMA ConfirmedIsCollected ==
    ASSUME NEW tool, NEW mode, NEW e, NEW R, Verify(tool, mode, e, R) = "confirmed"
    PROVE  /\ \A k \in 1..Len(Steps(tool, mode)) : Steps(tool, mode)[k].role \in DOMAIN R
           /\ \A r \in DOMAIN R : R[r].complete
BY DEF Verify, Collected

(* As many roles are filled as steps of the course are answered.           *)
LEMMA RolesCount ==
    ASSUME NEW tool \in Tools, NEW mode \in Modes(tool), NEW n \in 0..Len(Steps(tool, mode))
    PROVE  Cardinality({Steps(tool, mode)[j].role : j \in 1..n}) = n
  <1> DEFINE course == Steps(tool, mode)
             roles == {course[j].role : j \in 1..n}
             f == [j \in 1..n |-> course[j].role]
  <1>1. Len(course) \in Nat /\ \A i, j \in 1..Len(course) : course[i].role = course[j].role => i = j
    BY CourseShape DEF Varied
  <1>2. n \in Nat /\ 1..n \subseteq 1..Len(course) BY <1>1
  <1> HIDE DEF course
  <1>3. f \in [1..n -> roles] OBVIOUS
  <1>4. \A r \in roles : \E j \in 1..n : f[j] = r OBVIOUS
  <1>5. \A i, j \in 1..n : f[i] = f[j] => i = j BY <1>1, <1>2
  <1>6. f \in Bijection(1..n, roles)
    BY <1>3, <1>4, <1>5 DEF Bijection, Injection, Surjection, IsInjective
  <1>7. IsFiniteSet(1..n) /\ Cardinality(1..n) = n
    <2>1. IsFiniteSet(1..n) /\ Cardinality(1..n) = IF 1 > n THEN 0 ELSE n - 1 + 1
      BY <1>2, FS_Interval
    <2> QED BY <1>2, <2>1
  <1>8. Cardinality(roles) = n BY <1>6, <1>7, FS_Bijection DEF ExistsBijection
  <1> QED BY <1>8 DEF course

-----------------------------------------------------------------------------
(* Induction over the naturals *)

LEMMA LeastNatural ==
  ASSUME NEW T \in SUBSET Nat, T # {}
  PROVE  \E n \in T : \A m \in T : n <= m
  <1>. DEFINE R == StrictSubsetOrdering(Nat)
              Lower(n) == {m \in Nat : m < n}
              B == {Lower(n) : n \in T}
  <1>1. IsWellFoundedOn(R, FiniteSubsetsOf(Nat)) BY FS_StrictSubsetOrderingWellFounded
  <1>2. \A n \in Nat : IsFiniteSet(Lower(n)) BY FS_BoundedSetOfNaturals
  <1>3. B \subseteq FiniteSubsetsOf(Nat) /\ B # {} BY <1>2 DEF FiniteSubsetsOf
  <1>4. PICK b \in B : \A c \in B : ~(<<c, b>> \in R) BY <1>1, <1>3, WFMin
  <1>5. PICK n \in T : b = Lower(n) OBVIOUS
  <1>6. ASSUME NEW m \in T, m < n PROVE FALSE
    <2>1. Lower(m) \subseteq Lower(n) BY <1>6
    <2>2. m \in Lower(n) /\ m \notin Lower(m) BY <1>6
    <2>3. Lower(m) \in B /\ Lower(m) \in SUBSET Nat /\ Lower(n) \in SUBSET Nat OBVIOUS
    <2>. HIDE DEF Lower, B
    <2>4. <<Lower(m), Lower(n)>> \in R BY <2>1, <2>2, <2>3 DEF StrictSubsetOrdering
    <2>. QED BY <1>4, <1>5, <2>3, <2>4
  <1>. QED BY <1>6

LEMMA InductionUpTo ==
  ASSUME NEW N \in Nat, NEW T \in SUBSET (0..N), 0 \in T,
         \A n \in 1..N : n - 1 \in T => n \in T
  PROVE  T = 0..N
  <1>. SUFFICES ASSUME (0..N) \ T # {} PROVE FALSE OBVIOUS
  <1>1. PICK n \in (0..N) \ T : \A m \in (0..N) \ T : n <= m
    <2>1. (0..N) \ T \in SUBSET Nat OBVIOUS
    <2>. QED BY <2>1, LeastNatural
  <1>2. n # 0 /\ n \in 0..N BY <1>1
  <1>3. n - 1 \in 0..N /\ n \in 1..N /\ ~(n <= n - 1) BY <1>2
  <1>4. n - 1 \in T BY <1>1, <1>3
  <1>. QED BY <1>1, <1>3, <1>4

(* A definition by recursion over 0..N has a solution.                     *)
StepsOn(N, V) == [1..N -> [V -> V]]

Solves(f, N, V, b, step) ==
  f \in [0..N -> V] /\ f[0] = b /\ \A i \in 1..N : f[i] = step[i][f[i - 1]]

LEMMA RecursionExists ==
  ASSUME NEW N \in Nat, NEW V, NEW b \in V, NEW step \in StepsOn(N, V)
  PROVE  \E f : Solves(f, N, V, b, step)
  <1>. DEFINE T == {n \in 0..N : \E f : Solves(f, n, V, b, step)}
  <1>1. 0 \in T
    <2>. DEFINE f == [i \in 0..0 |-> b]
    <2>1. Solves(f, 0, V, b, step) BY DEF Solves
    <2>. HIDE DEF f
    <2>. QED BY <2>1
  <1>2. ASSUME NEW n \in 1..N, n - 1 \in T PROVE n \in T
    <2>1. PICK f : Solves(f, n - 1, V, b, step) BY <1>2
    <2>2. /\ f \in [0..(n - 1) -> V] /\ f[0] = b
          /\ \A i \in 1..(n - 1) : f[i] = step[i][f[i - 1]]
      BY <2>1 DEF Solves
    <2>. DEFINE g == [i \in 0..n |-> IF i = n THEN step[n][f[n - 1]] ELSE f[i]]
    <2>3. n - 1 \in 0..(n - 1) /\ f[n - 1] \in V BY <2>2
    <2>4. step[n][f[n - 1]] \in V BY <2>3 DEF StepsOn
    <2>5. \A i \in 0..n : i # n => i \in 0..(n - 1) OBVIOUS
    <2>6. g \in [0..n -> V] BY <2>2, <2>4, <2>5
    <2>7. g[0] = b BY <2>2
    <2>8. ASSUME NEW i \in 1..n PROVE g[i] = step[i][g[i - 1]]
      <3>1. i - 1 \in 0..n /\ i \in 0..n /\ i - 1 # n /\ (i # n => i \in 1..(n - 1)) OBVIOUS
      <3>2. g[i - 1] = f[i - 1] BY <3>1
      <3>3. CASE i = n BY <3>1, <3>2, <3>3
      <3>4. CASE i # n BY <2>2, <3>1, <3>2, <3>4
      <3>. QED BY <3>3, <3>4
    <2>. HIDE DEF g
    <2>9. Solves(g, n, V, b, step) BY <2>6, <2>7, <2>8 DEF Solves
    <2>10. n \in 0..N OBVIOUS
    <2>. QED BY <2>9, <2>10
  <1>. HIDE DEF T
  <1>3. T = 0..N BY <1>1, <1>2, InductionUpTo DEF T
  <1>4. N \in T BY <1>3
  <1>. QED BY <1>4 DEF T

-----------------------------------------------------------------------------
(* Sums *)

LEMMA SumsSteps ==
    ASSUME NEW n \in Nat, NEW f \in [1..n -> Int]
    PROVE  /\ Sums(f, n) \in [0..n -> Int]
           /\ Sums(f, n)[0] = 0
           /\ \A i \in 1..n : Sums(f, n)[i] = Sums(f, n)[i - 1] + f[i]
  <1> DEFINE Def(s) == s = [i \in 0..n |-> IF i = 0 THEN 0 ELSE s[i - 1] + f[i]]
             step == [i \in 1..n |-> [x \in Int |-> x + f[i]]]
             sum == CHOOSE s : Def(s)
  <1>1. step \in [1..n -> [Int -> Int]] OBVIOUS
  <1>2. \A i \in 1..n, x \in Int : step[i][x] = x + f[i] OBVIOUS
  <1>3. sum = Sums(f, n) BY DEF Sums
  <1>4. ASSUME NEW s, Def(s)
        PROVE  /\ DOMAIN s = 0..n /\ s = [i \in 0..n |-> s[i]] /\ s[0] = 0
               /\ \A i \in 1..n : s[i] = s[i - 1] + f[i]
    <2>1. \A i \in 1..n : i \in 0..n /\ i # 0 OBVIOUS
    <2>2. 0 \in 0..n OBVIOUS
    <2> QED BY <1>4, <2>1, <2>2
  <1>5. ASSUME NEW s \in [0..n -> Int], s[0] = 0, \A i \in 1..n : s[i] = s[i - 1] + f[i]
        PROVE  Def(s)
    <2>1. \A i \in 0..n : i # 0 => i \in 1..n OBVIOUS
    <2>2. \A i \in 0..n : s[i] = IF i = 0 THEN 0 ELSE s[i - 1] + f[i] BY <1>5, <2>1
    <2> QED BY <1>5, <2>2
  <1> HIDE DEF step
  <1>6. PICK s : Solves(s, n, Int, 0, step)
    <2>1. step \in StepsOn(n, Int) BY <1>1 DEF StepsOn
    <2>2. 0 \in Int OBVIOUS
    <2> QED BY <2>1, <2>2, RecursionExists
  <1>7. \A i \in 1..n : s[i] = s[i - 1] + f[i]
    <2>1. \A i \in 1..n : i - 1 \in 0..n OBVIOUS
    <2>2. \A i \in 1..n : s[i - 1] \in Int BY <1>6, <2>1 DEF Solves
    <2> QED BY <1>2, <1>6, <2>2 DEF Solves
  <1>8. Def(s) BY <1>5, <1>6, <1>7 DEF Solves
  <1> HIDE DEF Def
  <1>9. Def(sum) BY <1>8
  <1> HIDE DEF sum
  <1>10. /\ sum = [i \in 0..n |-> sum[i]] /\ sum[0] = 0
         /\ \A i \in 1..n : sum[i] = sum[i - 1] + f[i]
    BY <1>4, <1>9
  <1> DEFINE T == {i \in 0..n : sum[i] \in Int}
  <1>11. T = 0..n
    <2>1. 0 \in T BY <1>10
    <2>2. ASSUME NEW i \in 1..n, i - 1 \in T PROVE i \in T
      <3>1. i \in 0..n /\ f[i] \in Int OBVIOUS
      <3>2. sum[i] = sum[i - 1] + f[i] BY <1>10
      <3>3. sum[i - 1] \in Int BY <2>2
      <3> QED BY <3>1, <3>2, <3>3
    <2>3. T \subseteq 0..n OBVIOUS
    <2> HIDE DEF T
    <2> QED BY <2>1, <2>2, <2>3, InductionUpTo
  <1>12. sum \in [0..n -> Int] BY <1>10, <1>11
  <1> QED BY <1>3, <1>10, <1>12

(* Where one number is less by d and none is more, the sum is less by d.   *)
LEMMA SumsDrop ==
    ASSUME NEW n \in Nat, NEW f \in [1..n -> Int], NEW g \in [1..n -> Int],
           NEW a \in 1..n, NEW d \in Nat, f[a] + d <= g[a], \A i \in 1..n : f[i] <= g[i]
    PROVE  Sums(f, n)[n] + d <= Sums(g, n)[n]
  <1> DEFINE F == Sums(f, n)
             G == Sums(g, n)
  <1>1. /\ F \in [0..n -> Int] /\ F[0] = 0
        /\ \A i \in 1..n : F[i] = F[i - 1] + f[i]
    BY SumsSteps
  <1>2. /\ G \in [0..n -> Int] /\ G[0] = 0
        /\ \A i \in 1..n : G[i] = G[i - 1] + g[i]
    BY SumsSteps
  <1> HIDE DEF F, G
  <1> DEFINE T == {i \in 0..n : F[i] <= G[i] /\ (a <= i => F[i] + d <= G[i])}
  <1>3. 0 \in T BY <1>1, <1>2
  <1>4. ASSUME NEW i \in 1..n, i - 1 \in T PROVE i \in T
    <2>1. i \in 0..n /\ i - 1 \in 0..n OBVIOUS
    <2>2. F[i] = F[i - 1] + f[i] /\ G[i] = G[i - 1] + g[i] BY <1>1, <1>2
    <2>3. F[i - 1] \in Int /\ G[i - 1] \in Int /\ f[i] \in Int /\ g[i] \in Int
      BY <1>1, <1>2, <2>1
    <2>4. F[i - 1] <= G[i - 1] /\ (a <= i - 1 => F[i - 1] + d <= G[i - 1]) BY <1>4
    <2>5. f[i] <= g[i] /\ (i = a => f[i] + d <= g[i]) OBVIOUS
    <2>6. PICK p, q, x, y \in Int : F[i - 1] = p /\ G[i - 1] = q /\ f[i] = x /\ g[i] = y
      BY <2>3
    <2>7. p + x <= q + y /\ (a <= i => p + x + d <= q + y)
      BY <2>4, <2>5, <2>6
    <2>8. F[i] <= G[i] /\ (a <= i => F[i] + d <= G[i]) BY <2>2, <2>6, <2>7
    <2> QED BY <2>1, <2>8
  <1>5. T = 0..n
    <2>1. T \subseteq 0..n OBVIOUS
    <2> HIDE DEF T
    <2> QED BY <1>3, <1>4, <2>1, InductionUpTo
  <1>6. n \in T
    <2>1. n \in 0..n OBVIOUS
    <2> HIDE DEF T
    <2> QED BY <1>5, <2>1
  <1>7. a <= n OBVIOUS
  <1> QED BY <1>6, <1>7 DEF F, G

(* Numbers before the others that are all 0 count for nothing.             *)
LEMMA SumsAfter ==
    ASSUME NEW k \in Nat, NEW m \in Nat, NEW h \in [1..(k + m) -> Int], NEW g \in [1..m -> Int],
           \A i \in 1..k : h[i] = 0, \A j \in 1..m : h[k + j] = g[j]
    PROVE  Sums(h, k + m)[k + m] = Sums(g, m)[m]
  <1> DEFINE H == Sums(h, k + m)
             G == Sums(g, m)
  <1>0. k + m \in Nat OBVIOUS
  <1>1. /\ H \in [0..(k + m) -> Int] /\ H[0] = 0
        /\ \A i \in 1..(k + m) : H[i] = H[i - 1] + h[i]
    BY <1>0, SumsSteps
  <1>2. /\ G \in [0..m -> Int] /\ G[0] = 0
        /\ \A i \in 1..m : G[i] = G[i - 1] + g[i]
    BY SumsSteps
  <1> HIDE DEF H, G
  <1> DEFINE S == {i \in 0..k : H[i] = 0}
             T == {j \in 0..m : H[k + j] = G[j]}
  <1>3. S = 0..k
    <2>1. 0 \in S BY <1>1
    <2>2. ASSUME NEW i \in 1..k, i - 1 \in S PROVE i \in S
      <3>1. i \in 0..k /\ i \in 1..(k + m) OBVIOUS
      <3>2. H[i - 1] = 0 /\ h[i] = 0 BY <2>2
      <3>3. H[i] = 0 BY <1>1, <3>1, <3>2
      <3> QED BY <3>1, <3>3
    <2>3. S \subseteq 0..k OBVIOUS
    <2> HIDE DEF S
    <2> QED BY <2>1, <2>2, <2>3, InductionUpTo
  <1>4. H[k] = 0
    <2>1. k \in S BY <1>3
    <2> QED BY <2>1
  <1>5. T = 0..m
    <2>1. 0 \in T
      <3>1. k + 0 = k /\ 0 \in 0..m OBVIOUS
      <3> QED BY <1>2, <1>4, <3>1
    <2>2. ASSUME NEW j \in 1..m, j - 1 \in T PROVE j \in T
      <3>1. j \in 0..m /\ k + j \in 1..(k + m) /\ k + (j - 1) = (k + j) - 1 OBVIOUS
      <3>2. H[k + (j - 1)] = G[j - 1] BY <2>2
      <3>3. H[k + j] = H[(k + j) - 1] + h[k + j] BY <1>1, <3>1
      <3>4. G[j] = G[j - 1] + g[j] BY <1>2
      <3>5. H[k + j] = G[j] BY <3>1, <3>2, <3>3, <3>4
      <3> QED BY <3>1, <3>5
    <2>3. T \subseteq 0..m OBVIOUS
    <2> HIDE DEF T
    <2> QED BY <2>1, <2>2, <2>3, InductionUpTo
  <1>6. m \in T
    <2>1. m \in 0..m OBVIOUS
    <2> HIDE DEF T
    <2> QED BY <1>5, <2>1
  <1> QED BY <1>6 DEF H, G

(* One more number.                                                        *)
LEMMA SumsPlus ==
    ASSUME NEW n \in Nat, NEW f \in [1..n -> Int], NEW g \in [1..(n + 1) -> Int],
           \A i \in 1..n : g[i] = f[i]
    PROVE  Sums(g, n + 1)[n + 1] = Sums(f, n)[n] + g[n + 1]
  <1> DEFINE F == Sums(f, n)
             G == Sums(g, n + 1)
  <1>0. n + 1 \in Nat OBVIOUS
  <1>1. /\ F \in [0..n -> Int] /\ F[0] = 0
        /\ \A i \in 1..n : F[i] = F[i - 1] + f[i]
    BY SumsSteps
  <1>2. /\ G \in [0..(n + 1) -> Int] /\ G[0] = 0
        /\ \A i \in 1..(n + 1) : G[i] = G[i - 1] + g[i]
    BY <1>0, SumsSteps
  <1> HIDE DEF F, G
  <1> DEFINE T == {i \in 0..n : G[i] = F[i]}
  <1>3. T = 0..n
    <2>1. 0 \in T BY <1>1, <1>2
    <2>2. ASSUME NEW i \in 1..n, i - 1 \in T PROVE i \in T
      <3>1. i \in 0..n /\ i \in 1..(n + 1) OBVIOUS
      <3>2. G[i - 1] = F[i - 1] BY <2>2
      <3>3. G[i] = G[i - 1] + g[i] /\ F[i] = F[i - 1] + f[i] BY <1>1, <1>2, <3>1
      <3> QED BY <3>1, <3>2, <3>3
    <2>3. T \subseteq 0..n OBVIOUS
    <2> HIDE DEF T
    <2> QED BY <2>1, <2>2, <2>3, InductionUpTo
  <1>4. G[n] = F[n]
    <2>1. n \in T BY <1>3
    <2> QED BY <2>1
  <1>5. n + 1 \in 1..(n + 1) /\ (n + 1) - 1 = n OBVIOUS
  <1> QED BY <1>2, <1>4, <1>5 DEF F, G

-----------------------------------------------------------------------------
(* The accepted checks *)

LEMMA ReservedPlus ==
    ASSUME NEW rows \in Seq(CheckType), NEW r \in CheckType
    PROVE  /\ Reserved(Append(rows, r)) = Reserved(rows) + r.cost
           /\ Append(rows, r) \in Seq(CheckType)
           /\ Len(Append(rows, r)) = Len(rows) + 1
           /\ \A i \in 1..Len(rows) : Append(rows, r)[i] = rows[i]
           /\ Append(rows, r)[Len(rows) + 1] = r
  <1> DEFINE n == Len(rows)
             more == Append(rows, r)
             f == [i \in 1..n |-> rows[i].cost]
             g == [i \in 1..(n + 1) |-> more[i].cost]
  <1>1. n \in Nat /\ DOMAIN rows = 1..n /\ \A i \in 1..n : rows[i] \in CheckType OBVIOUS
  <1>2. /\ more \in Seq(CheckType) /\ Len(more) = n + 1 /\ DOMAIN more = 1..(n + 1)
        /\ \A i \in 1..n : more[i] = rows[i]
        /\ more[n + 1] = r
    OBVIOUS
  <1>3. Reserved(rows) = Sums(f, n)[n] /\ Reserved(more) = Sums(g, n + 1)[n + 1]
    BY <1>1, <1>2 DEF Reserved
  <1>4. \A i \in 1..(n + 1) : more[i] \in CheckType BY <1>2
  <1> HIDE DEF n, more
  <1>5. \A c \in CheckType : c.cost \in Int BY DEF CheckType
  <1>6. f \in [1..n -> Int] /\ g \in [1..(n + 1) -> Int] BY <1>1, <1>4, <1>5
  <1>7. \A i \in 1..n : i \in 1..(n + 1) /\ g[i] = f[i] BY <1>1, <1>2
  <1>8. g[n + 1] = r.cost BY <1>1, <1>2
  <1> HIDE DEF f, g
  <1>9. Sums(g, n + 1)[n + 1] = Sums(f, n)[n] + g[n + 1] BY <1>1, <1>6, <1>7, SumsPlus
  <1> QED BY <1>2, <1>3, <1>8, <1>9 DEF more, n

LEMMA ReservedNone == Reserved(<<>>) = 0
  <1> DEFINE f == [i \in DOMAIN <<>> |-> <<>>[i].cost]
  <1>1. f \in [1..0 -> Int] /\ Len(<<>>) = 0 OBVIOUS
  <1>2. Reserved(<<>>) = Sums(f, 0)[0] BY <1>1 DEF Reserved
  <1> HIDE DEF f
  <1> QED BY <1>1, <1>2, SumsSteps

(* What a batch may become.                                                *)
Acceptable ==
    {rows \in Seq(CheckType) :
        /\ Reserved(rows) <= Remaining
        /\ \A i \in 1..Len(rows) :
            rows[i].status = "queued" /\ Payable(rows[i].plan, rows[i].cost)}

LEMMA RowIsCheck ==
    ASSUME round \in Nat, NEW plan \in PlanSet, Valid(plan)
    PROVE  /\ Row(plan) \in CheckType /\ Row(plan).status = "queued"
           /\ Row(plan).cost = CostOf(plan)
           /\ Payable(Row(plan).plan, Row(plan).cost)
  <1>1. /\ plan.tool \in Tools /\ plan.mode \in Modes(plan.tool)
        /\ plan.shape \in DOMAIN inventory
        /\ plan.tool = "security_headers_cookie" => inventory[plan.shape].replayed
        /\ plan.tool \in Rewriting => plan.param \in plan.shape.query
    BY ApprovedAssumption DEF Valid
  <1>2. CostOf(plan) \in Nat BY <1>1, CostCovers DEF CostOf
  <1>3. Row(plan) = [plan |-> plan, round |-> round, status |-> "queued", cost |-> CostOf(plan),
                     verdict |-> "none"]
    BY DEF Row
  <1>4. Row(plan) \in CheckType BY <1>2, <1>3 DEF CheckType, Verdicts
  <1>5. Row(plan).plan = plan /\ Row(plan).cost = CostOf(plan) /\ Row(plan).status = "queued"
    BY <1>3
  <1> QED BY <1>1, <1>4, <1>5 DEF Payable

LEMMA MaterializedRows ==
    ASSUME round \in Nat, Remaining \in Nat, NEW batch \in Batches
    PROVE  Materialized(batch) \in Acceptable
  <1> DEFINE N == Len(batch)
             Fits(rows, plan) ==
                /\ Valid(plan)
                /\ \A i \in DOMAIN rows : Key(rows[i].plan) # Key(plan)
                /\ Reserved(rows) + CostOf(plan) <= Remaining
             Put(rows, i) ==
                IF Fits(rows, batch[i]) THEN Append(rows, Row(batch[i])) ELSE rows
             Def(f) == f = [i \in 0..N |->
                                IF i = 0 THEN <<>>
                                ELSE IF Fits(f[i - 1], batch[i])
                                     THEN Append(f[i - 1], Row(batch[i]))
                                     ELSE f[i - 1]]
             step == [i \in 1..N |-> [rows \in Acceptable |-> Put(rows, i)]]
             accepted == CHOOSE f : Def(f)
  <1>1. N \in Nat BY BatchesAssumption
  <1>2. \A i \in 1..N : batch[i] \in PlanSet BY DEF PlanSet
  <1>3. <<>> \in Acceptable
    <2>1. <<>> \in Seq(CheckType) /\ Len(<<>>) = 0 OBVIOUS
    <2> QED BY <2>1, ReservedNone DEF Acceptable
  <1>4. ASSUME NEW i \in 1..N, NEW rows \in Acceptable PROVE Put(rows, i) \in Acceptable
    <2>1. CASE ~Fits(rows, batch[i]) BY <2>1
    <2>2. CASE Fits(rows, batch[i])
      <3> DEFINE r == Row(batch[i])
                 more == Append(rows, r)
      <3>1. /\ r \in CheckType /\ r.status = "queued" /\ r.cost = CostOf(batch[i])
            /\ Payable(r.plan, r.cost)
        BY <1>2, <2>2, RowIsCheck
      <3>2. Reserved(rows) + r.cost <= Remaining BY <2>2, <3>1
      <3>3. Put(rows, i) = more BY <2>2
      <3>4. /\ rows \in Seq(CheckType)
            /\ \A k \in 1..Len(rows) :
                rows[k].status = "queued" /\ Payable(rows[k].plan, rows[k].cost)
        BY DEF Acceptable
      <3> HIDE DEF r, Put, Fits
      <3>5. /\ Reserved(more) <= Remaining /\ more \in Seq(CheckType)
            /\ Len(more) = Len(rows) + 1
            /\ \A k \in 1..Len(rows) : more[k] = rows[k]
            /\ more[Len(rows) + 1] = r
        BY <3>1, <3>2, <3>4, ReservedPlus
      <3>6. \A k \in 1..(Len(rows) + 1) : k \in 1..Len(rows) \/ k = Len(rows) + 1
        BY <3>4
      <3> HIDE DEF more
      <3>7. \A k \in 1..Len(more) : more[k].status = "queued" /\ Payable(more[k].plan, more[k].cost)
        BY <3>1, <3>4, <3>5, <3>6
      <3> QED BY <3>3, <3>5, <3>7 DEF Acceptable
    <2> HIDE DEF Put, Fits
    <2> QED BY <2>1, <2>2
  <1>5. step \in StepsOn(N, Acceptable)
    <2> HIDE DEF Put
    <2> QED BY <1>4 DEF StepsOn
  <1>6. \A i \in 1..N, rows \in Acceptable : step[i][rows] = Put(rows, i) OBVIOUS
  <1>7. Materialized(batch) = accepted[N] BY DEF Materialized
  <1> HIDE DEF Fits
  <1>8. ASSUME NEW f, Def(f)
        PROVE  /\ f = [i \in 0..N |-> f[i]] /\ f[0] = <<>>
               /\ \A i \in 1..N : f[i] = Put(f[i - 1], i)
    <2>1. f = [i \in 0..N |-> IF i = 0 THEN <<>> ELSE Put(f[i - 1], i)] BY <1>8
    <2>2. \A i \in 1..N : i \in 0..N /\ i # 0 BY <1>1
    <2>3. 0 \in 0..N BY <1>1
    <2> HIDE DEF Put
    <2> QED BY <2>1, <2>2, <2>3
  <1>9. ASSUME NEW f \in [0..N -> Acceptable], f[0] = <<>>,
               \A i \in 1..N : f[i] = Put(f[i - 1], i)
        PROVE  Def(f)
    <2>1. \A i \in 0..N : i # 0 => i \in 1..N BY <1>1
    <2>2. \A i \in 0..N : f[i] = IF i = 0 THEN <<>> ELSE Put(f[i - 1], i)
      <3> HIDE DEF Put
      <3> QED BY <1>9, <2>1
    <2> QED BY <1>9, <2>2
  <1> HIDE DEF N, step
  <1>10. PICK f : Solves(f, N, Acceptable, <<>>, step) BY <1>1, <1>3, <1>5, RecursionExists
  <1>11. \A i \in 1..N : f[i] = Put(f[i - 1], i)
    <2>1. \A i \in 1..N : i - 1 \in 0..N BY <1>1
    <2>2. \A i \in 1..N : f[i - 1] \in Acceptable BY <1>10, <2>1 DEF Solves
    <2> HIDE DEF Put
    <2> QED BY <1>6, <1>10, <2>2 DEF Solves
  <1>12. Def(f) BY <1>9, <1>10, <1>11 DEF Solves
  <1> HIDE DEF Def
  <1>13. Def(accepted) BY <1>12
  <1> HIDE DEF accepted, Put
  <1>14. /\ accepted = [i \in 0..N |-> accepted[i]] /\ accepted[0] = <<>>
         /\ \A i \in 1..N : accepted[i] = Put(accepted[i - 1], i)
    BY <1>8, <1>13
  <1> DEFINE T == {i \in 0..N : accepted[i] \in Acceptable}
  <1>15. T = 0..N
    <2>1. 0 \in T BY <1>1, <1>3, <1>14
    <2>2. ASSUME NEW i \in 1..N, i - 1 \in T PROVE i \in T
      <3>1. i \in 0..N BY <1>1
      <3>2. accepted[i] = Put(accepted[i - 1], i) BY <1>14
      <3>3. accepted[i - 1] \in Acceptable BY <2>2
      <3> QED BY <1>4, <3>1, <3>2, <3>3
    <2>3. T \subseteq 0..N OBVIOUS
    <2> HIDE DEF T
    <2> QED BY <1>1, <2>1, <2>2, <2>3, InductionUpTo
  <1>16. N \in T
    <2>1. N \in 0..N BY <1>1
    <2> HIDE DEF T
    <2> QED BY <1>15, <2>1
  <1> QED BY <1>7, <1>16

-----------------------------------------------------------------------------
(* The call in progress *)

(* While a call is under way it stays the call that was made.              *)
SameCall ==
    /\ wire'.who = wire.who /\ wire'.url = wire.url /\ wire'.role = wire.role
    /\ wire'.stage = "idle" <=> wire.stage = "idle"

LEMMA CallKept ==
    ASSUME IsCall, Transporting \/ Cancel \/ Change
    PROVE  SameCall
  <1> DEFINE Moved(s) == wire' = [wire EXCEPT !.stage = s]
  <1>1. ASSUME NEW s, s # "idle", wire.stage # "idle", Moved(s) PROVE SameCall
    <2>1. wire' = [stage |-> s, phase |-> wire.phase, who |-> wire.who, url |-> wire.url,
                   role |-> wire.role]
      BY <1>1 DEF IsCall
    <2> QED BY <1>1, <2>1 DEF SameCall
  <1>2. CASE Reserve
    <2>1. wire.stage = "paced" /\ (Moved("returned") \/ Moved("reserved"))
      BY <1>2 DEF Reserve, Fail
    <2> QED BY <1>1, <2>1
  <1>3. CASE Open
    <2>1. wire.stage = "reserved" /\ (Moved("returned") \/ Moved("sent"))
      BY <1>3 DEF Open, Fail, Return
    <2> QED BY <1>1, <2>1
  <1>4. CASE Abort \/ \E a \in Answers : Receive(a)
    <2>1. wire.stage = "sent" /\ Moved("returned") BY <1>4 DEF Abort, Receive, Return
    <2> QED BY <1>1, <2>1
  <1>5. CASE Cancel \/ Change BY <1>5 DEF Cancel, Change, SameCall
  <1> QED BY <1>2, <1>3, <1>4, <1>5 DEF Transporting

LEMMA CallMade ==
    ASSUME NEW phase, NEW who, NEW u, NEW role, Ask(phase, who, u, role)
    PROVE  /\ wire'.who = who /\ wire'.url = u /\ wire'.role = role
           /\ wire'.stage \in {"paced", "returned"} /\ wire.stage = "idle"
           /\ budget' = budget
  <1> DEFINE call == [stage |-> "paced", phase |-> phase, who |-> who, url |-> u, role |-> role]
  <1>1. wire' = call \/ wire' = [call EXCEPT !.stage = "returned"] BY DEF Ask
  <1> QED BY <1>1 DEF Ask

LEMMA CallTaken ==
    ASSUME Take
    PROVE  wire.stage = "returned" /\ wire'.stage = "idle" /\ budget' = budget
BY DEF Take, Idle

LEMMA AnswerGiven ==
    ASSUME IsCall, NEW reply, NEW size, Return(reply, size),
           reply.who = wire.who, reply.url = wire.url
    PROVE  Answered'
  <1>1. wire' = [stage |-> "returned", phase |-> wire.phase, who |-> wire.who, url |-> wire.url,
                 role |-> wire.role]
    BY DEF IsCall, Return
  <1>2. result'.reply = reply BY DEF Return
  <1> QED BY <1>1, <1>2 DEF Answered

LEMMA AnsweredNext == ASSUME IsCall, Answered, [TNext]_tvars PROVE Answered'
  <1>1. ASSUME NEW phase, NEW who, NEW u, NEW role, Ask(phase, who, u, role) PROVE Answered'
    <2>1. CASE Refusal(u) = "none"
      <3>1. wire'.stage = "paced" BY <1>1, <2>1 DEF Ask
      <3> QED BY <3>1 DEF Answered, Returned
    <2>2. CASE Refusal(u) # "none"
      <3>1. result'.error # "none" BY <1>1, <2>2 DEF Ask, NoResult
      <3> QED BY <3>1 DEF Answered, Returned
    <2> QED BY <2>1, <2>2
  <1>2. CASE Take
    <2>1. wire'.stage = "idle" BY <1>2, CallTaken
    <2> QED BY <2>1 DEF Answered, Returned
  <1>3. ASSUME NEW error \in {"cancelled", "no_budget", "no_discovery", "rejected"}, Fail(error)
        PROVE  Answered'
    <2>1. result'.error = error BY <1>3 DEF Fail, NoResult
    <2> QED BY <2>1 DEF Answered, Returned
  <1>4. CASE Reserve
    <2>1. CASE wire' = [wire EXCEPT !.stage = "reserved"]
      <3>1. wire'.stage = "reserved" BY <2>1 DEF IsCall
      <3> QED BY <3>1 DEF Answered, Returned
    <2> QED BY <1>3, <1>4, <2>1 DEF Reserve
  <1>5. ASSUME NEW size, Return(Unanswered, size) PROVE Answered'
    <2>1. Unanswered.who = wire.who /\ Unanswered.url = wire.url BY DEF Unanswered, NoReply
    <2> QED BY <1>5, <2>1, AnswerGiven
  <1>6. CASE Open
    <2>1. CASE wire' = [wire EXCEPT !.stage = "sent"]
      <3>1. wire'.stage = "sent" BY <2>1 DEF IsCall
      <3> QED BY <3>1 DEF Answered, Returned
    <2> QED BY <1>3, <1>5, <1>6, <2>1 DEF Open
  <1>7. ASSUME NEW a \in Answers, Receive(a) PROVE Answered'
    <2> DEFINE whole == a.size <= ReadLimit
               reply == [who |-> wire.who, url |-> wire.url, status |-> a.status, body |-> a.body,
                         sign |-> a.sign, links |-> a.links, complete |-> a.complete /\ whole]
               size == IF whole THEN a.size ELSE ReadLimit
    <2>1. Return(reply, size) BY <1>7 DEF Receive
    <2>2. reply.who = wire.who /\ reply.url = wire.url OBVIOUS
    <2> HIDE DEF reply, size
    <2> QED BY <2>1, <2>2, AnswerGiven
  <1>8. CASE Abort
    <2>1. ASSUME NEW a, NEW size, Return([Unanswered EXCEPT !.status = a.status], size)
          PROVE  Answered'
      <3> DEFINE reply == [Unanswered EXCEPT !.status = a.status]
      <3>1. reply.who = wire.who /\ reply.url = wire.url BY DEF Unanswered, NoReply
      <3> HIDE DEF reply
      <3>2. Return(reply, size) BY <2>1 DEF reply
      <3> QED BY <3>1, <3>2, AnswerGiven
    <2> QED BY <1>5, <1>8, <2>1 DEF Abort
  <1>9. CASE Cancel \/ Change BY <1>9 DEF Cancel, Change, Answered, Returned
  <1>10. CASE UNCHANGED tvars BY <1>10 DEF tvars, Answered, Returned
  <1> QED BY <1>1, <1>2, <1>4, <1>6, <1>7, <1>8, <1>9, <1>10 DEF TNext, Transporting

(* The budget only shrinks, and the flag stays set.                        *)
LEMMA BudgetShrinks ==
    ASSUME TInv, [TNext]_tvars
    PROVE  budget'.used \in Nat /\ budget.used \in Nat /\ budget.used <= budget'.used
           /\ (cancel => cancel')
  <1>1. PICK a \in Nat, b \in Nat, c \in Nat : budget = [used |-> a, discovery |-> b, bytes |-> c]
    BY DEF TInv, Counters
  <1>2. CASE budget' = budget /\ cancel' = cancel
    BY <1>1, <1>2
  <1>3. CASE Reserve
    <2>1. cancel' = cancel BY <1>3 DEF Reserve
    <2>2. CASE budget' = [budget EXCEPT !.used = @ + 1,
                                        !.discovery = IF wire.phase = "discovery" THEN @ + 1 ELSE @]
      <3>1. budget'.used = a + 1 BY <1>1, <2>2
      <3> QED BY <1>1, <2>1, <3>1
    <2> QED BY <1>2, <1>3, <2>1, <2>2 DEF Reserve
  <1>4. ASSUME NEW reply, NEW size, Return(reply, size), cancel' = cancel
        PROVE  budget'.used = a /\ cancel' = cancel
    BY <1>1, <1>4 DEF Return
  <1>5. CASE Open BY <1>1, <1>2, <1>4, <1>5 DEF Open
  <1>6. CASE Abort \/ \E r \in Answers : Receive(r)
    <2>1. cancel' = cancel /\ \E reply, size : Return(reply, size)
      BY <1>6 DEF Abort, Receive
    <2> QED BY <1>1, <1>4, <2>1
  <1>7. CASE \E phase, who, u, role : Ask(phase, who, u, role)
    BY <1>2, <1>7 DEF Ask
  <1>8. CASE Take BY <1>2, <1>8 DEF Take
  <1>9. CASE Cancel \/ Change
    <2>1. budget' = budget /\ (cancel => cancel') BY <1>9 DEF Cancel, Change
    <2> QED BY <1>1, <2>1
  <1>10. CASE UNCHANGED tvars BY <1>2, <1>10 DEF tvars
  <1> QED BY <1>3, <1>5, <1>6, <1>7, <1>8, <1>9, <1>10 DEF TNext, Transporting

LEMMA DiscoveryStaysOver ==
    ASSUME TInv, [TNext]_tvars, DiscoveryOver
    PROVE  DiscoveryOver'
  <1>1. budget'.used \in Nat /\ budget.used \in Nat /\ budget.used <= budget'.used
        /\ (cancel => cancel')
    BY BudgetShrinks
  <1>2. DiscoveryLimit \in Nat /\ DiscoveryLimit' = DiscoveryLimit
    BY LimitIsNat DEF DiscoveryLimit
  <1> QED BY <1>1, <1>2 DEF DiscoveryOver

-----------------------------------------------------------------------------
(* The discovery keeps what it knows *)

LEMMA CompletedAt ==
    ASSUME NEW f, NEW g
    PROVE  /\ DOMAIN Completed(f, g) = DOMAIN f \cup DOMAIN g
           /\ \A x \in DOMAIN f : Completed(f, g)[x] = f[x]
           /\ \A x \in DOMAIN g : x \notin DOMAIN f => Completed(f, g)[x] = g[x]
BY DEF Completed

LEMMA OnlyAt == ASSUME NEW k, NEW v PROVE DOMAIN Only(k, v) = {k} /\ Only(k, v)[k] = v
BY DEF Only

LEMMA EndpointLent ==
    ASSUME NEW u, NEW method, NEW auth, NEW replayed, NEW reply,
           replayed => reply.url = u /\ reply.who = "anonymous"
    PROVE  Lent(Endpoint(u, method, auth, replayed, reply))
  <1> DEFINE e == Endpoint(u, method, auth, replayed, reply)
  <1>1. {"url", "auth", "replayed", "reply"} \subseteq DOMAIN e BY DEF Endpoint
  <1>2. e.replayed = replayed /\ e.url = u /\ e.reply = reply BY DEF Endpoint
  <1> HIDE DEF e
  <1>3. Lent(e) BY <1>1, <1>2 DEF Lent
  <1> QED BY <1>3 DEF e

LEMMA MergedLent == ASSUME NEW x, NEW s \in DOMAIN Merged(x) PROVE Lent(Merged(x)[s])
  <1>1. \E u, method : Merged(x)[s] = Endpoint(u, method, FALSE, FALSE, NoReply)
    BY DEF Merged
  <1>2. PICK u, method : Merged(x)[s] = Endpoint(u, method, FALSE, FALSE, NoReply) BY <1>1
  <1> QED BY <1>2, EndpointLent

LEMMA CompletedLent ==
    ASSUME NEW f, NEW g, \A s \in DOMAIN f : Lent(f[s]), \A s \in DOMAIN g : Lent(g[s])
    PROVE  \A s \in DOMAIN Completed(f, g) : Lent(Completed(f, g)[s])
  <1> SUFFICES ASSUME NEW s \in DOMAIN Completed(f, g) PROVE Lent(Completed(f, g)[s])
    OBVIOUS
  <1>1. s \in DOMAIN f \/ (s \in DOMAIN g /\ s \notin DOMAIN f) BY CompletedAt
  <1>2. CASE s \in DOMAIN f
    <2>1. Completed(f, g)[s] = f[s] BY <1>2 DEF Completed
    <2> QED BY <1>2, <2>1
  <1>3. CASE s \in DOMAIN g /\ s \notin DOMAIN f
    <2>1. Completed(f, g)[s] = g[s] BY <1>3 DEF Completed
    <2> QED BY <1>3, <2>1
  <1> QED BY <1>1, <1>2, <1>3

LEMMA InventoryNext ==
    ASSUME TInv, StatusFollows, Answered, StartSeen, Inventory, [Next]_vars
    PROVE  Inventory'
  <1>1. CASE Crawled
    <2> DEFINE e == Endpoint(wire.url, "GET", FALSE, TRUE, result.reply)
               f == Only(Shape("GET", wire.url), e)
    <2>1. result.reply.url = wire.url /\ result.reply.who = "anonymous"
      BY <1>1 DEF Crawled, Returned, Answered, StartSeen
    <2>2. Lent(e) BY <2>1, EndpointLent
    <2>3. inventory' = Completed(f, inventory) BY <1>1 DEF Crawled, Discovered
    <2> HIDE DEF e
    <2>4. \A s \in DOMAIN f : Lent(f[s])
      <3>1. DOMAIN f = {Shape("GET", wire.url)} /\ f[Shape("GET", wire.url)] = e BY OnlyAt
      <3> HIDE DEF f
      <3> QED BY <2>2, <3>1
    <2> HIDE DEF f
    <2>5. \A s \in DOMAIN inventory' : Lent(inventory'[s])
      BY <2>3, <2>4, CompletedLent DEF Inventory
    <2> QED BY <2>5 DEF Inventory, Lent
  <1>2. CASE SeenAs
    <2> DEFINE s == Shape("GET", Start)
    <2>1. s \in DOMAIN inventory /\ inventory' = [inventory EXCEPT ![s].auth = TRUE]
      BY <1>2 DEF SeenAs, Returned, StartSeen, StartKnown
    <2>2. DOMAIN inventory' = DOMAIN inventory BY <2>1
    <2>3. \A t \in DOMAIN inventory : t # s => inventory'[t] = inventory[t] BY <2>1
    <2>4. inventory'[s] = [inventory[s] EXCEPT !.auth = TRUE] BY <2>1
    <2>5. Lent(inventory[s]) BY <2>1 DEF Inventory
    <2>6. Lent(inventory'[s]) BY <2>4, <2>5 DEF Lent
    <2> HIDE DEF s
    <2>7. \A t \in DOMAIN inventory' : Lent(inventory'[t])
      BY <2>2, <2>3, <2>6 DEF Inventory
    <2> QED BY <2>7 DEF Inventory, Lent
  <1>3. CASE Gather
    <2>1. \A s \in DOMAIN RecentTraffic : Lent(RecentTraffic[s])
      BY MergedLent DEF RecentTraffic
    <2>2. \A s \in DOMAIN SelectedTraffic : Lent(SelectedTraffic[s])
      BY MergedLent DEF SelectedTraffic
    <2> DEFINE f == Completed(inventory, RecentTraffic)
    <2>3. inventory' = Completed(f, SelectedTraffic) BY <1>3 DEF Gather
    <2>4. \A s \in DOMAIN f : Lent(f[s]) BY <2>1, CompletedLent DEF Inventory
    <2> HIDE DEF f
    <2>5. \A s \in DOMAIN inventory' : Lent(inventory'[s])
      BY <2>2, <2>3, <2>4, CompletedLent
    <2> QED BY <2>5 DEF Inventory, Lent
  <1>4. CASE inventory' = inventory BY <1>4 DEF Inventory, Lent
  <1> QED BY <1>1, <1>2, <1>3, <1>4
          DEF Next, Runner, User, Crawl, AskAs, Round, PlannerFails, Planned, StartCheck, Probe,
              Probed, Judge, Conclude, CallFailed, vars, svars

LEMMA MergedOwn == ASSUME NEW x, NEW s \in DOMAIN Merged(x) PROVE Own(s, Merged(x)[s])
  <1> DEFINE shape(i) == Shape(x[i].method, x[i].url)
             usable == {i \in DOMAIN x : x[i].method \in {"GET", "HEAD"} /\ Candidate(x[i].url)}
             first == {i \in usable : \A j \in usable : j < i => shape(j) # shape(i)}
             k == CHOOSE i \in first : shape(i) = s
             e == Endpoint(x[k].url, x[k].method, FALSE, FALSE, NoReply)
  <1>1. DOMAIN Merged(x) = {shape(i) : i \in first} /\ Merged(x)[s] = e BY DEF Merged
  <1>2. \E i \in first : shape(i) = s BY <1>1
  <1>3. k \in first /\ shape(k) = s BY <1>2
  <1>4. Candidate(x[k].url) BY <1>3
  <1>5. x[k].url \in DOMAIN Address BY <1>4 DEF Candidate, Authorized
  <1>6. s = Shape(x[k].method, x[k].url) BY <1>3
  <1> HIDE DEF k
  <1>7. e.url = x[k].url /\ e.method = x[k].method /\ {"url", "method"} \subseteq DOMAIN e
    BY DEF Endpoint
  <1> HIDE DEF e
  <1> QED BY <1>1, <1>5, <1>6, <1>7 DEF Own

LEMMA CompletedOwn ==
    ASSUME NEW f, NEW g, \A s \in DOMAIN f : Own(s, f[s]), \A s \in DOMAIN g : Own(s, g[s])
    PROVE  \A s \in DOMAIN Completed(f, g) : Own(s, Completed(f, g)[s])
  <1> SUFFICES ASSUME NEW s \in DOMAIN Completed(f, g) PROVE Own(s, Completed(f, g)[s])
    OBVIOUS
  <1>1. s \in DOMAIN f \/ (s \in DOMAIN g /\ s \notin DOMAIN f) BY CompletedAt
  <1>2. CASE s \in DOMAIN f
    <2>1. Completed(f, g)[s] = f[s] BY <1>2 DEF Completed
    <2> QED BY <1>2, <2>1
  <1>3. CASE s \in DOMAIN g /\ s \notin DOMAIN f
    <2>1. Completed(f, g)[s] = g[s] BY <1>3 DEF Completed
    <2> QED BY <1>3, <2>1
  <1> QED BY <1>1, <1>2, <1>3

LEMMA FiledNext ==
    ASSUME TInv, StatusFollows, StartSeen, Filed, [Next]_vars
    PROVE  Filed'
  <1>0. \A s \in DOMAIN inventory : Own(s, inventory[s]) BY DEF Filed
  <1>1. ASSUME inventory' = inventory,
               pc' = "crawl" => pc = "crawl",
               wire'.stage # "idle" => wire.stage # "idle" /\ wire'.url = wire.url
        PROVE  Filed'
    BY <1>0, <1>1 DEF Filed, Own, Shape
  <1>2. ASSUME pc' # "crawl", \A s \in DOMAIN inventory' : Own(s, inventory'[s])
        PROVE  Filed'
    BY <1>2 DEF Filed, Own, Shape
  <1>3. ASSUME pc' # "crawl", inventory' = inventory PROVE Filed'
    BY <1>0, <1>2, <1>3
  <1>4. CASE Crawl
    <2>1. inventory' = inventory BY <1>4 DEF Crawl
    <2>2. CASE pc' # "crawl" BY <1>3, <2>1, <2>2
    <2>3. CASE wire' = wire /\ pc = "crawl" BY <1>1, <2>1, <2>3
    <2>4. CASE pc' = "crawl" /\ \E u : Candidate(u) /\ Ask("discovery", "anonymous", u, "none")
      <3>1. PICK u : Candidate(u) /\ Ask("discovery", "anonymous", u, "none") BY <2>4
      <3>2. wire'.url = u BY <3>1, CallMade
      <3>3. u \in DOMAIN Address BY <3>1 DEF Candidate, Authorized
      <3> QED BY <1>0, <2>1, <3>2, <3>3 DEF Filed, Own, Shape
    <2> QED BY <1>4, <2>2, <2>3, <2>4 DEF Crawl, tvars
  <1>5. CASE Crawled
    <2> DEFINE e == Endpoint(wire.url, "GET", FALSE, TRUE, result.reply)
               s == Shape("GET", wire.url)
               f == Only(s, e)
    <2>1. pc = "crawl" /\ wire.stage = "returned" /\ wire'.stage = "idle"
      BY <1>5, CallTaken DEF Crawled, Returned
    <2>2. wire.url \in DOMAIN Address BY <2>1 DEF Filed
    <2>3. Own(s, e)
      <3>1. e.url = wire.url /\ e.method = "GET" /\ {"url", "method"} \subseteq DOMAIN e
        BY DEF Endpoint
      <3> HIDE DEF e
      <3> QED BY <2>2, <3>1 DEF Own
    <2>4. inventory' = Completed(f, inventory) BY <1>5 DEF Crawled, Discovered
    <2> HIDE DEF e, s
    <2>5. DOMAIN f = {s} /\ f[s] = e BY OnlyAt
    <2> HIDE DEF f
    <2>6. \A t \in DOMAIN f : Own(t, f[t]) BY <2>3, <2>5
    <2>7. \A t \in DOMAIN inventory' : Own(t, inventory'[t])
      BY <1>0, <2>4, <2>6, CompletedOwn
    <2> QED BY <2>1, <2>7 DEF Filed, Own, Shape
  <1>6. CASE SeenAs
    <2> DEFINE s == Shape("GET", Start)
    <2>1. /\ s \in DOMAIN inventory /\ inventory' = [inventory EXCEPT ![s].auth = TRUE]
          /\ pc' # "crawl"
      BY <1>6 DEF SeenAs, Returned, StartSeen, StartKnown, AfterIdentity
    <2>2. DOMAIN inventory' = DOMAIN inventory BY <2>1
    <2>3. \A t \in DOMAIN inventory : t # s => inventory'[t] = inventory[t] BY <2>1
    <2>4. inventory'[s] = [inventory[s] EXCEPT !.auth = TRUE] BY <2>1
    <2>5. Own(s, inventory[s]) BY <1>0, <2>1
    <2>6. Own(s, inventory'[s]) BY <2>4, <2>5 DEF Own
    <2> HIDE DEF s
    <2>7. \A t \in DOMAIN inventory' : Own(t, inventory'[t]) BY <1>0, <2>2, <2>3, <2>6
    <2> QED BY <1>2, <2>1, <2>7
  <1>7. CASE Gather
    <2>1. \A s \in DOMAIN RecentTraffic : Own(s, RecentTraffic[s])
      BY MergedOwn DEF RecentTraffic
    <2>2. \A s \in DOMAIN SelectedTraffic : Own(s, SelectedTraffic[s])
      BY MergedOwn DEF SelectedTraffic
    <2> DEFINE f == Completed(inventory, RecentTraffic)
    <2>3. inventory' = Completed(f, SelectedTraffic) BY <1>7 DEF Gather
    <2>4. \A s \in DOMAIN f : Own(s, f[s]) BY <1>0, <2>1, CompletedOwn
    <2> HIDE DEF f
    <2>5. \A s \in DOMAIN inventory' : Own(s, inventory'[s]) BY <2>2, <2>3, <2>4, CompletedOwn
    <2>6. pc' # "crawl" BY <1>7 DEF Gather, EndRun
    <2> QED BY <1>2, <2>5, <2>6
  <1>8. CASE UNCHANGED svars /\ (Transporting \/ Cancel \/ Change)
    <2>1. SameCall BY <1>8, CallKept DEF TInv
    <2> QED BY <1>1, <1>8, <2>1 DEF SameCall, svars
  <1>9. CASE UNCHANGED vars BY <1>1, <1>9 DEF vars, svars, tvars
  <1>10. CASE AskAs \/ Round \/ PlannerFails \/ StartCheck \/ Probe \/ Probed \/ Judge \/ Conclude
              \/ CallFailed
    <2>1. inventory' = inventory
      BY <1>10 DEF AskAs, Round, PlannerFails, StartCheck, Probe, Probed, Judge, Conclude,
                   CallFailed, svars
    <2>2. pc' # "crawl"
      BY <1>10 DEF AskAs, AfterIdentity, Round, PlannerFails, StartCheck, Probe, Probed, Judge,
                   Conclude, CallFailed, Finalize, EndRun, svars
    <2> QED BY <1>3, <2>1, <2>2
  <1>11. ASSUME NEW batch, NEW manual, Planned(batch, manual) PROVE Filed'
    BY <1>3, <1>11 DEF Planned, EndRun
  <1> QED BY <1>4, <1>5, <1>6, <1>7, <1>8, <1>9, <1>10, <1>11 DEF Next, Runner, User

LEMMA StartSeenNext ==
    ASSUME TInv, StatusFollows, StartSeen, [Next]_vars
    PROVE  StartSeen'
  <1>0. DiscoveryOver => DiscoveryOver' BY NextIsTransport, DiscoveryStaysOver
  <1>1. Candidate(Start)' <=> Candidate(Start) BY DEF Candidate, Authorized
  <1>2. ASSUME StartKnown, DOMAIN inventory \subseteq DOMAIN inventory' PROVE StartKnown'
    BY <1>2 DEF StartKnown, Shape
  <1>3. CASE Crawl
    <2>1. pc = "crawl" /\ wire.stage = "idle" /\ inventory' = inventory BY <1>3 DEF Crawl
    <2>2. CASE queue = <<>> \/ DiscoveryOver
      <3>1. pc' = "a" /\ UNCHANGED tvars BY <1>3, <2>2 DEF Crawl
      <3>2. wire' = wire BY <3>1 DEF tvars
      <3>3. queue = <<>> => StartKnown \/ ~Candidate(Start)
        BY <2>1 DEF StartSeen
      <3> QED BY <1>0, <1>1, <1>2, <2>1, <2>2, <3>1, <3>2, <3>3 DEF StartSeen
    <2>3. CASE ~(queue = <<>> \/ DiscoveryOver)
      <3> DEFINE u == Head(queue)
      <3>1. pc' = pc BY <1>3, <2>3 DEF Crawl
      <3>2. CASE u \in queued \/ ~Candidate(u)
        <4>1. UNCHANGED tvars BY <1>3, <2>3, <3>2 DEF Crawl
        <4>2. wire' = wire BY <4>1 DEF tvars
        <4>3. queue = <<Start>> /\ queued = {} => ~Candidate(Start)
          <5>1. Head(<<Start>>) = Start OBVIOUS
          <5> QED BY <3>2, <5>1
        <4> QED BY <1>1, <1>2, <2>1, <3>1, <4>2, <4>3 DEF StartSeen
      <3>3. CASE ~(u \in queued \/ ~Candidate(u))
        <4>1. Ask("discovery", "anonymous", u, "none") BY <1>3, <2>3, <3>3 DEF Crawl
        <4>2. wire'.who = "anonymous" /\ wire'.url = u /\ wire'.stage # "idle"
          BY <4>1, CallMade
        <4>3. queue = <<Start>> => u = Start OBVIOUS
        <4> HIDE DEF u
        <4> QED BY <1>1, <1>2, <2>1, <3>1, <4>2, <4>3 DEF StartSeen
      <3> QED BY <3>2, <3>3
    <2> QED BY <2>2, <2>3
  <1>4. CASE Crawled
    <2>1. pc = "crawl" /\ wire.stage = "returned" /\ wire'.stage = "idle" /\ pc' \in {"crawl", "a"}
      BY <1>4, CallTaken DEF Crawled, Returned
    <2>2. /\ DOMAIN inventory' = DOMAIN Only(Shape("GET", wire.url),
                                             Endpoint(wire.url, "GET", FALSE, TRUE, result.reply))
                                 \cup DOMAIN inventory
      BY <1>4, CompletedAt DEF Crawled, Discovered
    <2>3. DOMAIN inventory' = {Shape("GET", wire.url)} \cup DOMAIN inventory
      BY <2>2, OnlyAt
    <2>4. wire.url = Start => StartKnown' BY <2>3 DEF StartKnown, Shape
    <2>5. StartKnown' \/ ~Candidate(Start) BY <1>2, <2>1, <2>3, <2>4 DEF StartSeen
    <2> QED BY <1>1, <2>1, <2>5 DEF StartSeen
  <1>5. CASE AskAs
    <2>1. pc \in {"a", "b"} /\ wire.stage = "idle" /\ inventory' = inventory
      BY <1>5 DEF AskAs
    <2>2. CASE pc \notin Identities \/ DiscoveryOver \/ ~Candidate(Start)
      <3>1. pc' \in {"b", "gather"} /\ UNCHANGED tvars
        BY <1>5, <2>2 DEF AskAs, AfterIdentity
      <3>2. wire' = wire BY <3>1 DEF tvars
      <3> QED BY <1>0, <1>1, <1>2, <2>1, <3>1, <3>2 DEF StartSeen
    <2>3. CASE ~(pc \notin Identities \/ DiscoveryOver \/ ~Candidate(Start))
      <3>1. pc' = pc BY <1>5, <2>3 DEF AskAs
      <3>2. StartKnown BY <2>1, <2>3 DEF StartSeen
      <3> QED BY <1>2, <2>1, <3>1, <3>2 DEF StartSeen
    <2> QED BY <2>2, <2>3
  <1>6. CASE SeenAs
    <2>1. pc \in {"a", "b"} /\ pc' \in {"b", "gather"} /\ wire'.stage = "idle" /\ StartKnown
      BY <1>6, CallTaken DEF SeenAs, AfterIdentity, Returned, StartSeen
    <2>2. inventory' = [inventory EXCEPT ![Shape("GET", Start)].auth = TRUE]
      BY <1>6, <2>1 DEF SeenAs, StartKnown
    <2>3. DOMAIN inventory' = DOMAIN inventory BY <2>2
    <2> QED BY <1>2, <2>1, <2>3 DEF StartSeen
  <1>7. CASE UNCHANGED svars /\ (Transporting \/ Cancel \/ Change)
    <2>1. SameCall BY <1>7, CallKept DEF TInv
    <2>2. pc' = pc /\ inventory' = inventory /\ queue' = queue /\ queued' = queued
      BY <1>7 DEF svars
    <2> QED BY <1>0, <1>1, <1>2, <2>1, <2>2 DEF StartSeen, SameCall
  <1>8. CASE UNCHANGED vars
    <2>1. pc' = pc /\ inventory' = inventory /\ queue' = queue /\ queued' = queued /\ wire' = wire
      BY <1>8 DEF vars, svars, tvars
    <2> QED BY <1>0, <1>1, <1>2, <2>1 DEF StartSeen
  <1>9. CASE pc' \notin {"crawl", "a", "b"} BY <1>9 DEF StartSeen
  <1> QED BY <1>3, <1>4, <1>5, <1>6, <1>7, <1>8, <1>9
          DEF Next, Runner, User, Gather, EndRun, Finalize, Round, PlannerFails, Planned,
              StartCheck, Probe, Probed, Judge, Conclude, CallFailed, svars

-----------------------------------------------------------------------------
(* The checks keep their price and their order *)

(* The same checks, with other statuses or verdicts.                       *)
Rewritten ==
    /\ checks' \in Seq(CheckType) /\ Len(checks') = Len(checks)
    /\ \A i \in 1..Len(checks) :
        checks'[i].plan = checks[i].plan /\ checks'[i].cost = checks[i].cost

LEMMA ClosedRewrites ==
    ASSUME Rows, NEW error, Finalize(error)
    PROVE  Rewritten /\ \A i \in 1..Len(checks) : checks'[i].verdict = checks[i].verdict
  <1> DEFINE new(i) == IF checks[i].status \in OpenCheck
                       THEN [checks[i] EXCEPT !.status = IF error = "cancelled" THEN "cancelled"
                                                                               ELSE "failed"]
                       ELSE checks[i]
  <1>1. checks' = [i \in DOMAIN checks |-> new(i)] BY DEF Finalize, Closed
  <1>2. checks \in Seq(CheckType) /\ DOMAIN checks = 1..Len(checks) /\ Len(checks) \in Nat
    BY DEF Rows
  <1>3. \A i \in 1..Len(checks) : checks[i] \in CheckType BY <1>2
  <1>4. \A i \in 1..Len(checks) :
          /\ new(i) \in CheckType /\ new(i).plan = checks[i].plan /\ new(i).cost = checks[i].cost
          /\ new(i).verdict = checks[i].verdict
    BY <1>3 DEF CheckType
  <1> HIDE DEF new
  <1>5. checks' = [i \in 1..Len(checks) |-> new(i)] BY <1>1, <1>2
  <1>6. checks' \in Seq(CheckType) /\ Len(checks') = Len(checks) BY <1>2, <1>4, <1>5
  <1>7. \A i \in 1..Len(checks) : checks'[i] = new(i) BY <1>5
  <1> QED BY <1>4, <1>6, <1>7 DEF Rewritten

LEMMA CurrentRewrites ==
    ASSUME Rows, at \in 1..Len(checks), StartCheck \/ Judge
    PROVE  /\ Rewritten
           /\ \A i \in 1..Len(checks) : i # at => checks'[i] = checks[i]
           /\ StartCheck => checks'[at].status = "executing"
  <1>1. checks \in Seq(CheckType) /\ DOMAIN checks = 1..Len(checks) /\ Len(checks) \in Nat
    BY DEF Rows
  <1>2. checks[at] \in CheckType BY <1>1
  <1>3. checks[at].plan.tool \in Tools BY <1>1 DEF Rows, Payable
  <1> DEFINE verdict == Verify(Current.plan.tool, Current.plan.mode, Target, responses)
  <1>4. verdict \in Verdicts BY <1>3, VerdictIsOne DEF Current
  <1> HIDE DEF verdict
  <1>5. PICK c : /\ c \in CheckType /\ c.plan = checks[at].plan /\ c.cost = checks[at].cost
                 /\ StartCheck => c.status = "executing"
                 /\ checks' = [checks EXCEPT ![at] = c]
    <2>1. CASE StartCheck
      <3>1. checks' = [checks EXCEPT ![at] = [checks[at] EXCEPT !.status = "executing"]]
        BY <2>1 DEF StartCheck
      <3> DEFINE c == [checks[at] EXCEPT !.status = "executing"]
      <3>2. /\ c \in CheckType /\ c.plan = checks[at].plan /\ c.cost = checks[at].cost
            /\ c.status = "executing"
        BY <1>2 DEF CheckType
      <3> HIDE DEF c
      <3> QED BY <3>1, <3>2 DEF c
    <2>2. CASE Judge
      <3> DEFINE c == [checks[at] EXCEPT !.status = "completed", !.verdict = verdict]
      <3>1. checks' = [checks EXCEPT ![at] = c]
        <4>1. checks' = [checks EXCEPT ![at].status = "completed", ![at].verdict = verdict]
          BY <2>2 DEF Judge, verdict
        <4> QED BY <1>1, <4>1
      <3>2. c \in CheckType /\ c.plan = checks[at].plan /\ c.cost = checks[at].cost
        BY <1>2, <1>4 DEF CheckType
      <3>3. ~StartCheck BY <2>2 DEF StartCheck, Judge
      <3> HIDE DEF c
      <3> QED BY <3>1, <3>2, <3>3
    <2> QED BY <2>1, <2>2
  <1>6. checks' \in Seq(CheckType) /\ Len(checks') = Len(checks) BY <1>1, <1>5
  <1>7. \A i \in 1..Len(checks) : checks'[i] = IF i = at THEN c ELSE checks[i] BY <1>1, <1>5
  <1> QED BY <1>5, <1>6, <1>7 DEF Rewritten

LEMMA RemainingIsNat == ASSUME TInv PROVE Remaining \in Nat
  <1>1. PICK u \in Nat : budget.used = u /\ u <= Total BY DEF TInv, Counters, WithinLimits
  <1> QED BY <1>1, TotalAssumption DEF Remaining

(* The checks of a round stand behind those of the rounds before.          *)
LEMMA PlannedRows ==
    ASSUME TInv, Rows, NEW batch \in Batches, NEW manual, Planned(batch, manual)
    PROVE  LET rows == Materialized(batch)
           IN  /\ rows \in Acceptable
               /\ checks' \in Seq(CheckType) /\ Len(checks') = Len(checks) + Len(rows)
               /\ Len(rows) \in Nat /\ Len(checks) \in Nat
               /\ \A i \in 1..Len(checks) : checks'[i] = checks[i]
               /\ \A i \in 1..Len(rows) : checks'[Len(checks) + i] = rows[i]
               /\ rows # <<>> => Len(rows) >= 1
  <1> DEFINE rows == Materialized(batch)
  <1>1. rows \in Acceptable BY RemainingIsNat, MaterializedRows DEF Rows
  <1>2. checks' = checks \o rows BY DEF Planned
  <1> HIDE DEF rows
  <1>3. rows \in Seq(CheckType) /\ checks \in Seq(CheckType) BY <1>1 DEF Acceptable, Rows
  <1>4. /\ checks' \in Seq(CheckType) /\ Len(checks') = Len(checks) + Len(rows)
        /\ Len(rows) \in Nat /\ Len(checks) \in Nat
        /\ rows # <<>> => Len(rows) >= 1
    BY <1>2, <1>3
  <1>5. \A i \in 1..Len(checks) : checks'[i] = checks[i] BY <1>2, <1>3
  <1>6. \A i \in 1..Len(rows) : checks'[Len(checks) + i] = rows[i] BY <1>2, <1>3
  <1> QED BY <1>1, <1>4, <1>5, <1>6 DEF rows

Discovering == {"crawl", "a", "b", "gather"}

LEMMA RowsRewritten ==
    ASSUME Rows, Rewritten, inventory' = inventory, round' = round, pc' \notin Discovering
    PROVE  Rows'
  <1>1. /\ round \in Nat /\ checks \in Seq(CheckType) /\ checks' \in Seq(CheckType)
        /\ Len(checks') = Len(checks)
        /\ DOMAIN checks = 1..Len(checks) /\ DOMAIN checks' = 1..Len(checks)
    BY DEF Rows, Rewritten
  <1>2. \A i \in 1..Len(checks) : Payable(checks[i].plan, checks[i].cost)
    BY <1>1 DEF Rows
  <1>3. \A i \in 1..Len(checks) : Payable(checks'[i].plan, checks'[i].cost)
    BY <1>2 DEF Rewritten
  <1>4. \A i \in DOMAIN checks' : Payable(checks[i].plan, checks[i].cost)'
    BY <1>1, <1>3 DEF Payable, CostOf
  <1> QED BY <1>1, <1>4 DEF Rows, Discovering

LEMMA RowsNext ==
    ASSUME TInv, StatusFollows, Rows, InOrder, [Next]_vars
    PROVE  Rows'
  <1>0. round \in Nat /\ checks \in Seq(CheckType) BY DEF Rows
  <1>1. ASSUME inventory' = inventory, checks' = checks, round' \in Nat,
               pc' \in Discovering => pc \in Discovering
        PROVE  Rows'
    BY <1>1 DEF Rows, Payable, CostOf, Discovering
  <1>2. ASSUME pc \in Discovering, checks' = checks, round' \in Nat PROVE Rows'
    <2>1. checks = <<>> /\ DOMAIN <<>> = {} BY <1>2 DEF Rows, Discovering
    <2> QED BY <1>0, <1>2, <2>1 DEF Rows
  <1>3. ASSUME NEW error, Finalize(error), inventory' = inventory, round' = round PROVE Rows'
    <2>1. pc' = "done" BY <1>3 DEF Finalize, EndRun
    <2> QED BY <1>3, <2>1, ClosedRewrites, RowsRewritten DEF Discovering
  <1>4. CASE Crawl \/ Crawled \/ AskAs \/ SeenAs
    BY <1>0, <1>2, <1>4 DEF Crawl, Crawled, AskAs, SeenAs, Discovering
  <1>5. CASE Gather
    <2>1. round' \in Nat BY <1>0, <1>5, RoundsAssumption DEF Gather
    <2> QED BY <1>2, <1>5, <2>1 DEF Gather, Discovering
  <1>6. CASE Round
    <2>1. CASE Finalize("drift") /\ UNCHANGED round BY <1>3, <1>6, <2>1 DEF Round
    <2>2. CASE UNCHANGED checks
      <3>1. round' \in Nat /\ pc' \notin Discovering
        BY <1>0, <1>6, <2>2 DEF Round, EndRun, Finalize, NextRound, Discovering
      <3> QED BY <1>1, <1>6, <2>2, <3>1 DEF Round
    <2> QED BY <1>6, <2>1, <2>2 DEF Round
  <1>7. CASE PlannerFails BY <1>3, <1>7 DEF PlannerFails
  <1>8. ASSUME NEW batch \in Batches, NEW manual, Planned(batch, manual) PROVE Rows'
    <2> DEFINE rows == Materialized(batch)
    <2>1. /\ rows \in Acceptable
          /\ checks' \in Seq(CheckType) /\ Len(checks') = Len(checks) + Len(rows)
          /\ Len(rows) \in Nat /\ Len(checks) \in Nat
          /\ \A i \in 1..Len(checks) : checks'[i] = checks[i]
          /\ \A i \in 1..Len(rows) : checks'[Len(checks) + i] = rows[i]
      BY <1>8, PlannedRows
    <2>2. inventory' = inventory /\ round' = round /\ pc' \notin Discovering
      BY <1>8 DEF Planned, EndRun, Discovering
    <2> HIDE DEF rows
    <2>3. \A i \in 1..Len(rows) : Payable(rows[i].plan, rows[i].cost) BY <2>1 DEF Acceptable
    <2>4. \A i \in 1..Len(checks) : Payable(checks[i].plan, checks[i].cost)
      BY <1>0 DEF Rows
    <2>5. ASSUME NEW i \in 1..Len(checks') PROVE Payable(checks'[i].plan, checks'[i].cost)
      <3>1. CASE i \in 1..Len(checks) BY <2>1, <2>4, <3>1
      <3>2. CASE i \notin 1..Len(checks)
        <4>1. i - Len(checks) \in 1..Len(rows) /\ Len(checks) + (i - Len(checks)) = i
          BY <2>1, <3>2
        <4>2. checks'[i] = rows[i - Len(checks)] BY <2>1, <4>1
        <4> QED BY <2>3, <4>1, <4>2
      <3> QED BY <3>1, <3>2
    <2>6. DOMAIN checks' = 1..Len(checks') BY <2>1
    <2>7. \A i \in DOMAIN checks' : Payable(checks[i].plan, checks[i].cost)'
      BY <2>2, <2>5, <2>6 DEF Payable, CostOf
    <2> QED BY <1>0, <2>1, <2>2, <2>7 DEF Rows, Discovering
  <1>9. CASE StartCheck \/ Judge
    <2>1. at \in 1..Len(checks) BY <1>9 DEF StartCheck, Judge, InOrder
    <2>2. inventory' = inventory /\ round' = round /\ pc' \notin Discovering
      BY <1>9 DEF StartCheck, Judge, Discovering
    <2> QED BY <1>9, <2>1, <2>2, CurrentRewrites, RowsRewritten
  <1>10. CASE Conclude BY <1>0, <1>1, <1>10 DEF Conclude, EndRun, Discovering
  <1>11. CASE CallFailed BY <1>3, <1>11 DEF CallFailed
  <1>12. CASE Probed BY <1>0, <1>1, <1>12 DEF Probed
  <1>13. CASE UNCHANGED svars BY <1>0, <1>1, <1>13 DEF svars
  <1> QED BY <1>4, <1>5, <1>6, <1>7, <1>8, <1>9, <1>10, <1>11, <1>12, <1>13
          DEF Next, Runner, User, Probe, vars

LEMMA InOrderNext ==
    ASSUME TInv, StatusFollows, Rows, InOrder, [Next]_vars
    PROVE  InOrder'
  <1>1. CASE pc' \notin {"check", "probe"} BY <1>1 DEF InOrder
  <1>2. CASE UNCHANGED <<pc, checks, at>> BY <1>2 DEF InOrder
  <1>3. ASSUME NEW batch \in Batches, NEW manual, Planned(batch, manual),
               pc' \in {"check", "probe"}
        PROVE  InOrder'
    <2> DEFINE rows == Materialized(batch)
    <2>1. /\ rows \in Acceptable
          /\ Len(checks') = Len(checks) + Len(rows)
          /\ Len(rows) \in Nat /\ Len(checks) \in Nat
          /\ \A i \in 1..Len(rows) : checks'[Len(checks) + i] = rows[i]
          /\ rows # <<>> => Len(rows) >= 1
      BY <1>3, PlannedRows
    <2>2. rows # <<>> /\ pc' = "check" /\ at' = Len(checks) + 1
      BY <1>3 DEF Planned, EndRun
    <2> HIDE DEF rows
    <2>3. \A i \in 1..Len(rows) : rows[i].status = "queued" BY <2>1 DEF Acceptable
    <2>4. ASSUME NEW i \in 1..Len(checks'), i >= at' PROVE checks'[i].status = "queued"
      <3>1. i - Len(checks) \in 1..Len(rows) /\ Len(checks) + (i - Len(checks)) = i
        BY <2>1, <2>2, <2>4
      <3> QED BY <2>1, <2>3, <3>1
    <2>5. at' \in 1..Len(checks') /\ at' >= at' BY <2>1, <2>2
    <2>6. checks'[at'].status = "queued" BY <2>4, <2>5
    <2>7. \A i \in 1..Len(checks') : i > at' => checks'[i].status = "queued"
      BY <2>1, <2>2, <2>4
    <2> QED BY <2>2, <2>5, <2>6, <2>7 DEF InOrder
  <1>4. CASE StartCheck
    <2>1. pc = "check" /\ pc' = "probe" /\ at' = at /\ at \in 1..Len(checks)
      BY <1>4 DEF StartCheck, InOrder
    <2>2. /\ \A i \in 1..Len(checks) : i # at => checks'[i] = checks[i]
          /\ checks'[at].status = "executing" /\ Len(checks') = Len(checks)
      BY <1>4, <2>1, CurrentRewrites DEF Rewritten
    <2>3. \A i \in 1..Len(checks) : i > at => i # at BY <2>1
    <2> QED BY <2>1, <2>2, <2>3 DEF InOrder
  <1>5. CASE Judge /\ pc' = "check"
    <2>1. pc = "probe" /\ at \in 1..Len(checks) /\ at' = at + 1 /\ at # Len(checks)
      BY <1>5 DEF Judge, InOrder
    <2>2. /\ \A i \in 1..Len(checks) : i # at => checks'[i] = checks[i]
          /\ Len(checks') = Len(checks)
      BY <1>5, <2>1, CurrentRewrites DEF Rewritten
    <2>3. Len(checks) \in Nat BY DEF Rows
    <2>4. \A i \in 1..Len(checks) : i > at => checks[i].status = "queued" BY <2>1 DEF InOrder
    <2>5. \A i \in 1..Len(checks) : i >= at + 1 => i # at /\ i > at BY <2>1, <2>3
    <2>6. at + 1 \in 1..Len(checks) BY <2>1, <2>3
    <2>7. \A i \in 1..Len(checks) : i > at + 1 => i >= at + 1 BY <2>1, <2>3
    <2>8. \A i \in 1..Len(checks') : i >= at' => checks'[i].status = "queued"
      BY <2>1, <2>2, <2>4, <2>5
    <2>9. at' >= at' BY <2>1, <2>3
    <2> QED BY <1>5, <2>1, <2>2, <2>6, <2>7, <2>8, <2>9 DEF InOrder
  <1> QED BY <1>1, <1>2, <1>3, <1>4, <1>5
          DEF Next, Runner, User, Crawl, Crawled, AskAs, AfterIdentity, SeenAs, Gather, EndRun,
              Finalize, Round, PlannerFails, Planned, StartCheck, Probe, Probed, Judge, Conclude,
              CallFailed, vars, svars

LEMMA EndedNext == ASSUME StatusFollows, Ended, [Next]_vars PROVE Ended'
  <1>1. CASE pc' # "done" BY <1>1 DEF Ended
  <1>2. CASE UNCHANGED <<pc, status>> BY <1>2 DEF Ended
  <1>3. ASSUME NEW error, Finalize(error) PROVE Ended'
    BY <1>3 DEF Finalize, EndRun, EndFor, Ended
  <1>4. ASSUME NEW s \in {"completed", "stopped", "cancelled"}, EndRun(s) PROVE Ended'
    BY <1>4 DEF EndRun, Ended
  <1>5. CASE Crawl \/ Crawled \/ AskAs \/ SeenAs
    BY <1>1, <1>5 DEF Crawl, Crawled, AskAs, AfterIdentity, SeenAs
  <1>6. CASE Gather \/ Round \/ Conclude \/ PlannerFails \/ CallFailed
    BY <1>1, <1>3, <1>4, <1>6 DEF Gather, Round, Conclude, PlannerFails, CallFailed
  <1>7. CASE StartCheck \/ Probe \/ Probed \/ Judge
    BY <1>1, <1>2, <1>7 DEF StartCheck, Probe, Probed, Judge, svars
  <1>8. ASSUME NEW batch, NEW manual, Planned(batch, manual) PROVE Ended'
    BY <1>1, <1>4, <1>8 DEF Planned
  <1> QED BY <1>2, <1>5, <1>6, <1>7, <1>8 DEF Next, Runner, User, vars, svars

-----------------------------------------------------------------------------
(* A check follows its course *)

(* The check at hand, its plan and its endpoint stay what they are.        *)
SameCheck ==
    /\ at' = at /\ inventory' = inventory
    /\ checks'[at].plan = checks[at].plan

LEMMA SameCourse ==
    ASSUME SameCheck
    PROVE  Course' = Course /\ Target' = Target /\ Asked' = Asked
BY DEF SameCheck, Course, Target, Current, Asked, ProbedAddress

LEMMA CourseVaries ==
    ASSUME Rows, InOrder, pc \in {"check", "probe"}
    PROVE  /\ Varied(Course)
           /\ Current.plan.tool \in Tools /\ Current.plan.mode \in Modes(Current.plan.tool)
           /\ Current.cost = CostOf(Current.plan)
           /\ Current.plan.tool = "security_headers_cookie" => Target.replayed
           /\ Current.plan.shape \in DOMAIN inventory
           /\ Current.plan.tool \in Rewriting =>
                Current.plan.param \in Current.plan.shape.query
  <1>1. at \in 1..Len(checks) BY DEF InOrder
  <1>2. Payable(checks[at].plan, checks[at].cost) BY <1>1 DEF Rows
  <1> QED BY <1>2, CourseShape DEF Payable, Course, Current, Target

LEMMA ShapeQuery ==
    ASSUME NEW method, NEW url, NEW ids
    PROVE  ShapeOf(method, url, ids).query = {q.name : q \in url.query}
  <1> DEFINE path == [i \in DOMAIN url.path |->
                        IF url.path[i].depth = 0 /\ url.path[i].word \in ids
                        THEN [word |-> "{id}", depth |-> 0] ELSE url.path[i]]
             query == {q.name : q \in url.query}
  <1>1. ShapeOf(method, url, ids) = [method |-> method, path |-> path, query |-> query]
    BY DEF ShapeOf
  <1> HIDE DEF path, query
  <1>2. ShapeOf(method, url, ids).query = query BY <1>1
  <1> QED BY <1>2 DEF query

(* The url a rewriting tool asks for exists and is the one it should be.   *)
LEMMA AskedIsProbed ==
    ASSUME Filed, Rows, InOrder, pc = "probe", Current.plan.tool \in Rewriting
    PROVE  /\ Asked \in DOMAIN Address /\ Address[Asked] = ProbedAddress
           /\ Current.plan.param \in {q.name : q \in Address[Target.url].query}
  <1> DEFINE s == Current.plan.shape
             p == Current.plan.param
             u == Target.url
  <1>1. s \in DOMAIN inventory /\ p \in s.query BY CourseVaries
  <1>2. Own(s, inventory[s]) BY <1>1 DEF Filed
  <1>3. u \in DOMAIN Address /\ s = Shape(Target.method, u) BY <1>2 DEF Own, Target
  <1>4. s.query = {q.name : q \in Address[u].query} BY <1>3, ShapeQuery DEF Shape
  <1>5. PICK q \in Address[u].query : q.name = p BY <1>1, <1>4
  <1>6. \E v \in DOMAIN Address : Address[v] = ProbedAddress
    BY <1>3, <1>5, AddressAssumption DEF ProbedAddress
  <1>7. Asked = CHOOSE v \in DOMAIN Address : Address[v] = ProbedAddress BY DEF Asked
  <1> QED BY <1>1, <1>4, <1>6, <1>7

(* As many responses as steps of the course were answered.                 *)
LEMMA FollowedCount ==
    ASSUME Rows, InOrder, pc \in {"check", "probe"}, NEW n \in 0..Len(Course),
           DOMAIN responses = {Course[j].role : j \in 1..n}
    PROVE  Cardinality(DOMAIN responses) = n
BY CourseVaries, RolesCount DEF Course

LEMMA OnCourseNext ==
    ASSUME TInv, StatusFollows, Answered, Inventory, Rows, InOrder, OnCourse, [Next]_vars
    PROVE  OnCourse'
  <1>1. CASE pc' # "probe" BY <1>1 DEF OnCourse
  <1>2. ASSUME pc = "probe", pc' = "probe", SameCheck, responses' = responses,
               wire'.stage # "idle" => wire.stage # "idle",
               wire'.who = wire.who, wire'.url = wire.url, wire'.role = wire.role
        PROVE  OnCourse'
    <2>1. Course' = Course /\ Target' = Target /\ Asked' = Asked BY <1>2, SameCourse
    <2>2. PICK n \in 0..Len(Course) : Followed(n) BY <1>2 DEF OnCourse
    <2>3. Followed(n)' BY <1>2, <2>1, <2>2 DEF Followed
    <2> QED BY <2>1, <2>2, <2>3 DEF OnCourse
  <1>3. CASE StartCheck
    <2>1. pc = "check" /\ at \in 1..Len(checks) /\ wire.stage = "idle"
      BY <1>3 DEF StartCheck, InOrder, StatusFollows
    <2>2. SameCheck /\ wire' = wire
      BY <1>3, <2>1, CurrentRewrites DEF SameCheck, Rewritten, StartCheck, tvars
    <2>3. Course' = Course /\ Target' = Target /\ Asked' = Asked BY <2>2, SameCourse
    <2>4. Varied(Course) /\ Current.plan.shape \in DOMAIN inventory BY <2>1, CourseVaries
    <2>5. CASE Reuses(Current.plan.tool, Current.plan.mode) /\ Target.replayed
      <3>1. responses' = Only(Course[1].role, Target.reply) BY <1>3, <2>5 DEF StartCheck
      <3>2. DOMAIN responses' = {Course[1].role} /\ responses'[Course[1].role] = Target.reply
        BY <3>1, OnlyAt
      <3>3. Target.reply.url = Asked /\ Target.reply.who = "anonymous"
        BY <2>4, <2>5 DEF Inventory, Lent, Target, Reuses, Rewriting, Asked
      <3>4. 1 \in 0..Len(Course)
        <4>1. Len(Course) \in 1..4 BY <2>4 DEF Varied
        <4> QED BY <4>1
      <3>5. {Course[j].role : j \in 1..1} = {Course[1].role} BY <2>4 DEF Varied
      <3>6. Followed(1)' BY <2>1, <2>2, <2>3, <2>5, <3>2, <3>3, <3>4, <3>5 DEF Followed
      <3> QED BY <2>3, <3>4, <3>6 DEF OnCourse
    <2>6. CASE ~(Reuses(Current.plan.tool, Current.plan.mode) /\ Target.replayed)
      <3>1. responses' = <<>> BY <1>3, <2>6 DEF StartCheck
      <3>2. DOMAIN responses' = {} BY <3>1
      <3>3. 0 \in 0..Len(Course) BY <2>4 DEF Varied
      <3>4. Followed(0)' BY <2>1, <2>2, <2>3, <3>2, <3>3 DEF Followed
      <3> QED BY <2>3, <3>3, <3>4 DEF OnCourse
    <2> QED BY <2>5, <2>6
  <1>4. CASE Probe
    <2>1. pc = "probe" /\ wire.stage = "idle" /\ ~CheckOver /\ SameCheck
          /\ responses' = responses
      BY <1>4 DEF Probe, svars, SameCheck
    <2>2. Course' = Course /\ Target' = Target /\ Asked' = Asked BY <2>1, SameCourse
    <2>3. PICK n \in 0..Len(Course) : Followed(n) BY <2>1 DEF OnCourse
    <2>4. Cardinality(DOMAIN responses) = n BY <2>1, <2>3, FollowedCount DEF Followed
    <2>5. Varied(Course) BY <2>1, CourseVaries
    <2>6. n < Len(Course) BY <2>1, <2>3, <2>4, <2>5 DEF CheckOver, Varied
    <2>7. Due = Course[n + 1] BY <2>4 DEF Due
    <2>8. wire'.who = Course[n + 1].who /\ wire'.url = Asked /\ wire'.role = Course[n + 1].role
      BY <1>4, <2>7, CallMade DEF Probe
    <2>9. Followed(n)' BY <2>1, <2>2, <2>3, <2>6, <2>8 DEF Followed
    <2> QED BY <2>2, <2>3, <2>9 DEF OnCourse
  <1>5. CASE Probed
    <2>1. /\ pc = "probe" /\ wire.stage = "returned" /\ wire'.stage = "idle" /\ SameCheck
          /\ result.reply.who = wire.who /\ result.reply.url = wire.url
      BY <1>5, CallTaken DEF Probed, Returned, Answered, SameCheck
    <2>2. Course' = Course /\ Target' = Target /\ Asked' = Asked BY <2>1, SameCourse
    <2>3. PICK n \in 0..Len(Course) : Followed(n) BY <2>1 DEF OnCourse
    <2>4. Varied(Course) BY <2>1, CourseVaries
    <2>5. /\ n \in Nat /\ n < Len(Course) /\ Len(Course) \in Nat
          /\ wire.role = Course[n + 1].role /\ wire.who = Course[n + 1].who
          /\ wire.url = Asked
      BY <2>1, <2>3, <2>4 DEF Followed, Varied
    <2>6. n + 1 \in 1..Len(Course) /\ n + 1 \in 0..Len(Course) BY <2>5
    <2> DEFINE role == Course[n + 1].role
    <2>7. responses' = Completed(Only(role, result.reply), responses)
      BY <1>5, <2>5 DEF Probed
    <2>8. /\ DOMAIN responses' = {role} \cup DOMAIN responses
          /\ responses'[role] = result.reply
          /\ \A r \in DOMAIN responses : r # role => responses'[r] = responses[r]
      BY <2>7 DEF Completed, Only
    <2>9. \A j \in 1..n : j \in 1..Len(Course) /\ Course[j].role # role
      BY <2>4, <2>5, <2>6 DEF Varied
    <2>10. DOMAIN responses' = {Course[j].role : j \in 1..(n + 1)}
      <3>1. 1..(n + 1) = 1..n \cup {n + 1} BY <2>5
      <3> QED BY <2>3, <2>8, <3>1 DEF Followed
    <2>11. ASSUME NEW j \in 1..(n + 1)
           PROVE  LET r == responses'[Course[j].role]
                  IN  /\ r.url = Asked
                      /\ r.who = Course[j].who \/ (j = 1 /\ Target.replayed /\ r.who = "anonymous")
      <3>1. CASE j = n + 1 BY <2>1, <2>5, <2>8, <3>1
      <3>2. CASE j # n + 1
        <4>1. j \in 1..n BY <2>5, <3>2
        <4>2. responses'[Course[j].role] = responses[Course[j].role]
          BY <2>3, <2>8, <2>9, <4>1 DEF Followed
        <4> QED BY <2>3, <4>1, <4>2 DEF Followed
      <3> QED BY <3>1, <3>2
    <2> HIDE DEF role
    <2>12. Followed(n + 1)' BY <2>1, <2>2, <2>6, <2>10, <2>11 DEF Followed
    <2> QED BY <2>2, <2>6, <2>12 DEF OnCourse
  <1>6. CASE UNCHANGED svars /\ (Transporting \/ Cancel \/ Change)
    <2>1. SameCall BY <1>6, CallKept DEF TInv
    <2>2. SameCheck /\ pc' = pc /\ responses' = responses BY <1>6 DEF svars, SameCheck
    <2> QED BY <1>1, <1>2, <2>1, <2>2 DEF SameCall
  <1>7. CASE UNCHANGED vars
    <2>1. SameCheck /\ pc' = pc /\ responses' = responses /\ wire' = wire
      BY <1>7 DEF vars, svars, tvars, SameCheck
    <2> QED BY <1>1, <1>2, <2>1
  <1> QED BY <1>1, <1>3, <1>4, <1>5, <1>6, <1>7
          DEF Next, Runner, User, Crawl, Crawled, AskAs, AfterIdentity, SeenAs, Gather, EndRun,
              Finalize, Round, PlannerFails, Planned, Judge, Conclude, CallFailed

(* What the runner knows of its checks.                                    *)
RunHolds == TInv /\ StatusFollows /\ Checking

LEMMA RunHoldsInit == Init => RunHolds
  <1> SUFFICES ASSUME Init PROVE RunHolds
    OBVIOUS
  <1>1. TInv BY TInvInit DEF Init
  <1>2. StatusFollows BY DEF Init, TInit, Idle, StatusFollows
  <1>3. wire.stage = "idle" BY DEF Init, TInit, Idle
  <1>4. inventory = <<>> /\ checks = <<>> /\ DOMAIN <<>> = {} /\ <<>> \in Seq(CheckType)
    BY DEF Init
  <1>5. Ended /\ Answered /\ StartSeen BY <1>3 DEF Init, Ended, Answered, Returned, StartSeen
  <1>6. Inventory /\ Filed BY <1>3, <1>4 DEF Inventory, Filed
  <1>7. Rows BY <1>4 DEF Init, Rows
  <1>8. InOrder /\ OnCourse BY DEF Init, InOrder, OnCourse
  <1> QED BY <1>1, <1>2, <1>5, <1>6, <1>7, <1>8 DEF RunHolds, Checking

LEMMA RunHoldsNext == RunHolds /\ [Next]_vars => RunHolds'
  <1> SUFFICES ASSUME RunHolds, [Next]_vars PROVE RunHolds'
    OBVIOUS
  <1>0. TInv /\ StatusFollows /\ Ended /\ Answered /\ StartSeen /\ Inventory /\ Filed /\ Rows
        /\ InOrder /\ OnCourse
    BY DEF RunHolds, Checking
  <1>1. [TNext]_tvars BY NextIsTransport
  <1>2. TInv' BY <1>0, <1>1, TInvNext
  <1>3. StatusFollows' BY <1>0, EveryStepMoves DEF StatusMoves
  <1>4. Answered' BY <1>0, <1>1, AnsweredNext DEF TInv
  <1>5. Ended' BY <1>0, EndedNext
  <1>6. StartSeen' BY <1>0, StartSeenNext
  <1>7. Inventory' /\ Filed' BY <1>0, InventoryNext, FiledNext
  <1>8. Rows' BY <1>0, RowsNext
  <1>9. InOrder' BY <1>0, InOrderNext
  <1>10. OnCourse' BY <1>0, OnCourseNext
  <1> QED BY <1>2, <1>3, <1>4, <1>5, <1>6, <1>7, <1>8, <1>9, <1>10 DEF RunHolds, Checking

(* What holds of a run between any two steps: the budget of Transport, the *)
(* status that fits the phase, and of the check in hand what of its course *)
(* was sent, answered and counted; for any target, plan and limits.        *)
THEOREM RunsHold == Spec => []RunHolds
BY RunHoldsInit, RunHoldsNext, PTL DEF Spec

Confirming ==
    \A i \in DOMAIN checks :
        checks'[i].verdict = "confirmed" /\ checks[i].verdict # "confirmed" =>
            /\ i = at
            /\ \A k \in DOMAIN Course :
                /\ Course[k].role \in DOMAIN responses
                /\ LET r == responses[Course[k].role]
                   IN  /\ r.complete /\ OfTarget(r)
                       /\ \/ r.who = Course[k].who
                          \/ k = 1 /\ Target.replayed /\ r.who = "anonymous"

LEMMA ConfirmingNext == ASSUME RunHolds, [Next]_vars PROVE Confirming
  <1>0. TInv /\ StatusFollows /\ Filed /\ Rows /\ InOrder /\ OnCourse
    BY DEF RunHolds, Checking
  <1>1. checks \in Seq(CheckType) /\ DOMAIN checks = 1..Len(checks) /\ Len(checks) \in Nat
    BY <1>0 DEF Rows
  <1>2. CASE checks' = checks BY <1>2 DEF Confirming
  <1>3. CASE \E error : Finalize(error)
    BY <1>0, <1>1, <1>3, ClosedRewrites DEF Confirming
  <1>4. CASE \E batch \in Batches : \E manual : Planned(batch, manual)
    BY <1>0, <1>1, <1>4, PlannedRows DEF Confirming
  <1>5. CASE StartCheck
    <2>1. checks' = [checks EXCEPT ![at] = [checks[at] EXCEPT !.status = "executing"]]
      BY <1>5 DEF StartCheck
    <2>2. \A i \in 1..Len(checks) : checks[i] \in CheckType BY <1>1
    <2>3. \A i \in 1..Len(checks) : checks'[i].verdict = checks[i].verdict
      BY <1>1, <2>1, <2>2 DEF CheckType
    <2> QED BY <1>1, <2>3 DEF Confirming
  <1>6. CASE Judge
    <2>1. pc = "probe" /\ at \in 1..Len(checks) BY <1>0, <1>6 DEF Judge, InOrder
    <2>2. \A i \in 1..Len(checks) : i # at => checks'[i] = checks[i]
      BY <1>0, <1>6, <2>1, CurrentRewrites
    <2> DEFINE verdict == Verify(Current.plan.tool, Current.plan.mode, Target, responses)
    <2>3. checks'[at].verdict = verdict
      <3>1. checks' = [checks EXCEPT ![at].status = "completed", ![at].verdict = verdict]
        BY <1>6 DEF Judge
      <3>2. checks[at] \in CheckType BY <1>1, <2>1
      <3> HIDE DEF verdict
      <3>3. checks'[at] = [checks[at] EXCEPT !.status = "completed", !.verdict = verdict]
        BY <1>1, <2>1, <3>1
      <3> QED BY <3>2, <3>3 DEF CheckType
    <2>4. PICK n \in 0..Len(Course) : Followed(n) BY <1>0, <2>1 DEF OnCourse
    <2>5. Varied(Course) BY <1>0, <2>1, CourseVaries
    <2>6. ASSUME verdict = "confirmed", NEW k \in 1..Len(Course)
          PROVE  /\ Course[k].role \in DOMAIN responses
                 /\ LET r == responses[Course[k].role]
                    IN  /\ r.complete /\ OfTarget(r)
                        /\ \/ r.who = Course[k].who
                           \/ k = 1 /\ Target.replayed /\ r.who = "anonymous"
      <3>1. Course[k].role \in DOMAIN responses /\ responses[Course[k].role].complete
        BY <2>6, ConfirmedIsCollected DEF Course
      <3>2. PICK j \in 1..n : Course[j].role = Course[k].role
        BY <2>4, <3>1 DEF Followed
      <3>3. j \in 1..Len(Course)
        <4>1. Len(Course) \in 1..4 BY <2>5 DEF Varied
        <4> QED BY <2>4, <3>2, <4>1
      <3>4. j = k BY <2>5, <2>6, <3>2, <3>3 DEF Varied
      <3> DEFINE r == responses[Course[k].role]
      <3>5. /\ r.url = Asked
            /\ r.who = Course[k].who \/ (k = 1 /\ Target.replayed /\ r.who = "anonymous")
        BY <2>4, <3>2, <3>4 DEF Followed
      <3>6. OfTarget(r)
        <4>1. CASE Current.plan.tool \in Rewriting
          BY <1>0, <2>1, <3>5, <4>1, AskedIsProbed DEF OfTarget
        <4>2. CASE Current.plan.tool \notin Rewriting BY <3>5, <4>2 DEF OfTarget, Asked
        <4> QED BY <4>1, <4>2
      <3> QED BY <3>1, <3>5, <3>6
    <2>7. DOMAIN Course = 1..Len(Course)
      <3>1. Course = Steps(Current.plan.tool, Current.plan.mode) BY DEF Course
      <3> QED BY <1>0, <2>1, CourseVaries, CourseIsSequence, <3>1
    <2> HIDE DEF verdict
    <2> QED BY <1>1, <2>2, <2>3, <2>6, <2>7 DEF Confirming
  <1> QED BY <1>2, <1>3, <1>4, <1>5, <1>6
          DEF Next, Runner, User, Crawl, Crawled, AskAs, SeenAs, Gather, Round, PlannerFails,
              Probe, Probed, Conclude, CallFailed, vars, svars

(* A verdict `confirmed` rests on the full course of its check: complete   *)
(* answers, each to the identity the course names or lent by the discovery,*)
(* of the url of the endpoint, or where the tool replaces a query value,   *)
(* of that url with just this value replaced; for any target, plan, limits *)
(* and moment of the cancel flag.                                          *)
THEOREM ConfirmationsRest == Spec => ConfirmedOnFullCourse
  <1>1. RunHolds /\ [Next]_vars => [Confirming]_vars
    BY ConfirmingNext
  <1> QED BY <1>1, RunsHold, PTL DEF Spec, ConfirmedOnFullCourse, Confirming

-----------------------------------------------------------------------------
(* The accepted checks can be paid *)

InFlight == IF wire.stage \in {"reserved", "sent", "returned"} THEN 1 ELSE 0

Owed == [i \in 1..Len(checks) |-> Outstanding(i)]

Funded == Sums(Owed, Len(checks))[Len(checks)] <= Remaining

(* What is owed: nothing before the check at hand, its price after it.     *)
OwedForm ==
    pc \in {"check", "probe"} =>
        /\ status = "executing"
        /\ Len(checks) \in Nat /\ at \in 1..Len(checks)
        /\ DOMAIN checks = 1..Len(checks)
        /\ \A i \in 1..Len(checks) :
            /\ checks[i].cost \in Nat
            /\ i < at => Outstanding(i) = 0
            /\ i > at => Outstanding(i) = checks[i].cost
        /\ pc = "check" => Outstanding(at) = checks[at].cost
        /\ pc = "probe" =>
            /\ Len(Course) \in Nat /\ Outstanding(at) \in Nat
            /\ \E n \in 0..Len(Course) :
                /\ Followed(n) /\ Cardinality(DOMAIN responses) = n
                /\ Outstanding(at) = Len(Course) - n - InFlight
        /\ Owed \in [1..Len(checks) -> Int]

LEMMA OwedIs == RunHolds => OwedForm
  <1> SUFFICES ASSUME RunHolds, pc \in {"check", "probe"}
               PROVE  OwedForm
    BY DEF OwedForm
  <1>0. TInv /\ StatusFollows /\ Rows /\ InOrder /\ OnCourse BY DEF RunHolds, Checking
  <1>1. /\ checks \in Seq(CheckType) /\ DOMAIN checks = 1..Len(checks) /\ Len(checks) \in Nat
        /\ at \in 1..Len(checks) /\ status = "executing"
    BY <1>0 DEF Rows, InOrder, StatusFollows
  <1>2. \A i \in 1..Len(checks) : checks[i].cost \in Nat
    <2>1. \A i \in 1..Len(checks) : checks[i] \in CheckType BY <1>1
    <2> QED BY <2>1 DEF CheckType
  <1>3. \A i \in 1..Len(checks) : i < at => Outstanding(i) = 0 BY DEF Outstanding
  <1>4. ASSUME NEW i \in 1..Len(checks), i > at PROVE Outstanding(i) = checks[i].cost
    <2>1. checks[i].status = "queued" /\ ~(i < at) BY <1>0, <1>1, <1>4 DEF InOrder
    <2> QED BY <2>1 DEF Outstanding, OpenCheck
  <1>5. ASSUME pc = "check" PROVE Outstanding(at) = checks[at].cost
    <2>1. checks[at].status = "queued" /\ ~(at < at) BY <1>0, <1>1, <1>5 DEF InOrder
    <2> QED BY <2>1 DEF Outstanding, OpenCheck
  <1>6. ASSUME pc = "probe"
        PROVE  /\ Len(Course) \in Nat /\ Outstanding(at) \in Nat
               /\ \E n \in 0..Len(Course) :
                    /\ Followed(n) /\ Cardinality(DOMAIN responses) = n
                    /\ Outstanding(at) = Len(Course) - n - InFlight
    <2>1. checks[at].status = "executing" /\ ~(at < at) BY <1>0, <1>1, <1>6 DEF InOrder
    <2>2. Outstanding(at) = Len(Course) - Cardinality(DOMAIN responses) - InFlight
      BY <2>1 DEF Outstanding, OpenCheck, InFlight
    <2>3. PICK n \in 0..Len(Course) : Followed(n) BY <1>0, <1>6 DEF OnCourse
    <2>4. Cardinality(DOMAIN responses) = n
      BY <1>0, <1>6, <2>3, FollowedCount DEF Followed
    <2>5. Len(Course) \in Nat /\ n \in Nat /\ n <= Len(Course)
      <3>1. Len(Course) \in 1..4 BY <1>0, <1>6, CourseVaries DEF Varied
      <3> QED BY <2>3, <3>1
    <2>6. InFlight = 0 \/ (InFlight = 1 /\ n < Len(Course))
      BY <2>3 DEF InFlight, Followed
    <2>7. Len(Course) - n - InFlight \in Nat BY <2>5, <2>6
    <2> QED BY <2>2, <2>3, <2>4, <2>5, <2>7
  <1>7. \A i \in 1..Len(checks) : Outstanding(i) \in Int
    <2>1. \A i \in 1..Len(checks) : i < at \/ i = at \/ i > at BY <1>1
    <2> QED BY <1>1, <1>2, <1>3, <1>4, <1>5, <1>6, <2>1
  <1>8. Owed \in [1..Len(checks) -> Int] BY <1>7 DEF Owed
  <1> QED BY <1>1, <1>2, <1>3, <1>4, <1>5, <1>6, <1>8 DEF OwedForm

LEMMA FundedIs == RunHolds => (ChecksAreFunded <=> (pc \in {"check", "probe"} => Funded))
  <1> SUFFICES ASSUME RunHolds
               PROVE  ChecksAreFunded <=> (pc \in {"check", "probe"} => Funded)
    OBVIOUS
  <1>1. status = "executing" <=> pc \in {"check", "probe"}
    BY DEF RunHolds, Checking, StatusFollows, Ended
  <1>2. DOMAIN checks = 1..Len(checks) BY DEF RunHolds, Checking, Rows
  <1> QED BY <1>1, <1>2 DEF ChecksAreFunded, Funded, Owed

(* A step that spends what it pays off.                                    *)
LEMMA StaysFunded ==
    ASSUME Funded, OwedForm, OwedForm', TInv, TInv',
           pc \in {"check", "probe"}, pc' \in {"check", "probe"},
           Len(checks') = Len(checks), NEW d \in Nat, Remaining <= Remaining' + d,
           NEW a \in 1..Len(checks), Outstanding(a)' + d <= Outstanding(a),
           \A i \in 1..Len(checks) : Outstanding(i)' <= Outstanding(i)
    PROVE  Funded'
  <1>1. /\ Len(checks) \in Nat
        /\ Owed \in [1..Len(checks) -> Int] /\ Owed' \in [1..Len(checks) -> Int]
    BY DEF OwedForm
  <1>2. Owed' = [i \in 1..Len(checks) |-> Outstanding(i)'] BY DEF Owed
  <1>3. \A i \in 1..Len(checks) : Owed'[i] = Outstanding(i)' /\ Owed[i] = Outstanding(i)
    BY <1>2 DEF Owed
  <1>4. PICK f, g, n : f = Owed' /\ g = Owed /\ n = Len(checks)
    OBVIOUS
  <1>5. /\ n \in Nat /\ a \in 1..n /\ f \in [1..n -> Int] /\ g \in [1..n -> Int]
        /\ f[a] + d <= g[a] /\ \A i \in 1..n : f[i] <= g[i]
    <2>1. Outstanding(a)' + d <= Outstanding(a) OBVIOUS
    <2>2. \A i \in 1..Len(checks) : Outstanding(i)' <= Outstanding(i) OBVIOUS
    <2>3. f[a] = Outstanding(a)' /\ g[a] = Outstanding(a) BY <1>1, <1>3, <1>4
    <2>4. f[a] + d <= g[a] BY <2>1, <2>3
    <2>5. \A i \in 1..Len(checks) : f[i] <= g[i] BY <1>3, <1>4, <2>2
    <2> QED BY <1>1, <1>4, <2>4, <2>5
  <1>6. Sums(f, n)[n] + d <= Sums(g, n)[n] BY <1>5, SumsDrop
  <1>7. Sums(f, n) \in [0..n -> Int] /\ Sums(g, n) \in [0..n -> Int] BY <1>5, SumsSteps
  <1>8. n \in 0..n BY <1>5
  <1>9. PICK x, y \in Int : x = Sums(f, n)[n] /\ y = Sums(g, n)[n] BY <1>7, <1>8
  <1>10. y <= Remaining BY <1>4, <1>9 DEF Funded
  <1>11. PICK r, s \in Nat : r = Remaining /\ s = Remaining'
    <2>1. TInv => Remaining \in Nat BY RemainingIsNat
    <2>2. (TInv => Remaining \in Nat)' BY RemainingIsNat, PTL
    <2> QED BY <2>1, <2>2
  <1>12. x <= Remaining'
    <2>1. x + d <= y /\ y <= r /\ r <= s + d BY <1>6, <1>9, <1>10, <1>11
    <2>2. x <= s BY <2>1
    <2> QED BY <1>11, <2>2
  <1>13. Sums(Owed', Len(checks'))[Len(checks')] = x BY <1>4, <1>9
  <1> QED BY <1>12, <1>13 DEF Funded

LEMMA PlannedIsFunded ==
    ASSUME RunHolds, RunHolds', NEW batch \in Batches, NEW manual, Planned(batch, manual),
           pc' \in {"check", "probe"}
    PROVE  Funded'
  <1> DEFINE rows == Materialized(batch)
  <1>1. /\ rows \in Acceptable
        /\ Len(checks') = Len(checks) + Len(rows)
        /\ Len(rows) \in Nat /\ Len(checks) \in Nat
        /\ \A i \in 1..Len(rows) : checks'[Len(checks) + i] = rows[i]
    BY PlannedRows DEF RunHolds, Checking
  <1>2. pc' = "check" /\ at' = Len(checks) + 1 /\ budget' = budget
    BY DEF Planned, EndRun, tvars
  <1>3. OwedForm'
    <2>1. OwedForm' BY OwedIs, PTL
    <2> QED BY <2>1
  <1> HIDE DEF rows
  <1> DEFINE k == Len(checks)
             m == Len(rows)
             h == Owed'
             g == [i \in 1..m |-> rows[i].cost]
  <1>4. h = [i \in 1..(k + m) |-> Outstanding(i)'] BY <1>1 DEF Owed
  <1>5. h \in [1..(k + m) -> Int] BY <1>1, <1>2, <1>3 DEF OwedForm
  <1>6. ASSUME NEW i \in 1..k PROVE h[i] = 0
    <2>1. i \in 1..(k + m) /\ i < at' BY <1>1, <1>2
    <2>2. Outstanding(i)' = 0 BY <1>1, <1>2, <1>3, <2>1 DEF OwedForm
    <2> HIDE DEF h
    <2> QED BY <1>4, <2>1, <2>2
  <1>7. ASSUME NEW j \in 1..m PROVE h[k + j] = g[j]
    <2>1. PICK i : i = k + j OBVIOUS
    <2>2. i \in 1..(k + m) /\ (i = at' \/ i > at') BY <1>1, <1>2, <2>1
    <2>3. Outstanding(i)' = checks'[i].cost
      <3>1. CASE i = at'
        <4>1. Outstanding(at)' = checks'[at'].cost BY <1>2, <1>3 DEF OwedForm
        <4>2. Outstanding(at)' = Outstanding(i)' BY <3>1 DEF Outstanding
        <4> QED BY <3>1, <4>1, <4>2
      <3>2. CASE i > at' BY <1>1, <1>2, <1>3, <2>2, <3>2 DEF OwedForm
      <3> QED BY <2>2, <3>1, <3>2
    <2>4. checks'[i] = rows[j] BY <1>1, <2>1
    <2>5. h[i] = Outstanding(i)'
      <3> HIDE DEF h
      <3> QED BY <1>4, <2>2
    <2> QED BY <2>1, <2>3, <2>4, <2>5
  <1>8. rows \in Seq(CheckType) /\ Reserved(rows) <= Remaining /\ DOMAIN rows = 1..m
    BY <1>1 DEF Acceptable
  <1>9. g \in [1..m -> Int]
    <2>1. \A i \in 1..m : rows[i] \in CheckType BY <1>1, <1>8
    <2> QED BY <2>1 DEF CheckType
  <1>10. Reserved(rows) = Sums(g, m)[m] BY <1>8 DEF Reserved
  <1>11. k \in Nat /\ m \in Nat BY <1>1
  <1> HIDE DEF k, m, h, g
  <1>12. Sums(h, k + m)[k + m] = Sums(g, m)[m] BY <1>5, <1>6, <1>7, <1>9, <1>11, SumsAfter
  <1>13. Remaining' = Remaining BY <1>2 DEF Remaining
  <1>14. Sums(Owed', Len(checks'))[Len(checks')] <= Remaining'
    BY <1>1, <1>8, <1>10, <1>12, <1>13 DEF h, k, m
  <1> QED BY <1>14 DEF Funded

(* A step that pays off the check at hand and touches no other.            *)
LEMMA PaidAtHand ==
    ASSUME Funded, RunHolds, RunHolds', pc \in {"check", "probe"}, pc' \in {"check", "probe"},
           at' = at, Rewritten, NEW d \in Nat, Remaining <= Remaining' + d,
           NEW x \in Int, NEW y \in Int,
           Outstanding(at)' = x, Outstanding(at) = y, x + d <= y
    PROVE  Funded'
  <1>1. OwedForm BY OwedIs
  <1>2. OwedForm'
    <2>1. (RunHolds => OwedForm)' BY OwedIs, PTL
    <2> QED BY <2>1
  <1>3. /\ Len(checks) \in Nat /\ at \in 1..Len(checks) /\ Len(checks') = Len(checks)
    BY <1>1 DEF OwedForm, Rewritten
  <1>4. PICK a : a = at OBVIOUS
  <1>5. Outstanding(a)' = x /\ Outstanding(a) = y
    <2>1. Outstanding(at)' = Outstanding(a)' BY <1>4 DEF Outstanding
    <2> QED BY <1>4, <2>1
  <1>6. ASSUME NEW i \in 1..Len(checks) PROVE Outstanding(i)' <= Outstanding(i)
    <2>1. CASE i < at
      <3>1. Outstanding(i)' = 0 /\ Outstanding(i) = 0 BY <1>1, <1>2, <1>3, <2>1 DEF OwedForm
      <3> QED BY <3>1
    <2>2. CASE i > at
      <3>1. Outstanding(i)' = checks'[i].cost /\ Outstanding(i) = checks[i].cost
        BY <1>1, <1>2, <1>3, <2>2 DEF OwedForm
      <3>2. checks[i].cost \in Nat /\ checks'[i].cost = checks[i].cost
        BY <1>1 DEF OwedForm, Rewritten
      <3> QED BY <3>1, <3>2
    <2>3. CASE i = at
      <3>1. i = a BY <1>4, <2>3
      <3>2. x <= y OBVIOUS
      <3> QED BY <1>5, <3>1, <3>2
    <2> QED BY <1>3, <2>1, <2>2, <2>3
  <1>7. Outstanding(a)' + d <= Outstanding(a) /\ a \in 1..Len(checks) BY <1>3, <1>4, <1>5
  <1> QED BY <1>1, <1>2, <1>3, <1>6, <1>7, StaysFunded DEF RunHolds

LEMMA Unrewritten ==
    ASSUME Rows, checks' = checks
    PROVE  Rewritten
BY DEF Rows, Rewritten

(* What the check at hand owes while it asks, before and after a step.     *)
LEMMA OwedWhileAsking ==
    ASSUME RunHolds, pc = "probe"
    PROVE  /\ Len(Course) \in Nat /\ Outstanding(at) \in Nat
           /\ \E n \in 0..Len(Course) :
                /\ Followed(n) /\ Cardinality(DOMAIN responses) = n
                /\ Outstanding(at) = Len(Course) - n - InFlight
BY OwedIs DEF OwedForm

LEMMA OwedWhileAskingThen ==
    ASSUME RunHolds', pc' = "probe"
    PROVE  /\ Len(Course)' \in Nat /\ Outstanding(at)' \in Nat
           /\ \E n \in 0..Len(Course)' :
                /\ Followed(n)' /\ Cardinality(DOMAIN responses') = n
                /\ Outstanding(at)' = Len(Course)' - n - InFlight'
  <1>1. (RunHolds => OwedForm)' BY OwedIs, PTL
  <1>2. OwedForm' BY <1>1
  <1> QED BY <1>2 DEF OwedForm

(* A request of the check costs no more than it pays off.                  *)
LEMMA AskingIsFunded ==
    ASSUME Funded, RunHolds, RunHolds', pc = "probe", pc' = "probe", SameCheck,
           checks' = checks, responses' = responses, NEW d \in Nat,
           InFlight + d <= InFlight', Remaining <= Remaining' + d
    PROVE  Funded'
  <1>1. Course' = Course BY SameCourse
  <1>2. PICK n \in 0..Len(Course) :
          /\ Cardinality(DOMAIN responses) = n
          /\ Outstanding(at) = Len(Course) - n - InFlight
    BY OwedWhileAsking
  <1>3. PICK m \in 0..Len(Course) :
          /\ Cardinality(DOMAIN responses') = m
          /\ Outstanding(at)' = Len(Course) - m - InFlight'
    BY <1>1, OwedWhileAskingThen
  <1>4. m = n BY <1>2, <1>3
  <1>5. Len(Course) \in Nat /\ InFlight \in {0, 1} /\ InFlight' \in {0, 1}
    BY OwedWhileAsking DEF InFlight
  <1>6. PICK f, g, l \in Nat : f = InFlight /\ g = InFlight' /\ l = Len(Course) BY <1>5
  <1> DEFINE x == l - n - g
             y == l - n - f
  <1>7. x \in Int /\ y \in Int /\ x + d <= y BY <1>6
  <1>8. Outstanding(at)' = x /\ Outstanding(at) = y BY <1>2, <1>3, <1>4, <1>6
  <1>9. at' = at /\ Rewritten BY Unrewritten DEF SameCheck, RunHolds, Checking
  <1> HIDE DEF x, y
  <1> QED BY <1>7, <1>8, <1>9, PaidAtHand

(* A reserved request is paid by the budget, and by what the check owes.   *)
LEMMA TransportPays ==
    ASSUME TInv, Transporting
    PROVE  \E d \in Nat : InFlight + d <= InFlight' /\ Remaining <= Remaining' + d
  <1>1. PICK a \in Nat, b \in Nat, c \in Nat : budget = [used |-> a, discovery |-> b, bytes |-> c]
    BY DEF TInv, Counters
  <1>2. IsCall BY DEF TInv
  <1>3. Total \in Nat BY TotalAssumption
  <1>4. ASSUME NEW s, s \in {"sent", "returned"}, wire' = [wire EXCEPT !.stage = s],
               budget'.used = a
        PROVE  InFlight <= InFlight' /\ Remaining' = Remaining /\ Remaining \in Int
    <2>1. wire'.stage = s BY <1>2, <1>4 DEF IsCall
    <2>2. InFlight' = 1 /\ InFlight \in {0, 1} BY <1>4, <2>1 DEF InFlight
    <2>3. Remaining' = Remaining /\ Remaining \in Int BY <1>1, <1>3, <1>4 DEF Remaining
    <2> QED BY <2>2, <2>3
  <1>5. ASSUME NEW s, s \in {"sent", "returned"}, wire' = [wire EXCEPT !.stage = s],
               budget'.used = a
        PROVE  \E d \in Nat : InFlight + d <= InFlight' /\ Remaining <= Remaining' + d
    <2>1. InFlight <= InFlight' /\ Remaining' = Remaining /\ Remaining \in Int BY <1>4, <1>5
    <2>2. InFlight \in Int /\ InFlight' \in Int BY DEF InFlight
    <2>3. InFlight + 0 <= InFlight' /\ Remaining <= Remaining' + 0 BY <2>1, <2>2
    <2> QED BY <2>3
  <1>6. CASE Reserve
    <2>1. CASE UNCHANGED budget /\ wire' = [wire EXCEPT !.stage = "returned"]
      BY <1>1, <1>5, <2>1
    <2>2. CASE /\ budget' = [budget EXCEPT !.used = @ + 1,
                                !.discovery = IF wire.phase = "discovery" THEN @ + 1 ELSE @]
               /\ wire' = [wire EXCEPT !.stage = "reserved"]
      <3>1. wire'.stage = "reserved" /\ wire.stage = "paced"
        BY <1>2, <1>6, <2>2 DEF IsCall, Reserve
      <3>2. InFlight = 0 /\ InFlight' = 1 BY <3>1 DEF InFlight
      <3>3. budget'.used = a + 1 BY <1>1, <2>2
      <3>4. Remaining <= Remaining' + 1 BY <1>1, <1>3, <3>3 DEF Remaining
      <3> QED BY <3>2, <3>4
    <2> QED BY <1>6, <2>1, <2>2 DEF Reserve, Fail
  <1>7. ASSUME NEW reply, NEW size, Return(reply, size)
        PROVE  budget'.used = a /\ wire' = [wire EXCEPT !.stage = "returned"]
    BY <1>1, <1>7 DEF Return
  <1>8. CASE Open BY <1>1, <1>5, <1>7, <1>8 DEF Open, Fail
  <1>9. CASE Abort \/ \E r \in Answers : Receive(r)
    <2>1. PICK reply, size : Return(reply, size) BY <1>9 DEF Abort, Receive
    <2> QED BY <1>5, <1>7, <2>1
  <1> QED BY <1>6, <1>8, <1>9 DEF Transporting

LEMMA StartIsFunded ==
    ASSUME Funded, RunHolds, RunHolds', StartCheck
    PROVE  Funded'
  <1>0. TInv /\ StatusFollows /\ Rows /\ InOrder BY DEF RunHolds, Checking
  <1>1. /\ pc = "check" /\ pc' = "probe" /\ at' = at /\ at \in 1..Len(checks)
        /\ wire.stage = "idle" /\ UNCHANGED <<inventory, tvars>>
    BY <1>0 DEF StartCheck, InOrder, StatusFollows
  <1>2. Rewritten BY <1>0, <1>1, CurrentRewrites
  <1>3. SameCheck BY <1>1, <1>2 DEF SameCheck, Rewritten
  <1>4. Course' = Course BY <1>3, SameCourse
  <1>5. wire'.stage = "idle" /\ budget' = budget BY <1>1 DEF tvars
  <1>6. PICK m \in 0..Len(Course) :
          /\ Cardinality(DOMAIN responses') = m
          /\ Outstanding(at)' = Len(Course) - m - InFlight'
    BY <1>1, <1>4, OwedWhileAskingThen
  <1>7. InFlight' = 0 BY <1>5 DEF InFlight
  <1>8. /\ Current.plan.tool \in Tools /\ Current.plan.mode \in Modes(Current.plan.tool)
        /\ Current.cost = CostOf(Current.plan)
        /\ Current.plan.tool = "security_headers_cookie" => Target.replayed
        /\ Len(Course) \in 1..4
    BY <1>0, <1>1, CourseVaries DEF Varied
  <1> DEFINE lent == IF Reuses(Current.plan.tool, Current.plan.mode) /\ Target.replayed
                     THEN 1 ELSE 0
  <1>9. /\ CostOf(Current.plan) \in Nat
        /\ Len(Course) <= CostOf(Current.plan) + lent
    BY <1>8, CostCovers DEF CostOf, Course, Target
  <1>10. m = lent
    <2>1. CASE Reuses(Current.plan.tool, Current.plan.mode) /\ Target.replayed
      <3>1. responses' = Only(Course[1].role, Target.reply) BY <2>1 DEF StartCheck
      <3>2. DOMAIN responses' = {Course[1].role} BY <3>1, OnlyAt
      <3>3. Cardinality(DOMAIN responses') = 1 BY <3>2, FS_Singleton
      <3> QED BY <1>6, <2>1, <3>3
    <2>2. CASE ~(Reuses(Current.plan.tool, Current.plan.mode) /\ Target.replayed)
      <3>1. responses' = <<>> BY <2>2 DEF StartCheck
      <3>2. DOMAIN responses' = {} BY <3>1
      <3>3. Cardinality(DOMAIN responses') = 0 BY <3>2, FS_EmptySet
      <3> QED BY <1>6, <2>2, <3>3
    <2> QED BY <2>1, <2>2
  <1>11. Outstanding(at) = CostOf(Current.plan)
    BY <1>1, <1>8, OwedIs DEF OwedForm, Current
  <1>12. PICK l \in Nat, c \in Nat, e \in Nat :
            l = Len(Course) /\ c = CostOf(Current.plan) /\ e = lent
    BY <1>8, <1>9
  <1> HIDE DEF lent
  <1>13. l <= c + e /\ m = e BY <1>9, <1>10, <1>12
  <1>14. Outstanding(at)' = l - m /\ Outstanding(at) = c BY <1>6, <1>7, <1>11, <1>12
  <1>15. l - m \in Int /\ c \in Int /\ (l - m) + 0 <= c BY <1>13
  <1>16. Remaining <= Remaining' + 0
    <2>1. Remaining' = Remaining BY <1>5 DEF Remaining
    <2> QED BY <1>0, <2>1, RemainingIsNat
  <1>17. 0 \in Nat OBVIOUS
  <1> QED BY <1>1, <1>2, <1>14, <1>15, <1>16, <1>17, PaidAtHand

LEMMA ProbedIsFunded ==
    ASSUME Funded, RunHolds, RunHolds', Probed
    PROVE  Funded'
  <1>0. TInv /\ StatusFollows /\ Rows /\ InOrder BY DEF RunHolds, Checking
  <1>1. /\ pc = "probe" /\ pc' = "probe" /\ at' = at /\ SameCheck /\ checks' = checks
        /\ wire.stage = "returned" /\ wire'.stage = "idle" /\ budget' = budget
    BY CallTaken DEF Probed, Returned, SameCheck
  <1>2. Course' = Course /\ Varied(Course) BY <1>0, <1>1, SameCourse, CourseVaries
  <1>3. PICK n \in 0..Len(Course) :
          /\ Followed(n) /\ Cardinality(DOMAIN responses) = n
          /\ Outstanding(at) = Len(Course) - n - InFlight
    BY <1>1, OwedWhileAsking
  <1>4. PICK m \in 0..Len(Course) :
          /\ Followed(m)' /\ Cardinality(DOMAIN responses') = m
          /\ Outstanding(at)' = Len(Course) - m - InFlight'
    BY <1>1, <1>2, OwedWhileAskingThen
  <1>5. InFlight = 1 /\ InFlight' = 0 BY <1>1 DEF InFlight
  <1>6. Len(Course) \in Nat /\ n \in Nat /\ m \in Nat /\ n < Len(Course)
    <2>1. Len(Course) \in 1..4 BY <1>2 DEF Varied
    <2> QED BY <1>1, <1>3, <1>4, <2>1 DEF Followed
  <1>7. n + 1 <= m
    <2>1. wire.role = Course[n + 1].role BY <1>1, <1>3 DEF Followed
    <2>2. responses' = Completed(Only(wire.role, result.reply), responses) BY DEF Probed
    <2>3. Course[n + 1].role \in DOMAIN responses' BY <2>1, <2>2 DEF Completed, Only
    <2>4. DOMAIN responses' = {Course[j].role : j \in 1..m} BY <1>2, <1>4 DEF Followed
    <2>5. PICK j \in 1..m : Course[j].role = Course[n + 1].role BY <2>3, <2>4
    <2>6. j \in 1..Len(Course) /\ n + 1 \in 1..Len(Course) BY <1>4, <1>6, <2>5
    <2>7. j = n + 1 BY <1>2, <2>5, <2>6 DEF Varied
    <2> QED BY <1>6, <2>5, <2>7
  <1>8. PICK l \in Nat : l = Len(Course) BY <1>6
  <1>9. Outstanding(at)' = l - m /\ Outstanding(at) = l - n - 1
    BY <1>3, <1>4, <1>5, <1>6, <1>8
  <1>10. l - m \in Int /\ l - n - 1 \in Int /\ (l - m) + 0 <= l - n - 1 BY <1>6, <1>7
  <1>11. Remaining <= Remaining' + 0
    <2>1. Remaining' = Remaining BY <1>1 DEF Remaining
    <2> QED BY <1>0, <2>1, RemainingIsNat
  <1>12. 0 \in Nat /\ Rewritten BY <1>0, <1>1, Unrewritten
  <1> QED BY <1>1, <1>9, <1>10, <1>11, <1>12, PaidAtHand

LEMMA JudgeIsFunded ==
    ASSUME Funded, RunHolds, RunHolds', Judge, pc' = "check"
    PROVE  Funded'
  <1>0. TInv /\ StatusFollows /\ Rows /\ InOrder BY DEF RunHolds, Checking
  <1>1. OwedForm /\ OwedForm'
    <2>1. (RunHolds => OwedForm)' BY OwedIs, PTL
    <2> QED BY <2>1, OwedIs
  <1>2. pc = "probe" /\ at' = at + 1 /\ at \in 1..Len(checks) /\ UNCHANGED tvars
    BY <1>0 DEF Judge, InOrder
  <1>3. Rewritten /\ Len(checks') = Len(checks) /\ Len(checks) \in Nat
    BY <1>0, <1>1, <1>2, CurrentRewrites DEF Rewritten, OwedForm
  <1>4. Outstanding(at) \in Nat BY <1>1, <1>2 DEF OwedForm
  <1>5. ASSUME NEW i \in 1..Len(checks) PROVE Outstanding(i)' <= Outstanding(i)
    <2>1. CASE i < at'
      <3>1. Outstanding(i)' = 0 BY <1>1, <1>2, <1>3, <2>1 DEF OwedForm
      <3>2. Outstanding(i) \in Nat
        <4>1. CASE i < at BY <1>1, <1>2, <4>1 DEF OwedForm
        <4>2. CASE i = at BY <1>4, <4>2
        <4> QED BY <1>2, <2>1, <4>1, <4>2
      <3> QED BY <3>1, <3>2
    <2>2. CASE ~(i < at')
      <3>1. i > at BY <1>2, <1>3, <2>2
      <3>2. Outstanding(i) = checks[i].cost /\ checks[i].cost \in Nat
        BY <1>1, <1>2, <3>1 DEF OwedForm
      <3>3. checks'[i].cost = checks[i].cost BY <1>3 DEF Rewritten
      <3>4. Outstanding(i)' = checks'[i].cost
        <4>1. CASE i = at'
          <5>1. Outstanding(at)' = checks'[at'].cost BY <1>1 DEF OwedForm
          <5>2. Outstanding(at)' = Outstanding(i)' BY <4>1 DEF Outstanding
          <5> QED BY <4>1, <5>1, <5>2
        <4>2. CASE i # at'
          <5>1. i > at' BY <1>2, <1>3, <2>2, <4>2
          <5> QED BY <1>1, <1>3, <5>1 DEF OwedForm
        <4> QED BY <4>1, <4>2
      <3> QED BY <3>2, <3>3, <3>4
    <2> QED BY <2>1, <2>2
  <1>6. Remaining <= Remaining' + 0
    <2>1. Remaining' = Remaining BY <1>2 DEF Remaining, tvars
    <2> QED BY <1>0, <2>1, RemainingIsNat
  <1>7. PICK a : a = at OBVIOUS
  <1>8. a \in 1..Len(checks) /\ 0 \in Nat BY <1>2, <1>7
  <1>9. Outstanding(a)' + 0 <= Outstanding(a)
    <2>1. a < at' BY <1>2, <1>3, <1>7
    <2>2. Outstanding(a)' = 0 BY <1>1, <1>3, <1>8, <2>1 DEF OwedForm
    <2> QED BY <1>4, <1>7, <2>2
  <1> QED BY <1>1, <1>2, <1>3, <1>5, <1>6, <1>8, <1>9, StaysFunded DEF RunHolds

LEMMA FundedNext ==
    ASSUME RunHolds, RunHolds', pc \in {"check", "probe"} => Funded, [Next]_vars,
           pc' \in {"check", "probe"}
    PROVE  Funded'
  <1>0. TInv /\ StatusFollows /\ Rows /\ InOrder BY DEF RunHolds, Checking
  <1>00. Remaining \in Nat BY <1>0, RemainingIsNat
  <1>1. CASE \E batch \in Batches, manual \in {"none", "unselected", "selected"} :
               Planned(batch, manual)
    BY <1>1, PlannedIsFunded
  <1>2. CASE StartCheck BY <1>2, StartIsFunded DEF StartCheck
  <1>3. CASE Probe
    <2>1. /\ pc = "probe" /\ pc' = "probe" /\ SameCheck /\ checks' = checks
          /\ responses' = responses /\ wire.stage = "idle"
      BY <1>3 DEF Probe, svars, SameCheck
    <2>2. budget' = budget BY <1>3, CallMade DEF Probe
    <2>3. InFlight + 0 <= InFlight' /\ 0 \in Nat BY <2>1 DEF InFlight
    <2>4. Remaining <= Remaining' + 0 BY <1>00, <2>2 DEF Remaining
    <2> QED BY <2>1, <2>3, <2>4, AskingIsFunded
  <1>4. CASE Probed BY <1>4, ProbedIsFunded DEF Probed
  <1>5. CASE Judge BY <1>5, JudgeIsFunded DEF Judge
  <1>6. CASE Transporting /\ UNCHANGED svars
    <2>1. /\ pc = "probe" /\ pc' = "probe" /\ SameCheck /\ checks' = checks
          /\ responses' = responses
      <3>1. wire.stage # "idle" BY <1>6 DEF Transporting, Reserve, Open, Receive, Abort
      <3> QED BY <1>0, <1>6, <3>1 DEF svars, SameCheck, StatusFollows
    <2>2. PICK d \in Nat : InFlight + d <= InFlight' /\ Remaining <= Remaining' + d
      BY <1>0, <1>6, TransportPays
    <2> QED BY <2>1, <2>2, AskingIsFunded
  <1>7. CASE UNCHANGED <<svars, wire, budget>>
    BY <1>7 DEF svars, Funded, Owed, Outstanding, Remaining, Course, Current
  <1>8. CASE User
    <2>1. UNCHANGED <<svars, wire, budget>> BY <1>8 DEF User, Cancel, Change
    <2> QED BY <1>7, <2>1
  <1>9. CASE UNCHANGED vars
    <2>1. UNCHANGED <<svars, wire, budget>> BY <1>9 DEF vars, tvars
    <2> QED BY <1>7, <2>1
  <1> QED BY <1>1, <1>2, <1>3, <1>4, <1>5, <1>6, <1>8, <1>9
          DEF Next, Runner, Crawl, Crawled, AskAs, AfterIdentity, SeenAs, Gather, EndRun,
              Finalize, Round, PlannerFails, Conclude, CallFailed, StatusFollows

(* What the budget still holds covers every request the accepted checks    *)
(* still need: whatever the plans, the answers and the limits, no check    *)
(* that was accepted fails for want of requests.                           *)
THEOREM FundedChecks == Spec => []ChecksAreFunded
  <1> DEFINE FInv == pc \in {"check", "probe"} => Funded
  <1>1. Init => FInv BY DEF Init
  <1>2. RunHolds /\ RunHolds' /\ FInv /\ [Next]_vars => FInv'
    BY FundedNext
  <1>3. RunHolds /\ FInv => ChecksAreFunded BY FundedIs
  <1> HIDE DEF FInv
  <1> QED BY <1>1, <1>2, <1>3, RunsHold, PTL DEF Spec
=============================================================================
