------------------------------- MODULE Report -------------------------------
(***************************************************************************)
(* The export of a report (report.rs, the export commands of commands.rs): *)
(* one asynchronous reader beside all writers of Findings.                 *)
(*                                                                         *)
(* A document is put together from a dozen queries in a fixed order, and   *)
(* no transaction spans them: between any two of them the user, the rule   *)
(* worker, an analysis or a verifier may commit.  A project report shows   *)
(* every finding and the latest run that ended, a run report the findings  *)
(* one run has links to, a mission report those of the runs of a mission.  *)
(* Markdown and JSON are then written to two new files.                    *)
(***************************************************************************)
EXTENDS Findings, Integers, FiniteSets

CONSTANTS Scopes,       \* the reports to ask for, of "project", "run", "mission"
          FromTraffic,  \* evidence a user takes from the captured exchange
          MaxAttempts,  \* names tried for a pair of files, 100 in the code
          MaxWrites,    \* bound: commits while one report is put together
          MaxForeign    \* bound: files others make while it is written

ASSUME AttemptsAssumption == MaxAttempts \in Nat \ {0}
ASSUME ScopesAssumption == Scopes \subseteq {"project", "run", "mission"}

Attempts == 1 .. MaxAttempts

VARIABLES
    at,       \* the query or the step that comes next
    request,  \* scope, the checks of the run or runs and which of them ended
              \* inconclusive or skipped, evidence of handoffs, raw sources?
    doc,      \* what the document holds so far
    writes,   \* history: the commits since the first query
    file,     \* who made the files <<attempt, extension>>, if they exist
    attempt,  \* the name being tried
    left      \* history: files of the export whose removal was refused

reader == <<at, request, doc, writes>>
files == <<file, attempt, left>>
reportVars == <<vars, reader, files>>

NoDoc == [traffic |-> FALSE, notObserved |-> {}, gaps |-> {},
          rows |-> [f \in FindingIds |-> "absent"], by |-> [f \in FindingIds |-> "none"],
          targets |-> {}, items |-> {}, raw |-> {}, hits |-> {}, told |-> {}]

NoRequest == [scope |-> "none", checks |-> {}, unsure |-> {}, handed |-> {}, raw |-> FALSE]

Files == Attempts \X {"md", "json"}

ReportInit ==
    /\ Init
    /\ at = "idle" /\ request = NoRequest /\ doc = NoDoc /\ writes = 0
    /\ file = [f \in Files |-> "none"] /\ attempt = 1 /\ left = {}

-----------------------------------------------------------------------------
(* What a document says *)

Listed == {f \in FindingIds : doc.rows[f] \in {"pending", "confirmed"}}

ItemsOf(f) == {i \in doc.items : i.f = f}

Backed(f) == \E i \in ItemsOf(f) : i.accepted /\ i.good

(* The sections: a suspicion is also listed in the appendix.               *)
Confirmed == {f \in Listed : doc.rows[f] = "confirmed"}
Pending == Listed \ Confirmed
Suspected == {f \in Pending : doc.by[f] = "safe_verifier"}

NeedsHumanReview(f) ==
    \A i \in ItemsOf(f) : ~(i.accepted /\ i.good /\ i.by # NoCheck)

Methods ==
    {"human_evidence_review"}
    \cup (IF doc.traffic THEN {"bounded_traffic_capture"} ELSE {})
    \cup (IF Listed \cap doc.hits # {} THEN {"passive_rules"} ELSE {})
    \cup (IF \E f \in Listed : doc.by[f] = "ai" THEN {"ai_hypothesis"} ELSE {})
    \cup (IF \E f \in Listed : \E i \in ItemsOf(f) : i.replayed
          THEN {"authorized_replay"} ELSE {})

-----------------------------------------------------------------------------
(* Steps of the reader *)

Goto(from, to) == at = from /\ at' = to /\ UNCHANGED <<vars, request, writes, files>>

(* The checks of a run, or of the runs of a mission; none without a run.   *)
(* Raw sources go into a file only after a dialog for this one export.     *)
Begin ==
    /\ at = "idle"
    /\ \E scope \in Scopes, checks \in SUBSET Checks, raw \in BOOLEAN :
       \E unsure \in SUBSET checks,
          handed \in SUBSET {e \in EvidenceIds : Exists(eFinding[e]) /\ eCheck[e] = NoCheck} :
          /\ scope = "mission" => ~raw
          /\ scope # "mission" => handed = {}
          /\ request' = [scope |-> scope, checks |-> checks, unsure |-> unsure,
                         handed |-> handed, raw |-> raw]
          /\ at' = IF raw THEN "dialog" ELSE "project"
    /\ UNCHANGED <<vars, doc, writes, files>>

Confirm == Goto("dialog", "project") /\ UNCHANGED doc

Cancel == Goto("dialog", "cancelled") /\ UNCHANGED doc

QueryProject ==
    /\ Goto("project", IF project = "deleted" THEN "failed"
                       ELSE IF request.scope = "mission" THEN "findings" ELSE "count")
    /\ UNCHANGED doc

CountTraffic ==
    /\ Goto("count", "outcomes")
    /\ doc' = [doc EXCEPT !.traffic = traffic = "kept"]

(* Mutant: a check without a finding counts as not observed, whatever else *)
(* its verdict says.                                                       *)
ClearChecksAll == {c \in request.checks : verdict[c] = "clear"}

ClearChecks == {c \in request.checks : verdict[c] = "clear" /\ c \notin request.unsure}

QueryNotObserved ==
    /\ Goto("outcomes", "gaps")
    /\ doc' = [doc EXCEPT !.notObserved = ClearChecks]

Gap(S, w) == [check : S, why : {w}]

(* What the runner may have noted of a check after its verdict: that it    *)
(* contradicts a person, or that nobody declared who owns the resource.    *)
(* The row is written behind the transaction of the verdict, or never.     *)
Noted ==
    Gap({c \in request.checks : relation[c] = "human_conflict"}, "human_judgement_conflict")
    \cup Gap({c \in request.checks : verdict[c] = "suspected"}, "resource_ownership_missing")

QueryGaps ==
    /\ Goto("gaps", "incomplete")
    /\ \E stored \in SUBSET Noted : doc' = [doc EXCEPT !.gaps = stored]

Incomplete == Gap({c \in request.unsure : verdict[c] = "clear"}, "verification_incomplete")

QueryIncomplete ==
    /\ Goto("incomplete", "findings")
    /\ doc' = [doc EXCEPT !.gaps = @ \cup Incomplete]

Linked == {f \in FindingIds : Exists(f) /\ Verifications(f) \cap request.checks # {}}

(* A mission report joins the links in the query itself.                   *)
Rows(S) == [f \in FindingIds |-> IF f \in S /\ Exists(f) THEN status[f] ELSE "absent"]

QueryFindings ==
    LET wanted == IF request.scope = "mission" THEN Linked ELSE FindingIds
    IN /\ Goto("findings", CASE request.scope = "mission" -> "evidence"
                             [] request.scope = "run" -> "links"
                             [] OTHER -> "targets")
       /\ doc' = [doc EXCEPT !.rows = Rows(wanted), !.by = producer]

Retained == [f \in FindingIds |-> IF f \in Linked THEN doc.rows[f] ELSE "absent"]

QueryLinks ==
    /\ Goto("links", "targets")
    /\ doc' = [doc EXCEPT !.rows = Retained]

(* Live targets; a snapshot of the evidence brings its own.                *)
QueryTargets ==
    /\ Goto("targets", "evidence")
    /\ doc' = [doc EXCEPT !.targets = IF traffic = "kept" THEN Listed ELSE {}]

(* A verifier's evidence is a replay, a user's a replay or the exchange.   *)
OfTraffic(e) == e \in FromTraffic /\ eCheck[e] = NoCheck

Item(e) == [e |-> e, f |-> eFinding[e], accepted |-> eAccepted[e], good |-> eGood[e],
            by |-> eCheck[e], replayed |-> ~OfTraffic(e)]

(* A mission report shows the evidence its verifications or handoffs made. *)
InScope(e) ==
    request.scope = "mission" =>
        eCheck[e] \in request.checks \/ e \in request.handed

RawOf(S) ==
    IF request.raw THEN {e \in S : OfTraffic(e) => traffic = "kept"} ELSE {}

QueryEvidence ==
    LET shown == {e \in EvidenceIds : Exists(eFinding[e]) /\ InScope(e)}
    IN /\ Goto("evidence", IF request.scope = "mission" THEN "built" ELSE "hits")
       /\ doc' = [doc EXCEPT !.items = {Item(e) : e \in shown}, !.raw = RawOf(shown)]

(* A finding of a passive rule has hits as long as it is there.            *)
QueryHits ==
    /\ Goto("hits", "compose")
    /\ doc' = [doc EXCEPT !.hits = {f \in FindingIds : Exists(f) /\ producer[f] = "passive_rule"}]

(* No report at all when a confirmed finding is not backed.                *)
Compose ==
    /\ Goto("compose", IF \A f \in Confirmed : Backed(f) THEN "range" ELSE "refused")
    /\ UNCHANGED doc

(* The oldest exchange, when the count has seen any: NULL is an error.     *)
TrafficRange ==
    /\ Goto("range", IF doc.traffic /\ traffic = "cleared" THEN "failed" ELSE "events")
    /\ UNCHANGED doc

(* Mutant: the events of rejected findings are told as well.               *)
ToldAll == {f \in FindingIds : Exists(f) /\ doc.rows[f] # "absent"}

Told == {f \in Listed : Exists(f) /\ status[f] # "rejected"}

QueryEvents ==
    /\ Goto("events", "built")
    /\ doc' = [doc EXCEPT !.told = Told]

-----------------------------------------------------------------------------
(* The pair of files.  Other exports and the user make files of the same   *)
(* names; nobody removes those.                                            *)

(* The document is turned into two texts.                                  *)
Serialize ==
    /\ at = "built" /\ at' = "create"
    /\ request' = NoRequest /\ doc' = NoDoc
    /\ UNCHANGED <<vars, writes, files>>

Made(x) == file' = [file EXCEPT ![<<attempt, x>>] = "mine"]

Forward == attempt' = attempt + 1 /\ at' = IF attempt = MaxAttempts THEN "unwritten" ELSE "create"

CreateMarkdown ==
    /\ at = "create"
    /\ \/ file[<<attempt, "md">>] = "none" /\ Made("md") /\ at' = "json" /\ UNCHANGED attempt
       \/ file[<<attempt, "md">>] = "other" /\ Forward /\ UNCHANGED file
       \/ at' = "unwritten" /\ UNCHANGED <<file, attempt>>
    /\ UNCHANGED <<vars, request, doc, writes, left>>

(* Mutant: the files of a name that is given up stay.                      *)
RemovedNone(X) == UNCHANGED <<file, left>>

(* Nobody looks at what the removals return.                               *)
Removed(X) ==
    \E gone \in SUBSET ({attempt} \X X) :
        /\ file' = [f \in Files |-> IF f \in gone THEN "none" ELSE file[f]]
        /\ left' = left \cup (({attempt} \X X) \ gone)

CreateJson ==
    /\ at = "json"
    /\ \/ file[<<attempt, "json">>] = "none" /\ Made("json") /\ at' = "write"
          /\ UNCHANGED <<attempt, left>>
       \/ file[<<attempt, "json">>] = "other" /\ Forward /\ Removed({"md"})
       \/ at' = "unwritten" /\ Removed({"md"}) /\ UNCHANGED attempt
    /\ UNCHANGED <<vars, request, doc, writes>>

WriteBoth ==
    /\ at = "write"
    /\ \/ at' = "exported" /\ UNCHANGED <<file, left>>
       \/ at' = "unwritten" /\ Removed({"md", "json"})
    /\ UNCHANGED <<vars, request, doc, writes, attempt>>

SomeoneElse ==
    /\ at \in {"create", "json", "write"}
    /\ Cardinality({f \in Files : file[f] = "other"}) < MaxForeign
    /\ \E f \in Files : file[f] = "none" /\ file' = [file EXCEPT ![f] = "other"]
    /\ UNCHANGED <<vars, reader, attempt, left>>

-----------------------------------------------------------------------------

Reader ==
    \/ Begin \/ Confirm \/ Cancel \/ QueryProject \/ CountTraffic \/ QueryNotObserved
    \/ QueryGaps \/ QueryIncomplete \/ QueryFindings \/ QueryLinks \/ QueryTargets
    \/ QueryEvidence \/ QueryHits \/ Compose \/ TrafficRange \/ QueryEvents \/ Serialize
    \/ CreateMarkdown \/ CreateJson \/ WriteBoth

Querying == {"project", "count", "outcomes", "gaps", "incomplete", "findings", "links", "targets",
             "evidence", "hits", "compose", "range", "events"}

(* Once the document is built the reader is through with the database.     *)
Writers ==
    /\ at \in {"idle", "dialog"} \cup Querying
    /\ writes < MaxWrites
    /\ Next
    /\ writes' = IF at \in Querying THEN writes + 1 ELSE writes
    /\ UNCHANGED <<at, request, doc, files>>

ReportNext == Reader \/ Writers \/ SomeoneElse

ReportSpec == ReportInit /\ [][ReportNext]_reportVars

-----------------------------------------------------------------------------
(* Properties *)

OfAssessment == request.scope \in {"project", "run"}

(* The findings the report is about, by the database.                      *)
Wanted == IF request.scope = "project" THEN FindingIds ELSE Linked

Complete ==
    /\ Confirmed = {f \in Wanted : status[f] = "confirmed"}
    /\ Pending = {f \in Wanted : status[f] = "pending"}
    /\ Suspected = {f \in Pending : \E c \in Checks : vFinding[c] = f}
    /\ \A f \in Confirmed :
          /\ {i.e : i \in {j \in ItemsOf(f) : j.accepted /\ j.good}} = Support(f)
          /\ NeedsHumanReview(f) <=> \A e \in Support(f) : eCheck[e] = NoCheck
    /\ doc.told = Listed
    /\ "passive_rules" \in Methods <=> \E f \in Listed : key[f] \in RuleKeys
    /\ "bounded_traffic_capture" \in Methods <=> traffic = "kept"

(* A report is refused for want of evidence, or fails, only when somebody  *)
(* wrote while it was put together: what the database holds between two    *)
(* transactions always makes a report, and if nobody wrote, the report     *)
(* says of every finding in its scope what the database says, no more and  *)
(* no less.  (build_document_for_assessment)                               *)
CalmReportIsComplete ==
    /\ writes = 0 => at # "refused" /\ (at = "failed" => project = "deleted")
    /\ at = "built" /\ writes = 0 /\ OfAssessment => Complete

(* Whatever was written in between, no assessment report calls a finding   *)
(* confirmed without showing what confirms it; a check it lists as not     *)
(* observed is no gap and stands for none of its findings; a check among   *)
(* the gaps that stands for a finding was decided, and where its evidence  *)
(* is shown as accepted the gap says that a person thought otherwise; and  *)
(* raw sources are in it only if they were confirmed for this export.      *)
ReportIsSound ==
    at = "built" /\ OfAssessment =>
        /\ \A f \in Confirmed : \E i \in doc.items : i.f = f /\ i.accepted /\ i.good
        /\ \A g \in doc.gaps : g.check \notin doc.notObserved
        /\ \A i \in doc.items : i.by \notin doc.notObserved
        /\ \A i \in doc.items, g \in doc.gaps :
              g.check = i.by => /\ g.why # "verification_incomplete"
                                /\ i.accepted => g.why = "human_judgement_conflict"
        /\ doc.raw # {} => request.raw

(* docs/architecture/security-boundaries.md:210: a mission report is       *)
(* refused as a whole when a confirmed finding has no evidence fit for it. *)
MissionReportIsBacked ==
    at = "built" /\ request.scope = "mission" =>
        \A f \in Confirmed : \E i \in doc.items : i.f = f /\ i.accepted /\ i.good

(* An export hands out two files it has made itself under one name.  What  *)
(* else there is of it, after a success or a failure, is a file that the   *)
(* system refused to remove: after a success, markdowns of earlier names.  *)
(* (write_report_pair)                                                     *)
PairIsWhole ==
    /\ at = "exported" =>
          /\ \A f \in Files : file[f] = "mine" <=> f[1] = attempt \/ f \in left
          /\ \A f \in left : f[1] < attempt /\ f[2] = "md"
    /\ at = "unwritten" => \A f \in Files : file[f] = "mine" <=> f \in left
=============================================================================
