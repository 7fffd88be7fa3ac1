------------------------------ MODULE Analysis ------------------------------
(***************************************************************************)
(* The analysis of one captured exchange by a language model (commands.rs  *)
(* preview_ai_context, analyze_traffic; ai/context.rs, client.rs,          *)
(* analyzer.rs, validation_calibrated.rs).                                 *)
(*                                                                         *)
(* The user is shown what would be sent and approves it by its hash.  An   *)
(* analysis reads the settings again, one by one and beside the commands   *)
(* that write them, asks the provider for minutes, calibrates the answer   *)
(* and replaces the hypotheses of earlier answers in one transaction.      *)
(* Several analyses of the exchange may be under way.                      *)
(***************************************************************************)
EXTENDS Integers, FiniteSets, SequencesExt

CONSTANTS Calls,      \* analyses of the exchange
          NoCall,
          Providers,
          Policies,   \* what a user allows to be sent
          Captures,   \* captured request and response bodies
          Answers,    \* answers of a provider
          Fixed,      \* bytes of the prompts without the bodies
          Marker,     \* bytes of the mark that ends a shortened body
          Step,       \* bytes a body is shortened by at least, 256 in the code
          MaxEdits    \* bound: changes of the settings and the tags

ASSUME SizesAssumption ==
    /\ Fixed \in Nat /\ Marker \in Nat /\ Step \in Nat \ {0}
    /\ \A p \in Policies : p.limit \in Nat /\ p.total \in Nat
    /\ \A b \in Captures : b[1].size \in Nat /\ b[2].size \in Nat
ASSUME AnswersAssumption ==
    \A a \in Answers : \A i \in DOMAIN a.hypotheses : a.hypotheses[i].confidence \in 0 .. 100

VARIABLES
    settings,    \* AI switched on, provider and version of the prompt
    exchange,    \* captured bodies, version of the rule tags, kept?
    edits,
    call,        \* by call: stage, what was approved, read and answered
    billed,      \* history: requests that were answered or got lost on the way
    run,         \* by call: its row of analysis_runs, or none
    cache,       \* the call whose answer get_analysis returns
    hypothesis,  \* by call: its findings: none, open, touched
    usage        \* calls counted

inputs == <<settings, exchange, edits>>
stored == <<run, cache, hypothesis, usage>>
analysisVars == <<inputs, call, billed, stored>>

-----------------------------------------------------------------------------
(* What is sent *)

Withheld(b, policy) ==
    \/ b.truncated /\ ~policy.truncated
    \/ b.undecoded /\ ~policy.undecoded
    \/ b.binary /\ ~(IF b.undecoded THEN policy.undecoded ELSE policy.binary)

Cut(n, limit) == IF n <= limit THEN n ELSE IF limit <= Marker THEN 0 ELSE limit

Prepared(b, limit, policy) == IF Withheld(b, policy) THEN 0 ELSE Cut(b.size, limit)

(* The bodies are shortened until the prompt fits, the response first.     *)
TooLong == <<-1, -1>>

Shorter(n, excess) == Cut(n, IF n > excess THEN n - excess ELSE 0)

Shortened(p, excess) ==
    IF p[2] > 0 THEN <<p[1], Shorter(p[2], excess)>> ELSE <<Shorter(p[1], excess), 0>>

Excess(p, total) ==
    IF Fixed + p[1] + p[2] - total > Step THEN Fixed + p[1] + p[2] - total ELSE Step

Fit(total, request, response) ==
    LET f[p \in (0 .. request) \X (0 .. response)] ==
            IF Fixed + p[1] + p[2] <= total THEN p
            ELSE IF p = <<0, 0>> THEN TooLong ELSE f[Shortened(p, Excess(p, total))]
    IN f[<<request, response>>]

Bodies(policy) ==
    Fit(policy.total, Prepared(exchange.request, policy.limit, policy),
        Prepared(exchange.response, policy.limit, policy))

Parts(bodies) ==
    {"request.url", "response.headers"}
    \cup (IF bodies[1] > 0 THEN {"request.body"} ELSE {})
    \cup (IF bodies[2] > 0 THEN {"response.body"} ELSE {})

(* What the hash of a preview is taken over.                               *)
Context(provider, prompt, policy) ==
    [provider |-> provider, prompt |-> prompt, policy |-> policy,
     tags |-> exchange.tags, bodies |-> Bodies(policy)]

-----------------------------------------------------------------------------
(* What an answer is worth *)

Strong == {"request.body", "response.body"}
Moderate == {"request.headers", "response.headers", "response.status", "passive.rule_tags"}

Caps(critical, high, medium, lower) ==
    [critical |-> critical, high |-> high, medium |-> medium, low |-> lower, info |-> lower]

Cap(severity, refs) ==
    LET caps == IF refs \cap (Strong \cup Moderate) = {} THEN Caps(45, 45, 45, 40)
                ELSE IF refs \cap Strong = {} THEN Caps(60, 70, 70, 100)
                ELSE IF Cardinality(refs) < 2 THEN Caps(80, 85, 100, 100)
                ELSE Caps(100, 100, 100, 100)
    IN caps[severity]

Least(a, b) == IF a < b THEN a ELSE b

(* Mutant: some known reference is enough.                                 *)
GroundedInPart(h, parts) == ToSet(h.refs) \cap parts # {}

FullyGrounded(h, parts) == ToSet(h.refs) # {} /\ ToSet(h.refs) \subseteq parts

(* A hypothesis keeps those of its references that are known.              *)
Calibrated(h, parts) ==
    LET known == ToSet(h.refs) \cap parts
    IN [title |-> h.title, severity |-> h.severity, cited |-> ToSet(h.refs), refs |-> known,
        confidence |-> Least(h.confidence,
                             IF FullyGrounded(h, parts) THEN Cap(h.severity, known) ELSE 25)]

Same(g, h) == g.title = h.title /\ g.severity = h.severity

MaxHypotheses == 4
MaxRefs == 8

Valid(answer) ==
    /\ ~answer.malformed
    /\ Len(answer.hypotheses) <= MaxHypotheses
    /\ \A i \in DOMAIN answer.hypotheses : Len(answer.hypotheses[i].refs) <= MaxRefs

(* Of hypotheses that say the same the first one is kept.                  *)
Kept(answer, parts) ==
    LET hs == answer.hypotheses
    IN {Calibrated(hs[i], parts) :
            i \in {i \in DOMAIN hs : \A j \in 1 .. i - 1 : ~Same(hs[j], hs[i])}}

-----------------------------------------------------------------------------

NoContext == [provider |-> "none"]

Idle == [stage |-> "none", approved |-> NoContext, provider |-> "none", prompt |-> 0,
         sent |-> NoContext, round |-> 1, try |-> 1, kept |-> {}]

(* A call that is over keeps nothing.                                      *)
Over(stage) == [Idle EXCEPT !.stage = stage]

AnalysisInit ==
    /\ settings = [enabled |-> TRUE, provider |-> CHOOSE p \in Providers : TRUE, prompt |-> 1]
    /\ \E b \in Captures :
          exchange = [request |-> b[1], response |-> b[2], tags |-> 0, kept |-> TRUE]
    /\ edits = 0
    /\ call = [c \in Calls |-> Idle]
    /\ billed = [c \in Calls |-> <<0, 0>>]
    /\ run = [c \in Calls |-> "none"] /\ cache = NoCall
    /\ hypothesis = [c \in Calls |-> "none"] /\ usage = 0

(* The user and the rule worker *)

Edit(s, x) ==
    /\ edits < MaxEdits /\ edits' = edits + 1
    /\ settings' = s /\ exchange' = x
    /\ UNCHANGED <<call, billed>>

SwitchAi ==
    Edit([settings EXCEPT !.enabled = ~@], exchange) /\ UNCHANGED stored

SelectProvider ==
    \E p \in Providers \ {settings.provider} :
        Edit([settings EXCEPT !.provider = p], exchange) /\ UNCHANGED stored

(* A prompt is never changed: saving, copying or going back to one makes   *)
(* a new version and selects it.                                           *)
SavePrompt ==
    Edit([settings EXCEPT !.prompt = edits + 2], exchange) /\ UNCHANGED stored

ResetPrompt ==
    settings.prompt # 1 /\ Edit([settings EXCEPT !.prompt = 1], exchange) /\ UNCHANGED stored

StoreTags ==
    /\ exchange.kept
    /\ Edit(settings, [exchange EXCEPT !.tags = @ + 1]) /\ UNCHANGED stored

(* The cache goes with the exchange, runs and findings stay.               *)
ClearExchange ==
    /\ exchange.kept
    /\ Edit(settings, [exchange EXCEPT !.kept = FALSE])
    /\ cache' = NoCall /\ UNCHANGED <<run, hypothesis, usage>>

(* Notes, a severity, evidence or a place in the test plan.                *)
Touch(c) ==
    /\ hypothesis[c] = "open"
    /\ hypothesis' = [hypothesis EXCEPT ![c] = "touched"]
    /\ UNCHANGED <<inputs, call, billed, run, cache, usage>>

(* The preview runs on the thread of the commands that write the settings. *)
Preview(c) ==
    /\ call[c].stage = "none" /\ exchange.kept /\ settings.enabled
    /\ \E policy \in Policies :
          /\ Bodies(policy) # TooLong
          /\ call' = [call EXCEPT ![c].stage = "previewed",
                         ![c].approved = Context(settings.provider, settings.prompt, policy)]
    /\ UNCHANGED <<inputs, billed, stored>>

-----------------------------------------------------------------------------
(* analyze_traffic, up to the request *)

Move(c, from, to) == call[c].stage = from /\ to /\ UNCHANGED <<inputs, billed, stored>>

ReadEnabled(c) ==
    Move(c, "previewed",
         call' = IF settings.enabled THEN [call EXCEPT ![c].stage = "enabled"]
                 ELSE [call EXCEPT ![c] = Over("refused")])

(* Its key is read next; none or an unreadable one refuses the analysis.   *)
ReadProvider(c) ==
    Move(c, "enabled",
         \/ call' = [call EXCEPT ![c].stage = "provider", ![c].provider = settings.provider]
         \/ call' = [call EXCEPT ![c] = Over("refused")])

ReadPrompt(c) ==
    Move(c, "provider",
         call' = [call EXCEPT ![c].stage = "prompt", ![c].prompt = settings.prompt])

(* Mutant: the hash does not cover the version of the prompt.              *)
IsApprovedButPrompt(approved, read) ==
    [approved EXCEPT !.prompt = 0] = [read EXCEPT !.prompt = 0]

IsApproved(approved, read) == approved = read

ReadExchange(c) ==
    LET read == Context(call[c].provider, call[c].prompt, call[c].approved.policy)
        sent == exchange.kept /\ read.bodies # TooLong /\ IsApproved(call[c].approved, read)
    IN Move(c, "prompt",
            call' = IF sent THEN [call EXCEPT ![c].stage = "asking", ![c].sent = read]
                    ELSE [call EXCEPT ![c] = Over("refused")])

-----------------------------------------------------------------------------
(* The requests: two prompts, each tried twice at most *)

Bill(c) == billed' = [billed EXCEPT ![c][call[c].round] = @ + 1]

(* Without an answer to the first prompt there is nothing to record.       *)
GiveUp(c) ==
    call' = IF call[c].round = 1 THEN [call EXCEPT ![c] = Over("failed")]
            ELSE [call EXCEPT ![c].stage = "invalid"]

(* A request that timed out may have been charged for: it is not repeated. *)
Repeated(failure) == failure \in {"unreachable", "server_error"}

RequestFails(c, failure) ==
    /\ call[c].stage = "asking"
    /\ IF Repeated(failure) /\ call[c].try = 1
       THEN call' = [call EXCEPT ![c].try = 2]
       ELSE GiveUp(c)
    /\ IF failure = "timeout" THEN Bill(c) ELSE UNCHANGED billed
    /\ UNCHANGED <<inputs, stored>>

Answer(c) ==
    /\ call[c].stage = "asking" /\ Bill(c)
    /\ \E answer \in Answers :
          call' = CASE Valid(answer) ->
                           [call EXCEPT ![c].stage = "valid",
                                        ![c].kept = Kept(answer, Parts(call[c].sent.bodies))]
                    [] ~Valid(answer) /\ call[c].round = 1 ->
                           [call EXCEPT ![c].round = 2, ![c].try = 1]
                    [] OTHER -> [call EXCEPT ![c].stage = "invalid"]
    /\ UNCHANGED <<inputs, stored>>

-----------------------------------------------------------------------------
(* The transaction *)

(* Mutant: an answer without hypotheses leaves the earlier ones.           *)
ReplacedByNew(c) == {d \in Calls : hypothesis[d] = "open" /\ call[c].kept # {}}

Replaced(c) == {d \in Calls : hypothesis[d] = "open"}

Save(c) ==
    /\ call[c].stage \in {"valid", "invalid"} /\ exchange.kept
    /\ run' = [run EXCEPT ![c] = call[c].stage]
    /\ usage' = usage + 1
    /\ IF call[c].stage = "valid"
       THEN /\ cache' = c
            /\ hypothesis' = [d \in Calls |-> IF d = c THEN IF call[c].kept = {} THEN "none" ELSE "open"
                                              ELSE IF d \in Replaced(c) THEN "none"
                                              ELSE hypothesis[d]]
       ELSE UNCHANGED <<cache, hypothesis>>
    /\ call' = [call EXCEPT ![c] = Over("saved")]
    /\ UNCHANGED <<inputs, billed>>

(* A run must name an exchange that is there: without it nothing is kept.  *)
SaveFails(c) ==
    /\ call[c].stage \in {"valid", "invalid"} /\ ~exchange.kept
    /\ call' = [call EXCEPT ![c] = Over("lost")]
    /\ UNCHANGED <<inputs, billed, stored>>

AnalysisNext ==
    \/ SwitchAi \/ SelectProvider \/ SavePrompt \/ ResetPrompt \/ StoreTags \/ ClearExchange
    \/ \E c \in Calls :
          \/ Touch(c) \/ Preview(c) \/ ReadEnabled(c) \/ ReadProvider(c) \/ ReadPrompt(c)
          \/ ReadExchange(c) \/ Answer(c) \/ Save(c) \/ SaveFails(c)
          \/ \E failure \in {"unreachable", "server_error", "timeout", "refused"} :
                RequestFails(c, failure)

AnalysisSpec == AnalysisInit /\ [][AnalysisNext]_analysisVars

-----------------------------------------------------------------------------
(* Properties *)

(* The provider is sent what the user approved, from the provider to the   *)
(* version of the prompt, though each setting is read on its own while     *)
(* others change it; and neither of the two prompts is put again once it   *)
(* was answered or timed out, when it may have been charged for.           *)
OutgoingIsApproved ==
    \A c \in Calls :
        /\ call[c].sent # NoContext => call[c].sent = call[c].approved
        /\ \A i \in 1 .. 2 : billed[c][i] <= 1

(* A hypothesis cites only what was sent with its own request, also after  *)
(* a body was cut or left out to make the prompt fit; with an unknown      *)
(* reference or none it stays in the lowest band, and without a body among *)
(* its references one above low never passes 70.                           *)
HypothesesAreGrounded ==
    \A c \in Calls : \A h \in call[c].kept :
        /\ h.refs \subseteq Parts(call[c].sent.bodies)
        /\ h.cited = {} \/ h.cited # h.refs => h.confidence <= 25
        /\ h.refs \cap {"request.body", "response.body"} = {}
           /\ h.severity \in {"critical", "high", "medium"} => h.confidence <= 70
        /\ call[c].sent.bodies[1] + call[c].sent.bodies[2] + Fixed <= call[c].sent.policy.total

(* However analyses overlap, hypotheses nobody touched are those of the    *)
(* answer get_analysis shows, the shown answer and every hypothesis have a *)
(* valid run, and runs and usage tell every answer that could be kept.     *)
AnalysisAgrees ==
    /\ \A c \in Calls :
          /\ hypothesis[c] = "open" => cache = c \/ ~exchange.kept
          /\ hypothesis[c] # "none" => run[c] = "valid"
          /\ call[c].stage = "saved" <=> run[c] # "none"
    /\ cache # NoCall => run[cache] = "valid"
    /\ usage = Cardinality({c \in Calls : run[c] # "none"})
=============================================================================
