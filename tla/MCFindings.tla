----------------------------- MODULE MCFindings -----------------------------
(* Instances of Findings, and of Analysis and Rules, which propose them,   *)
(* for TLC.  The three share no state: a behaviour is one of the part      *)
(* chosen in its first state, and the others stay in a state of their own. *)
EXTENDS Findings, Analysis, Rules, TLC

CONSTANTS f1, f2, e1, e2, k1, k2, c1, c2

VARIABLE part

Symmetry ==
    Permutations(FindingIds) \cup Permutations(EvidenceIds) \cup Permutations(Checks)

-----------------------------------------------------------------------------
(* Analysis *)

Policy(total, binary) ==
    [truncated |-> FALSE, undecoded |-> FALSE, binary |-> binary, limit |-> 8, total |-> total]

(* Everything fits; no request and the response is cut; nothing fits.      *)
SomePolicies == {Policy(30, TRUE), Policy(17, FALSE), Policy(10, TRUE)}

Text(n) == [truncated |-> FALSE, undecoded |-> FALSE, binary |-> FALSE, size |-> n]

SomeCaptures == {<<[Text(3) EXCEPT !.binary = TRUE], Text(9)>>}

H(title, severity, confidence, refs) ==
    [title |-> title, severity |-> severity, confidence |-> confidence, refs |-> refs]

SomeAnswers ==
    {[malformed |-> m, hypotheses |-> hs] : m \in BOOLEAN, hs \in
        {<<>>,
         <<H("x", "critical", 95, <<"request.url", "response.headers">>)>>,
         <<H("x", "high", 95, <<"response.body", "response.headers">>),
           H("x", "high", 10, <<"request.url">>)>>,
         <<H("y", "low", 95, <<"request.body", "unknown">>)>>}}

-----------------------------------------------------------------------------
(* Rules: conditions of a depth of up to four *)

Nothing == [target |-> "none", name |-> "any", extractor |-> "text", attribute |-> "none"]
On(target, extractor) == [Nothing EXCEPT !.target = target, !.extractor = extractor]

Leaf(op, on, value) == [op |-> op, on |-> on, value |-> value, of |-> <<>>, name |-> "any"]
Node(op, of) == [op |-> op, on |-> Nothing, value |-> "none", of |-> of, name |-> "any"]

Secure == [On("response_cookie", "attribute") EXCEPT !.attribute = "secure"]
Query == [On("query", "text") EXCEPT !.name = "m"]
Succeeds == Leaf("equals", On("status", "text"), "200")

SomeLeaves ==
    {Leaf(op, On("response_body", "text"), "a") : op \in {"equals", "contains", "missing"}}
    \cup {Leaf(op, On("response_body", "json"), "a") : op \in {"equals", "exists", "missing"}}
    \cup {Leaf("regex", On("request_body", "text"), "a"), Leaf("missing", Secure, "none"), Succeeds,
          Leaf("exists", Query, "none")}

Both(S) == {Node(op, <<x, y>>) : op \in {"all", "any"}, x \in S, y \in S}
Each(S) == {[Node("for_each", x) EXCEPT !.on = Secure] : x \in S}
Negated(S) == {Node("not", x) : x \in S}

SomeConditions ==
    LET two == SomeLeaves \cup Negated(SomeLeaves)
    IN <<SomeLeaves \cup {Node("all", <<>>)},
         Negated(SomeLeaves) \cup Each(SomeLeaves)
            \cup {[Node("for_each", Succeeds) EXCEPT !.on = Query]},
         Both(two) \cup Each(Negated(SomeLeaves)) \cup Negated(Each(SomeLeaves)),
         Negated(Both(two))>>

Repeating == <<[name |-> "n", value |-> "1"], [name |-> "m", value |-> "2"],
               [name |-> "n", value |-> "3"], [name |-> "m", value |-> "2"]>>

Body(text, cut) == [text |-> text, cut |-> cut, json |-> "a", decoded |-> TRUE]

SomeExchanges ==
    {[status |-> "200", query |-> q,
      cookies |-> [request_cookie |-> <<>>, response_cookie |-> cs],
      bodies |-> [request_body |-> Body(<<"b">>, q = <<>>), response_body |-> Body(b, cut)]] :
        cs \in {<<>>, <<[name |-> "s", attributes |-> {"secure"}],
                        [name |-> "t", attributes |-> {}]>>},
        q \in {<<>>, Repeating}, b \in {<<"a">>, <<"b">>}, cut \in BOOLEAN}

SomeRests == {<<>>, <<"a">>, <<"b">>}

NoExample ==
    [rule |-> [condition |-> Succeeds, confidence |-> 90],
     exchange |-> CHOOSE v \in SomeExchanges : TRUE]

-----------------------------------------------------------------------------

(* Analyses are alike: that of c1 is the one that is previewed first.      *)
InOrder == call[c2].stage # "none" => call[c1].stage # "none"

SourcesInit ==
    /\ part \in {"findings", "analysis", "rules"}
    /\ Init
    /\ AnalysisInit
    /\ IF part = "rules" THEN RulesInit ELSE example = NoExample

SourcesNext ==
    /\ UNCHANGED <<part, example>>
    /\ \/ part = "findings" /\ Next /\ UNCHANGED analysisVars
       \/ part = "analysis" /\ AnalysisNext /\ InOrder' /\ UNCHANGED vars

SourcesSpec == SourcesInit /\ [][SourcesNext]_<<part, vars, analysisVars, example>>
=============================================================================
