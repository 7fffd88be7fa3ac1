------------------------------- MODULE Rules --------------------------------
(***************************************************************************)
(* The passive rules (rules/engine.rs, rules/loader.rs, rules/schema.rs):  *)
(* what a condition says about one captured exchange.                      *)
(*                                                                         *)
(* A condition reads values out of an exchange and is a tree of            *)
(* comparisons, "missing" and negations among them.  The body of a request *)
(* or a response may be cut off where the capture ended; then a hit that   *)
(* could rest on the cut is marked and loses its confidence.  Text is a    *)
(* sequence of tokens; numbers are compared as whole values like "equals". *)
(* What recurses over conditions is a function on the set of all of them,  *)
(* and an exchange holds both cookie jars and both bodies.                 *)
(***************************************************************************)
EXTENDS Integers, FiniteSets, SequencesExt

CONSTANTS Conditions,   \* by depth: conditions that are nested so deep
          Confidences,  \* the confidences rules are given
          Exchanges,    \* captured exchanges
          Rests,        \* how the text of a cut body may go on
          Jsons         \* what a whole body may parse to, "none" if to nothing

Jars == {"request_cookie", "response_cookie"}
BodyTargets == {"request_body", "response_body"}
Leaves == {"equals", "contains", "regex", "exists", "missing"}

Children(c) == IF c.op \in {"not", "for_each"} THEN {c.of} ELSE ToSet(c.of)

AllConditions == UNION {Conditions[n] : n \in DOMAIN Conditions}

ASSUME ConditionsAssumption ==
    /\ DOMAIN Conditions = 1 .. Len(Conditions) /\ Len(Conditions) \in Nat
    /\ \A n \in DOMAIN Conditions : \A c \in Conditions[n] :
          /\ c.op \in Leaves \cup {"all", "any", "not", "for_each"}
          /\ c.op \in Leaves => c.of = <<>>
                                /\ c.on.target \in Jars \cup BodyTargets \cup {"query", "status"}
          /\ c.op \in {"all", "any"} => c.of \in Seq(Children(c))
          /\ Children(c) \subseteq UNION {Conditions[m] : m \in 1 .. n - 1}

ASSUME ConfidencesAssumption == Confidences \subseteq Int

ASSUME ExchangesAssumption ==
    \A v \in Exchanges :
        /\ v \in [status : {v.status}, cookies : {v.cookies}, query : {v.query},
                  bodies : [BodyTargets -> {v.bodies[t] : t \in BodyTargets}]]
        /\ \A t \in BodyTargets : v.bodies[t].cut \in BOOLEAN
        /\ v.query \in Seq(ToSet(v.query))
        /\ \A t \in Jars : v.cookies[t] \in Seq(ToSet(v.cookies[t]))

MaxDepth == 16
MaxCutConfidence == 40

VARIABLE example    \* a rule and an exchange

-----------------------------------------------------------------------------
(* The loader *)

SelectorCompiles(s) ==
    CASE s.extractor = "attribute" -> s.target = "response_cookie"
      [] s.extractor = "json" -> s.target \in BodyTargets
      [] OTHER -> TRUE

Depth[c \in AllConditions] ==
    IF c.op \in Leaves THEN 1 ELSE 1 + Max({0} \cup {Depth[d] : d \in Children(c)})

ConditionCompiles[c \in AllConditions] ==
    /\ c.op \in Leaves => SelectorCompiles(c.on)
    /\ c.op \in {"all", "any"} => c.of # <<>>
    /\ c.op = "for_each" => c.on.target \in Jars
    /\ \A d \in Children(c) : ConditionCompiles[d]

(* What the engine is given to evaluate.                                   *)
Loaded == {c \in AllConditions : ConditionCompiles[c]}

Compiles(rule) ==
    /\ rule.confidence \in 1 .. 100
    /\ Depth[rule.condition] <= MaxDepth
    /\ ConditionCompiles[rule.condition]

-----------------------------------------------------------------------------
(* Reading an exchange *)

Candidate(path, value, incomplete) == [path |-> path, value |-> value, incomplete |-> incomplete]

(* A repeated field is told apart by its place among those of its name.    *)
Occurrence(fields, i) == Cardinality({j \in 1 .. i - 1 : fields[j].name = fields[i].name})

Fields(fields) ==
    [i \in DOMAIN fields |->
        Candidate(<<"query", fields[i].name, Occurrence(fields, i)>>, <<fields[i].value>>, FALSE)]

FromQuery(s, query) == SelectSeq(Fields(query), LAMBDA c : s.name \in {"any", c.path[2]})

FromStatus(status) ==
    IF status = "none" THEN <<>> ELSE <<Candidate(<<"status">>, <<status>>, FALSE)>>

(* One cookie: its name, or an attribute it may lack.                      *)
FromCookie(s, cookie, i) ==
    LET named == s.name \in {"any", cookie.name}
        asked == s.extractor = "attribute"
    IN CASE named /\ asked /\ s.attribute \in cookie.attributes ->
               <<Candidate(<<s.target, i, s.attribute>>, <<s.attribute>>, FALSE)>>
         [] named /\ ~asked -> <<Candidate(<<s.target, i>>, <<cookie.name>>, FALSE)>>
         [] OTHER -> <<>>

(* The cookie a condition looks at: one within "for_each", else all.       *)
NoScope == <<"none", 0>>

CookieScopes(v) == {NoScope} \cup UNION {{<<t, i>> : i \in DOMAIN v.cookies[t]} : t \in Jars}

FromJar(s, jar, scope) ==
    IF scope[1] = s.target THEN FromCookie(s, jar[scope[2]], scope[2])
    ELSE FlattenSeq([i \in DOMAIN jar |-> FromCookie(s, jar[i], i)])

(* Text and JSON are what the captured bytes give.                         *)
FromBody(s, body) ==
    LET there == body.decoded /\ body.text # <<>>
        parsed == s.extractor = "json"
    IN CASE there /\ parsed /\ body.json # "none" ->
               <<Candidate(<<s.target, "json">>, <<body.json>>, body.cut)>>
         [] there /\ ~parsed -> <<Candidate(<<s.target>>, body.text, body.cut)>>
         [] OTHER -> <<>>

Candidates(s, v, scope) ==
    CASE s.target \in Jars -> FromJar(s, v.cookies[s.target], scope)
      [] s.target = "query" -> FromQuery(s, v.query)
      [] s.target = "status" -> FromStatus(v.status)
      [] s.target \in BodyTargets -> FromBody(s, v.bodies[s.target])

-----------------------------------------------------------------------------
(* Conditions *)

Holds(op, x, value) ==
    CASE op = "equals" -> value = <<x>>
      [] op = "contains" -> x \in ToSet(value)
      [] op = "regex" -> Last(value) = x        \* anchored at the end
      [] op = "exists" -> TRUE

NoMatch == [held |-> FALSE, path |-> <<>>, incomplete |-> FALSE]
Match(path, incomplete) == [held |-> TRUE, path |-> path, incomplete |-> incomplete]

(* The first selector of a condition; the loader lets none be without.     *)
NoSelector == [target |-> "none"]

Primary[c \in AllConditions] ==
    IF c.op \in Leaves THEN c.on
    ELSE IF Children(c) = {} THEN NoSelector
    ELSE IF c.op \in {"all", "any"} THEN Primary[c.of[1]] ELSE Primary[c.of]

(* Where a thing is missed: in the cookie at hand or at all.               *)
MissingPath(s, scope) == <<s.target, "missing", IF scope[1] = s.target THEN scope[2] ELSE 0>>

(* Mutant: what is not in a cut body is missing.                           *)
MissingMatchBold(s, v, scope) == Match(MissingPath(s, scope), FALSE)

(* What is not in a cut body may be in the rest of it.                     *)
MissingMatch(s, v, scope) ==
    Match(MissingPath(s, scope), s.target \in BodyTargets /\ v.bodies[s.target].cut)

(* The first candidate that compares as asked.                             *)
Compared(c, v, scope) ==
    LET ds == Candidates(c.on, v, scope)
        is == {i \in DOMAIN ds : Holds(c.op, c.value, ds[i].value)}
    IN IF is = {} THEN NoMatch ELSE Match(ds[Min(is)].path, ds[Min(is)].incomplete)

Cookies(c, v) ==
    {i \in DOMAIN v.cookies[c.on.target] : c.name \in {"any", v.cookies[c.on.target][i].name}}

(* What a condition says, given what its parts say.                        *)
Combined(c, v, scope, said) ==
    LET is == {i \in DOMAIN c.of : said[c.of[i]][scope].held}
        js == {j \in Cookies(c, v) : said[c.of][<<c.on.target, j>>].held}
    IN CASE c.op \in Leaves \ {"missing"} -> Compared(c, v, scope)
         [] c.op = "missing" ->
               IF Candidates(c.on, v, scope) = <<>> THEN MissingMatch(c.on, v, scope) ELSE NoMatch
         [] c.op = "all" ->
               IF is = {} \/ is # DOMAIN c.of THEN NoMatch
               ELSE Match(said[c.of[1]][scope].path,
                          \E i \in is : said[c.of[i]][scope].incomplete)
         [] c.op = "any" -> IF is = {} THEN NoMatch ELSE said[c.of[Min(is)]][scope]
         [] c.op = "not" ->
               IF said[c.of][scope].held THEN NoMatch ELSE MissingMatch(Primary[c.of], v, scope)
         [] c.op = "for_each" ->
               IF js = {} THEN NoMatch ELSE said[c.of][<<c.on.target, Min(js)>>]

Evaluate(v) ==
    LET said[c \in Loaded] == [scope \in CookieScopes(v) |-> Combined(c, v, scope, said)]
    IN said

(* At the top "for_each" tells every cookie it holds for.                  *)
Matches(c, v) ==
    LET said == Evaluate(v)
        all == IF c.op = "for_each" THEN {said[c.of][<<c.on.target, j>>] : j \in Cookies(c, v)}
               ELSE {said[c][NoScope]}
    IN {r \in all : r.held}

Confidence(rule, match) ==
    IF match.incomplete /\ rule.confidence > MaxCutConfidence THEN MaxCutConfidence
    ELSE rule.confidence

(* A pack that runs out of time keeps the hits of the rules before.        *)
Hits(rules, v, stopped) ==
    UNION {{[rule |-> i, path |-> m.path, confidence |-> Confidence(rules[i], m)] :
                m \in Matches(rules[i].condition, v)} : i \in 1 .. stopped - 1}

-----------------------------------------------------------------------------
(* Any rule on any exchange *)

RulesInit ==
    \E c \in AllConditions, v \in Exchanges, n \in Confidences :
        example = [rule |-> [condition |-> c, confidence |-> n], exchange |-> v]

RulesSpec == RulesInit /\ [][FALSE]_example

-----------------------------------------------------------------------------
(* Properties *)

Targets[c \in AllConditions] ==
    IF c.op \in Leaves THEN {c.on.target} ELSE UNION {Targets[d] : d \in Children(c)}

(* Every negation looks at one body first and at no other, or at none.     *)
Plain[c \in AllConditions] ==
    /\ c.op = "not" => Targets[c.of] \cap BodyTargets \subseteq {Primary[c.of].target}
    /\ \A d \in Children(c) : Plain[d]

(* What the exchange may have been, had its bodies been captured whole.    *)
Completions(body) ==
    IF body.cut
    THEN {[body EXCEPT !.cut = FALSE, !.text = @ \o r, !.json = j] : r \in Rests, j \in Jsons}
    ELSE {body}

Whole(v) ==
    {[v EXCEPT !.bodies = [request_body |-> q, response_body |-> p]] :
        q \in Completions(v.bodies["request_body"]), p \in Completions(v.bodies["response_body"])}

Without(fields, i) ==
    [j \in 1 .. Len(fields) - 1 |-> IF j < i THEN fields[j] ELSE fields[j + 1]]

Named(fields, n) == {c \in ToSet(Fields(fields)) : c.path[2] = n}

(* A rule whose hit keeps more than 40 of its confidence hits the whole    *)
(* exchange as well, however its cut bodies go on; and where a query       *)
(* parameter was found does not depend on parameters of other names.       *)
HitsOutliveTheCut ==
    LET rule == example.rule
        v == example.exchange
    IN /\ /\ Compiles(rule) /\ Plain[rule.condition]
          /\ \E hit \in Hits(<<rule>>, v, 2) : hit.confidence > MaxCutConfidence
          => \A w \in Whole(v) : Matches(rule.condition, w) # {}
       /\ \A i \in DOMAIN v.query :
             \A n \in {v.query[j].name : j \in DOMAIN v.query} \ {v.query[i].name} :
                Named(Without(v.query, i), n) = Named(v.query, n)
=============================================================================
