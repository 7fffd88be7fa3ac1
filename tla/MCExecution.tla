---------------------------- MODULE MCExecution ----------------------------
(* Instances of Execution for TLC: one site with a home page, two items of *)
(* one shape, of which the first is claimed, an excluded page, and a page  *)
(* with a parameter, as it was captured and as the two tools that replace  *)
(* its value ask for it.                                                   *)
EXTENDS Execution, TLC

CONSTANTS home, item, item2, admin, jump, jumpOut, jumpMark

Site == [ip |-> FALSE, labels |-> <<"shop", "test">>]

SiteOrigin == [scheme |-> "https", host |-> Site, port |-> 443]

Page(path) == [scheme |-> "https", host |-> Site, port |-> 443, path |-> path, query |-> {}]

Plain(word) == [word |-> word, depth |-> 0]

Jump(value) ==
    [Page(<<Plain("jump")>>) EXCEPT !.query = {[name |-> "next", word |-> value, depth |-> 0]}]

SomeAddress ==
    home :> Page(<<>>)
    @@ item :> Page(<<Plain("items"), Plain("10000001")>>)
    @@ item2 :> Page(<<Plain("items"), Plain("10000002")>>)
    @@ admin :> Page(<<[word |-> "admin", depth |-> 2]>>)
    @@ jump :> Jump("home")
    @@ jumpOut :> Jump(ProbeValue("open_redirect"))
    @@ jumpMark :> Jump(ProbeValue("lazy_reflection"))

OneScope == {[wild |-> TRUE, host |-> [ip |-> FALSE, labels |-> <<"test">>]]}

OtherScope == {[wild |-> FALSE, host |-> [ip |-> TRUE, labels |-> <<"10.0.0.1">>]]}

TwoScopes == {OneScope, OtherScope}

NoAdmin == {<<"admin">>}

SomeClaims == {<<"items", "10000001">>}

SomeLinks == home :> <<admin, item>> @@ item :> <<home>> @@ item2 :> <<>> @@ admin :> <<>>

Exchange(method, u, body) == [method |-> method, url |-> u, body |-> body]

SomeTraffic ==
    <<Exchange("POST", item, TRUE), Exchange("GET", item2, FALSE),
      Exchange("GET", jump, FALSE)>>

(* One shares its shape with the recent one, two are of no use.            *)
SomeResources ==
    <<Exchange("POST", home, TRUE), Exchange("GET", item, TRUE), Exchange("GET", admin, FALSE),
      Exchange("HEAD", home, FALSE)>>

Reply(class, body, sign, links, size) ==
    [status |-> class, body |-> body, sign |-> sign, links |-> links, size |-> size,
     complete |-> TRUE]

SomeAnswers ==
    {Reply("success", "x", "none", TRUE, 1),
     Reply("success", "y", "fact", FALSE, 1),
     Reply("redirect", "empty", "fact", FALSE, 0),
     Reply("denied", "empty", "none", FALSE, 0),
     Reply("limited", "empty", "none", FALSE, 0),
     Reply("error", "empty", "none", FALSE, 1),
     Reply("success", "x", "none", FALSE, 3)}

HomeShape == ShapeOf("GET", SomeAddress[home], {})

ItemShape == ShapeOf("GET", SomeAddress[item], {"10000001", "10000002"})

JumpShape == ShapeOf("GET", SomeAddress[jump], {})

Plan(tool, shape, mode) == [tool |-> tool, shape |-> shape, mode |-> mode, param |-> "none"]

JumpPlan == [Plan("open_redirect", JumpShape, "anonymous") EXCEPT !.param = "next"]

SomeBatches ==
    {<<>>,
     <<Plan("security_headers_cookie", HomeShape, "anonymous"),
       Plan("credentialed_cors", HomeShape, "a"), Plan("readonly_idor", ItemShape, "a_vs_b")>>,
     <<Plan("credentialed_cors", HomeShape, "b"), Plan("jwt_integrity", ItemShape, "a"),
       Plan("anonymous_authenticated_diff", HomeShape, "b"), JumpPlan>>}
=============================================================================
