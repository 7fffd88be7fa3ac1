------------------------------ MODULE Verifier ------------------------------
(***************************************************************************)
(* The safe tools of an assessment and what their verifiers conclude:      *)
(* assessment/catalog.rs, the request table of assessment/templates.rs and *)
(* assessment/verifier.rs.                                                 *)
(*                                                                         *)
(* A response is what the verifiers tell apart: who asked for which url,   *)
(* the class of the status, the body (hash, size and content type in one), *)
(* whether it is complete, and its sign: `fact` or `hint` if it shows what *)
(* the tool looks for (a reflected origin with credentials, an external    *)
(* Location, the marker, TRACE in Allow, a missing header), else `none`.   *)
(***************************************************************************)
EXTENDS Naturals, Sequences

Tools == {"security_headers_cookie", "credentialed_cors", "jwt_integrity", "open_redirect",
          "lazy_reflection", "readonly_idor", "options_capabilities",
          "anonymous_authenticated_diff"}

(* allowed_identity_modes.                                                 *)
Modes(tool) ==
    CASE tool = "readonly_idor" -> {"a_vs_b"}
      [] tool \in {"credentialed_cors", "jwt_integrity", "anonymous_authenticated_diff"} -> {"a", "b"}
      [] OTHER -> {"anonymous", "a", "b"}

(* The identities a mode needs.                                            *)
Needs(mode) == CASE mode = "a_vs_b" -> {"a", "b"} [] mode = "anonymous" -> {} [] OTHER -> {mode}

(* Two tools do not ask for the url of the endpoint: one of its query      *)
(* values is replaced, by an address of another host or by a marker.       *)
Rewriting == {"open_redirect", "lazy_reflection"}

ProbeValue(tool) == IF tool = "open_redirect" THEN "https://rf-probe.invalid/rf" ELSE "RF"

(* replace_query_value, of a url as module Scope reads it.                 *)
ReplaceQueryValue(url, param, value) ==
    [url EXCEPT !.query =
        {IF q.name = param THEN [name |-> param, word |-> value, depth |-> 0] ELSE q :
            q \in url.query}]

Step(role, who) == [role |-> role, who |-> who]

(* The responses execute_check collects, in order.  A forged token is      *)
(* sent in the place of the identity's own.                                *)
Steps(tool, mode) ==
    CASE tool = "security_headers_cookie" -> <<Step("baseline", "anonymous")>>
      [] tool = "credentialed_cors" ->
            <<Step("baseline", mode), Step("anonymous", "anonymous"), Step("probe", mode)>>
      [] tool = "jwt_integrity" ->
            <<Step("baseline", mode), Step("anonymous", "anonymous"),
              Step("signature_probe", "forged"), Step("alg_none_probe", "forged")>>
      [] tool \in {"open_redirect", "lazy_reflection"} -> <<Step("probe", mode)>>
      [] tool = "readonly_idor" -> <<Step("identity_a", "a"), Step("identity_b", "b")>>
      [] tool = "options_capabilities" -> <<Step("preflight", mode)>>
      [] tool = "anonymous_authenticated_diff" ->
            <<Step("anonymous", "anonymous"), Step("baseline", mode)>>

(* The first of them is the response of the discovery, if there is one.    *)
Reuses(tool, mode) ==
    \/ tool \in {"security_headers_cookie", "anonymous_authenticated_diff"}
    \/ tool = "credentialed_cors" /\ mode = "a"

(* request_cost.                                                           *)
RequestCost(tool) ==
    CASE tool = "security_headers_cookie" -> 0
      [] tool = "jwt_integrity" -> 4
      [] tool \in {"credentialed_cors", "readonly_idor", "anonymous_authenticated_diff"} -> 2
      [] OTHER -> 1

(* Mutant: the catalog's price is taken for every endpoint.                *)
CatalogCost(tool, mode, endpoint) == RequestCost(tool)

(* effective_request_cost.                                                 *)
EffectiveCost(tool, mode, endpoint) ==
    CASE tool = "credentialed_cors" ->
            IF mode = "a" /\ endpoint.replayed /\ endpoint.auth THEN 2 ELSE 3
      [] tool = "anonymous_authenticated_diff" -> IF endpoint.replayed THEN 1 ELSE 2
      [] OTHER -> RequestCost(tool)

-----------------------------------------------------------------------------
(* verify: R maps the roles that were filled to their responses *)

Equivalent(r, s) == r.body = s.body

Success(r) == r.status = "success"

Nonempty(r) == r.body # "empty"

Collected(tool, mode, R) ==
    \A i \in 1..Len(Steps(tool, mode)) : Steps(tool, mode)[i].role \in DOMAIN R

(* The response of the discovery states a configuration fact, or a hint    *)
(* that only the operator can weigh.                                       *)
SecurityHeaders(R) ==
    CASE R["baseline"].sign = "fact" -> "confirmed"
      [] R["baseline"].sign = "hint" -> "suspected"
      [] OTHER -> "not_observed"

(* Who needs no identity to read the same has nothing to protect from a    *)
(* foreign origin.                                                         *)
Protected(R) ==
    ~(/\ Success(R["baseline"]) /\ Success(R["anonymous"])
      /\ Equivalent(R["anonymous"], R["baseline"]))

Cors(R) ==
    IF /\ Protected(R)
       /\ Success(R["baseline"]) /\ Success(R["probe"])
       /\ R["probe"].sign = "fact"
    THEN "confirmed" ELSE "not_observed"

(* A forged token is answered like the real one, where none is denied.     *)
Jwt(R) ==
    IF /\ R["anonymous"].status = "denied"
       /\ Success(R["baseline"]) /\ Nonempty(R["baseline"])
       /\ \E p \in {"signature_probe", "alg_none_probe"} :
             R[p].status = R["baseline"].status /\ Equivalent(R[p], R["baseline"])
    THEN "confirmed" ELSE "not_observed"

OpenRedirect(R) ==
    IF R["probe"].status = "redirect" /\ R["probe"].sign = "fact"
    THEN "confirmed" ELSE "not_observed"

(* No script ran: a reflected marker is never more than a suspicion.       *)
Reflection(R) == IF R["probe"].sign = "fact" THEN "suspected" ELSE "not_observed"

(* Only an operator's declaration says that b may not read it.             *)
Idor(endpoint, R) ==
    IF ~(/\ Success(R["identity_a"]) /\ R["identity_b"].status = R["identity_a"].status
         /\ Nonempty(R["identity_a"]) /\ Equivalent(R["identity_a"], R["identity_b"]))
    THEN "not_observed"
    ELSE IF endpoint.owned THEN "confirmed" ELSE "suspected"

OptionsCapabilities(R) == IF R["preflight"].sign = "fact" THEN "suspected" ELSE "not_observed"

IdentityVisibility(endpoint, R) ==
    IF Success(R["anonymous"]) /\ Success(R["baseline"]) /\ endpoint.auth
    THEN "suspected" ELSE "not_observed"

Concluded(tool, endpoint, R) ==
    CASE tool = "security_headers_cookie" -> SecurityHeaders(R)
      [] tool = "credentialed_cors" -> Cors(R)
      [] tool = "jwt_integrity" -> Jwt(R)
      [] tool = "open_redirect" -> OpenRedirect(R)
      [] tool = "lazy_reflection" -> Reflection(R)
      [] tool = "readonly_idor" -> Idor(endpoint, R)
      [] tool = "options_capabilities" -> OptionsCapabilities(R)
      [] tool = "anonymous_authenticated_diff" -> IdentityVisibility(endpoint, R)

(* Mutant: a response that was cut off counts.                             *)
VerifyCut(tool, mode, endpoint, R) ==
    IF ~Collected(tool, mode, R) THEN "inconclusive" ELSE Concluded(tool, endpoint, R)

Verify(tool, mode, endpoint, R) ==
    IF ~Collected(tool, mode, R) \/ \E r \in DOMAIN R : ~R[r].complete
    THEN "inconclusive" ELSE Concluded(tool, endpoint, R)
=============================================================================
