------------------------------- MODULE Scope -------------------------------
(***************************************************************************)
(* Which url may be requested: the host patterns of a project              *)
(* (authorization/scope.rs) and the rules of an assessment for the exact   *)
(* origin, the path and the query (assessment/policy.rs).                  *)
(*                                                                         *)
(* A parsed url is [scheme, host, port, path, query].  A host is           *)
(* [ip |-> BOOLEAN, labels |-> sequence], canonical: lower case, without a *)
(* trailing dot.  A path is a sequence of segments [word, depth]: the word *)
(* the segment reads as after `depth` rounds of percent-decoding.  A query *)
(* is a set of pairs [name, word, depth], the value as query_pairs leaves  *)
(* it.  Separators hidden in a segment (an encoded slash, a semicolon) are *)
(* abstracted: the path is given as it is split.                           *)
(***************************************************************************)
EXTENDS Naturals, Sequences

(* percent_decode_repeatedly stops after three rounds.                     *)
DecodeRounds == 3

Destructive == {"logout", "signout", "delete", "remove", "destroy", "reset", "revoke",
                "terminate", "shutdown", "purge", "wipe", "drop", "disable"}

(* What a comparison sees: the word, or text that is still encoded.        *)
Decoded(s) == IF s.depth <= DecodeRounds THEN s.word ELSE "%"

-----------------------------------------------------------------------------
(* Host patterns: [wild, host] *)

EndsWith(labels, suffix) ==
    /\ Len(suffix) <= Len(labels)
    /\ \A i \in 1..Len(suffix) : labels[Len(labels) - Len(suffix) + i] = suffix[i]

(* A wildcard stands for its suffix and every name below it; an address    *)
(* cannot have one.                                                        *)
ValidPattern(p) == p.wild => ~p.host.ip

MatchesHost(p, host) ==
    IF p.wild THEN ~host.ip /\ EndsWith(host.labels, p.host.labels)
              ELSE host = p.host

(* ScopePolicy::authorize_url.  An empty scope authorizes nothing.         *)
ScopeAllows(patterns, url) ==
    /\ url.scheme \in {"http", "https"}
    /\ \E p \in patterns : MatchesHost(p, url.host)

-----------------------------------------------------------------------------
(* AssessmentPolicy::authorize for a GET or OPTIONS without a body *)

OriginOf(url) == [scheme |-> url.scheme, host |-> url.host, port |-> url.port]

PathReads(url) == [i \in DOMAIN url.path |-> Decoded(url.path[i])]

(* path_matches_prefix, path_matches_claim: whole segments; "/" is <<>>.   *)
Below(words, prefix) ==
    /\ Len(prefix) <= Len(words)
    /\ \A i \in 1..Len(prefix) : words[i] = prefix[i]

PolicyAllows(origin, excluded, url) ==
    /\ OriginOf(url) = origin
    /\ \A i \in DOMAIN url.path : Decoded(url.path[i]) \notin Destructive
    /\ ~\E e \in excluded : Below(PathReads(url), e)
    /\ ~\E q \in url.query :
            \/ q.name = "_method"
            \/ q.name \in {"action", "do"} /\ Decoded(q) \in Destructive

(* path_matches_claim looks at the path as it is written.                  *)
Claimed(claims, url) ==
    \E c \in claims :
        Below([i \in DOMAIN url.path |-> IF url.path[i].depth = 0 THEN url.path[i].word ELSE "%"], c)

-----------------------------------------------------------------------------
(* normalize_path_shape and the key of persist_endpoint *)

(* ids: the segments that are eight digits, a uuid or sixteen hex digits.  *)
ShapeOf(method, url, ids) ==
    [method |-> method,
     path   |-> [i \in DOMAIN url.path |->
                    IF url.path[i].depth = 0 /\ url.path[i].word \in ids
                    THEN [word |-> "{id}", depth |-> 0] ELSE url.path[i]],
     query  |-> {q.name : q \in url.query}]
=============================================================================
