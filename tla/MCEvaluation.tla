---------------------------- MODULE MCEvaluation ----------------------------
(***************************************************************************)
(* Two handlers over policy sets in which the same internal id means other *)
(* policies: open permits everything; guarded forbids the query q1 by two  *)
(* policies, the more urgent of which explains why; short has one policy   *)
(* less; faulty has a policy whose evaluation fails; refused collides with *)
(* a reserved key and never goes live.                                     *)
(***************************************************************************)
EXTENDS Evaluation, TLC

CONSTANTS h1, h2, q1, q2, text1, text2

MCHandlers == {h1, h2}
OneHandler == {h1}
MCLowestPriority == 2
\* The context of a policy without annotations of its own.
NoKeys == [k \in {} |-> k]

Policy(effect, name, priority, ctx, holds, fails) ==
    [effect |-> effect, name |-> name, priority |-> priority,
     context |-> ctx, holds |-> holds, fails |-> fails]

AllowAll(name) == Policy("permit", name, {}, NoKeys, {q1, q2}, {})

open == [id \in {1} |-> AllowAll({10})]
guarded ==
    [id \in 1..3 |->
        CASE id = 1 -> Policy("forbid", {20}, {1}, "step_up" :> text1, {q1}, {})
          [] id = 2 -> Policy("forbid", {}, {}, "hint" :> text2, {q1}, {})
          [] id = 3 -> AllowAll({10})]
short == [id \in {1} |-> Policy("permit", {30}, {}, "hint" :> text1, {q2}, {})]
faulty ==
    [id \in 1..2 |->
        CASE id = 1 -> Policy("forbid", {20}, {}, NoKeys, {q1}, {q1})
          [] id = 2 -> AllowAll({10})]
refused == [id \in {1} |-> Policy("permit", {10}, {}, "errors" :> text1, {q1, q2}, {})]

MCPolicySets == {open, guarded, short, faulty, refused}

Request(body, types, action, ctx, props, resource, query) ==
    [body |-> body, types |-> types, action |-> action, context |-> ctx,
     props |-> props, resource |-> resource, query |-> query]

Clean(q) == Request("ok", "ok", "ok", "absent", "ok", "empty", q)

\* Two clean requests and one that is turned away.
FewRequests ==
    {Clean(q1), Clean(q2), Request("malformed", "ok", "ok", "absent", "ok", "empty", q1)}

Unusual ==
    [body |-> {"malformed"}, types |-> {"unknown", "malformed"},
     action |-> {"unknown"}, context |-> {"ok", "bad", "missing"}, props |-> {"bad"},
     resource |-> {"ok", "bad", "duplicate"}]

\* Every pair of things that may be out of the ordinary in a request (which of
\* two defects is reported depends on their order), and one other query.
PairwiseRequests ==
    {Clean(q1), Clean(q2)} \cup
    UNION {{[Clean(q1) EXCEPT ![a] = v, ![b] = w] : v \in Unusual[a], w \in Unusual[b]} :
             a, b \in DOMAIN Unusual}
=============================================================================
