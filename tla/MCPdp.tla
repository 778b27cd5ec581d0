------------------------------- MODULE MCPdp -------------------------------
(***************************************************************************)
(* One handler over two valid contents that decide the query differently,  *)
(* under different internal ids, and one that parses but has an annotation *)
(* the PDP refuses.  One of the valid ones is so under either schema.      *)
(***************************************************************************)
EXTENDS Pdp, TLC

CONSTANTS h1, q1, text1, opened, closed, refused, schema1, schema2

MCHandlers == {h1}
MCLowestPriority == 2
\* The context of a policy without annotations of its own.
NoKeys == [k \in {} |-> k]
MCContents == {opened, closed, refused}
MCSchemas == {schema1, schema2}
MCValidUnder ==
    [s \in MCSchemas |-> IF s = schema1 THEN {opened, closed} ELSE {closed}]

Policy(effect, name, context) ==
    [effect |-> effect, name |-> name, priority |-> {}, context |-> context,
     holds |-> {q1}, fails |-> {}]

PermitAll == Policy("permit", {10}, NoKeys)

MCPolicySetOf ==
    [c \in MCContents |->
        CASE c = opened  -> [id \in {1} |-> PermitAll]
          [] c = closed  -> [id \in 1..2 |-> IF id = 1
                                THEN Policy("forbid", {20}, "step_up" :> text1)
                                ELSE PermitAll]
          [] c = refused -> [id \in {1} |-> Policy("permit", {10}, "errors" :> text1)]]

MCRequests ==
    {[body |-> b, types |-> "ok", action |-> "ok", context |-> "absent",
      props |-> "ok", resource |-> "empty", query |-> q1] : b \in {"ok", "malformed"}}
=============================================================================
