-------------------------- MODULE MCResponseContext --------------------------
(***************************************************************************)
(* All sets of two policies over a small choice of every annotation, and   *)
(* all sets of three permits that differ in what the selection looks at.   *)
(* Internal ids are ranks 1, 2, 3; an @id ranks before, between or after.  *)
(***************************************************************************)
EXTENDS ResponseContext, TLC

CONSTANTS q, text1, text2

MCQueries == {q}
MCLowestPriority == 2
\* The context of a policy without annotations of its own.
NoKeys == [k \in {} |-> k]

Contexts == {
    NoKeys,
    "step_up" :> text1,
    "errors" :> text1 @@ "hint" :> text2,
    EmptyKey :> text1 }

Outcomes == {<<{q}, {}>>, <<{}, {}>>, <<{q}, {q}>>}

Policy(effect, name, priority, context0, outcome) ==
    [effect |-> effect, name |-> name, priority |-> priority,
     context |-> context0, holds |-> outcome[1], fails |-> outcome[2]]

AnyPolicy ==
    {Policy(e, n, p, c, o) : e \in {"permit", "forbid"}, n \in {{}, {1}, {3}},
                             p \in {{}, {1}, {2}, {-1}},
                             c \in Contexts, o \in Outcomes}

Permits ==
    {Policy("permit", n, p, c, <<{q}, {}>>) :
        n \in {{}, {0}, {5}}, p \in {{}, {0}, {1}},
        c \in {NoKeys, "step_up" :> text1, "step_up" :> text2}}

MCPolicySets == [{1, 2} -> AnyPolicy] \cup [{1, 2, 3} -> Permits]
=============================================================================
