------------------------------ MODULE Policies ------------------------------
(***************************************************************************)
(* What the PDP makes of a policy set: the checks of validate_source that  *)
(* are its own (policy.rs), the choice of the policy that supplies the     *)
(* response context and the context itself (convert.rs), and what Cedar    *)
(* decides (external).                                                     *)
(*                                                                         *)
(* A policy set maps the internal ids Cedar hands out ("policy0", ...) to  *)
(* policies.  Ids and @id names are strings of one order, so they are      *)
(* numbers here: their rank in that order.  A policy has                   *)
(*   effect   "permit" or "forbid"                                         *)
(*   name     its @id, as a set of at most one element                     *)
(*   priority its raw @priority, likewise; a number outside 0..u32::MAX    *)
(*            stands for every text that is no u32                         *)
(*   context  its @decision_context_<key> annotations: key -> value        *)
(*   holds    the queries its scope and conditions match                   *)
(*   fails    the queries whose evaluation raises an error                 *)
(***************************************************************************)
EXTENDS Integers, Sequences, FiniteSets

CONSTANTS LowestPriority   \* u32::MAX

ASSUME PriorityAssumption == LowestPriority \in Nat

AtMostOne(S) == \A x, y \in S : x = y

IsPolicySet(ps) ==
    /\ DOMAIN ps \subseteq Nat /\ IsFiniteSet(DOMAIN ps)
    /\ \A id \in DOMAIN ps :
         /\ ps[id].name \subseteq Nat /\ AtMostOne(ps[id].name)
         /\ ps[id].priority \subseteq Int /\ AtMostOne(ps[id].priority)

EmptyKey == ""
ReservedKeys == {"reason", "errors"}

\* The element of a set that has just one.
Only(S) == CHOOSE x \in S : TRUE

-----------------------------------------------------------------------------
(* Annotations.                                                            *)

DisplayId(id, p) == IF p.name = {} THEN id ELSE Only(p.name)

ParsesAsPriority(raw) == raw \in 0..LowestPriority

\* Mistake: an unset priority counts as the highest.
PriorityOfUnsetFirst(p) == IF p.priority = {} THEN 0 ELSE Only(p.priority)

PriorityOf(p) ==
    IF \E raw \in p.priority : ParsesAsPriority(raw)
    THEN Only(p.priority)
    ELSE LowestPriority

ValidPriorities(ps) ==
    \A id \in DOMAIN ps : \A raw \in ps[id].priority : ParsesAsPriority(raw)

\* Mistake: only the empty key is refused, the reserved ones pass.
NonEmptyContextKeys(ps) ==
    \A id \in DOMAIN ps : EmptyKey \notin DOMAIN ps[id].context

ValidDecisionContexts(ps) ==
    \A id \in DOMAIN ps :
        DOMAIN ps[id].context \cap (ReservedKeys \cup {EmptyKey}) = {}

\* A source that parsed and passed the strict schema validation of Cedar is
\* loaded when the annotations are in order too.
ValidAnnotations(ps) == ValidPriorities(ps) /\ ValidDecisionContexts(ps)

-----------------------------------------------------------------------------
(* The response context.                                                   *)

\* Mistake: the shown ids do not break ties.
PrecedesByPriority(ps, a, b) == PriorityOf(ps[a]) < PriorityOf(ps[b])

\* a comes before b in the order of min_by: by priority, then by shown id.
Precedes(ps, a, b) ==
    LET pa == PriorityOf(ps[a])
        pb == PriorityOf(ps[b])
    IN  \/ pa < pb
        \/ pa = pb /\ DisplayId(a, ps[a]) < DisplayId(b, ps[b])

\* Mistake: the keys of all determining policies are merged.
ToDecisionContextMerged(ps, ids) ==
    LET found == {ids[k] : k \in DOMAIN ids} \cap DOMAIN ps
        keys  == UNION {DOMAIN ps[id].context : id \in found} \ {EmptyKey}
    IN  IF keys = {} THEN {}
        ELSE {[k \in keys |->
                 ps[CHOOSE id \in found : k \in DOMAIN ps[id].context].context[k]]}

\* ids is the order in which the diagnostics list the determining policies.
Found(ps, ids) == {k \in DOMAIN ids : ids[k] \in DOMAIN ps}

\* min_by keeps the first of several least elements.
Least(ps, ids) ==
    {k \in Found(ps, ids) :
        /\ \A j \in Found(ps, ids) : ~Precedes(ps, ids[j], ids[k])
        /\ \A j \in Found(ps, ids) : j < k => Precedes(ps, ids[k], ids[j])}

Winner(ps, ids) == ids[Only(Least(ps, ids))]

\* Nothing, as {}, when no policy is found or the chosen one supplies no key.
ToDecisionContext(ps, ids) ==
    LET annotations == ps[Winner(ps, ids)].context
        keys == DOMAIN annotations \ {EmptyKey}
    IN  IF Found(ps, ids) = {} \/ keys = {} THEN {}
        ELSE {[k \in keys |-> annotations[k]]}

\* The place of s[k] when s is sorted, its equals in the order they come in.
Rank(s, k) ==
    Cardinality({j \in DOMAIN s : s[j] < s[k] \/ (s[j] = s[k] /\ j <= k)})

Sorted(s) == [n \in DOMAIN s |-> s[CHOOSE k \in DOMAIN s : Rank(s, k) = n]]

\* Mistake: a policy the set at hand does not have is left out.
ResolveReasonFoundOnly(ids, sets) ==
    LET found == SelectSeq(ids, LAMBDA id : \E ps \in sets : id \in DOMAIN ps)
    IN  Sorted([k \in DOMAIN found |-> DisplayId(found[k], Only(sets)[found[k]])])

\* Mistake: only the policies that carry an @id are listed.
ResolveReasonNamedOnly(ids, sets) ==
    LET named == SelectSeq(ids, LAMBDA id : Only(sets)[id].name # {})
    IN  Sorted([k \in DOMAIN named |-> Only(Only(sets)[named[k]].name)])

\* A determining policy goes by the name it has in the policy set at hand, or
\* by its internal id where it cannot be found.
ShownBy(sets, id) ==
    IF \E ps \in sets : id \in DOMAIN ps THEN DisplayId(id, Only(sets)[id]) ELSE id

ResolveReason(ids, sets) == Sorted([k \in DOMAIN ids |-> ShownBy(sets, ids[k])])

\* The reserved keys that have something to tell.
Reserved(reason, errors) ==
    (IF reason = << >> THEN {} ELSE {"reason"})
      \cup (IF errors = {} THEN {} ELSE {"errors"})

\* They are inserted over the keys of the annotations.
BuildResponseContext(annotations, reason, errors) ==
    LET reserved == Reserved(reason, errors)
        keys == reserved \cup UNION {DOMAIN a : a \in annotations}
        context == [k \in keys |-> IF k \notin reserved THEN Only(annotations)[k]
                                   ELSE IF k = "reason" THEN reason ELSE errors]
    IN  IF keys = {} THEN {} ELSE {context}

-----------------------------------------------------------------------------
(* Cedar, external: forbid overrides permit, and a policy whose evaluation *)
(* fails takes no part in the decision.                                    *)

Matching(ps, q, effect) ==
    {id \in DOMAIN ps :
        ps[id].effect = effect /\ q \in ps[id].holds \ ps[id].fails}

Determining(ps, q) ==
    IF Matching(ps, q, "forbid") # {}
    THEN Matching(ps, q, "forbid")
    ELSE Matching(ps, q, "permit")

Allows(ps, q) ==
    Matching(ps, q, "forbid") = {} /\ Matching(ps, q, "permit") # {}

Failing(ps, q) == {id \in DOMAIN ps : q \in ps[id].fails}

\* The orders in which a hash set may be iterated.
Orders(S) ==
    {s \in [1..Cardinality(S) -> S] : \A i, j \in DOMAIN s : i # j => s[i] # s[j]}
=============================================================================
