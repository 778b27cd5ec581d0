--------------------------- MODULE ResponseContext ---------------------------
(***************************************************************************)
(* One answer of the PDP computed from one policy set: the decision of     *)
(* Cedar, then the context that explains it (handlers.rs, convert.rs).     *)
(* The policy sets range over everything that parses, so the properties    *)
(* say which of them need the checks made at load time.                    *)
(***************************************************************************)
EXTENDS Policies

CONSTANTS PolicySets, Queries

ASSUME PolicySetsAssumption == \A ps \in PolicySets : IsPolicySet(ps)

VARIABLES
    policySet,   \* the policy set the provider handed out
    query,       \* the Cedar request
    reasonIds,   \* response.diagnostics().reason(), in the order listed
    stage,       \* "received", "authorized" or "answered"
    context      \* the context of the response, {} when there is none

vars == <<policySet, query, reasonIds, stage, context>>

Init ==
    /\ policySet \in PolicySets
    /\ query \in Queries
    /\ reasonIds = << >>
    /\ stage = "received"
    /\ context = {}

Authorize ==
    /\ stage = "received"
    /\ reasonIds' \in Orders(Determining(policySet, query))
    /\ stage' = "authorized"
    /\ UNCHANGED <<policySet, query, context>>

Explain ==
    /\ stage = "authorized"
    /\ context' = BuildResponseContext(
                      ToDecisionContext(policySet, reasonIds),
                      ResolveReason(reasonIds, {policySet}),
                      Failing(policySet, query))
    /\ stage' = "answered"
    /\ UNCHANGED <<policySet, query, reasonIds>>

Next == Authorize \/ Explain

Spec == Init /\ [][Next]_vars

-----------------------------------------------------------------------------
(* What the documents promise, stated on the annotations themselves.       *)

Determiners == Determining(policySet, query)

Keys == UNION {DOMAIN c : c \in context}

\* policies/README.md 3.3: the smaller @priority wins, and a policy that has
\* one comes before every policy without.
MoreUrgent(a, b) ==
    \E p \in policySet[a].priority : \A other \in policySet[b].priority : p < other

\* The code reads a @priority left unset as u32::MAX (convert.rs:118) and so
\* cannot tell it from one that states that very number.
TiedByDefault(a, b) ==
    \E x, y \in {a, b} :
        policySet[x].priority = {} /\ LowestPriority \in policySet[y].priority

ShownId(id) ==
    IF policySet[id].name = {} THEN id ELSE CHOOSE n \in policySet[id].name : TRUE

DistinctIds ==
    \A a, b \in DOMAIN policySet : ShownId(a) = ShownId(b) => a = b

\* Reserved keys belong to the PDP: with a policy set that was let in at load
\* time, `reason` is there exactly when some policy determined the decision
\* and `errors` exactly when the evaluation of some policy failed, and both
\* hold the PDP's values.  Not so without the load-time check (policy.rs:104):
\* an author's `errors` would stand where no evaluation failed.
ReservedKeysAreThePdps ==
    stage = "answered" /\ ValidAnnotations(policySet) =>
        /\ "reason" \in Keys <=> Determiners # {}
        /\ "errors" \in Keys <=> Failing(policySet, query) # {}
        /\ \A c \in context : "errors" \in DOMAIN c =>
             c["errors"] = Failing(policySet, query)

\* README: exactly one policy supplies all annotation-derived keys, the most
\* urgent one, first by its shown id among equals; the keys of other policies
\* are neither merged in nor fallen back to (convert.rs:138).  The exception is
\* a pair tied by default, of which the policy without @priority may be chosen.
OneUrgentSupplier ==
    stage = "answered" /\ ValidAnnotations(policySet) /\ Determiners # {} =>
        \E id \in Determiners :
            /\ \A other \in Determiners :
                 /\ MoreUrgent(other, id) => TiedByDefault(other, id)
                 /\ \/ MoreUrgent(id, other)
                    \/ ShownId(id) <= ShownId(other)
            /\ Keys \ ReservedKeys = DOMAIN policySet[id].context
            /\ \A c \in context : \A k \in DOMAIN policySet[id].context :
                 c[k] = policySet[id].context[k]

\* README: `reason` lists every determining policy, sorted: each shown id as
\* often as there are determining policies shown under it (handlers.rs:123).
ReasonListsEveryDeterminer ==
    stage = "answered" =>
        \A c \in context : "reason" \in DOMAIN c =>
            LET reason == c["reason"]
                named(name) ==
                  {id \in Determiners : ShownId(id) = name}
            IN  /\ Len(reason) = Cardinality(Determiners)
                /\ \A k \in 1..(Len(reason) - 1) : reason[k] <= reason[k + 1]
                /\ \A k \in DOMAIN reason :
                     Cardinality({j \in DOMAIN reason : reason[j] = reason[k]})
                       = Cardinality(named(reason[k]))

\* The annotation keys do not depend on the order in which the diagnostics,
\* a hash set, happen to list the determining policies.
OrderFree ==
    stage = "authorized" =>
        \A other \in Orders(Determiners) :
            ToDecisionContext(policySet, other)
              = ToDecisionContext(policySet, reasonIds)

\* With ids that are distinct as shown, the choice is deterministic.
DeterministicWithDistinctIds == DistinctIds => OrderFree

\* policies/README.md 3.3: ties are broken by the order of @id, and the
\* order is deterministic.
DeterministicSelection == OrderFree
=============================================================================
