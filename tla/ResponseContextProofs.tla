------------------------ MODULE ResponseContextProofs ------------------------
(***************************************************************************)
(* Proofs about ResponseContext, for any policy sets and queries: what the *)
(* context of an answer says of the policies that determined the decision. *)
(***************************************************************************)
EXTENDS ResponseContext, PoliciesProofs

\* The listed policies are those that determined the decision, and the
\* context was computed from them.
ContextInv ==
    /\ policySet \in PolicySets
    /\ stage \in {"received", "authorized", "answered"}
    /\ stage # "received" => reasonIds \in Orders(Determiners)
    /\ stage = "answered" =>
         context = BuildResponseContext(
                      ToDecisionContext(policySet, reasonIds),
                      ResolveReason(reasonIds, {policySet}),
                      Failing(policySet, query))

LEMMA ContextInvariant == Spec => []ContextInv
<1>1. Init => ContextInv
  BY DEF Init, ContextInv
<1>2. ContextInv /\ [Next]_vars => ContextInv'
  <2> SUFFICES ASSUME ContextInv, [Next]_vars PROVE ContextInv'
    OBVIOUS
  <2>1. CASE Authorize
    BY <2>1 DEF Authorize, ContextInv, Determiners
  <2>2. CASE Explain
    BY <2>2 DEF Explain, ContextInv, Determiners
  <2>3. CASE UNCHANGED vars
    BY <2>3 DEF vars, ContextInv, Determiners
  <2>4. QED
    BY <2>1, <2>2, <2>3 DEF Next
<1>3. QED
  BY <1>1, <1>2, PTL DEF Spec

-----------------------------------------------------------------------------

LEMMA DeterminersType ==
    ASSUME ContextInv
    PROVE  /\ IsPolicySet(policySet)
           /\ IsFiniteSet(Determiners)
           /\ Determiners \subseteq DOMAIN policySet
           /\ Determiners \subseteq Nat
<1>1. IsPolicySet(policySet)
  BY PolicySetsAssumption DEF ContextInv
<1>2. Determiners \in SUBSET DOMAIN policySet
  BY DEF Determiners, Determining, Matching
<1>3. IsFiniteSet(Determiners)
  BY <1>1, <1>2, FS_Subset DEF IsPolicySet
<1>4. QED
  BY <1>1, <1>2, <1>3 DEF IsPolicySet

\* Every determining policy is found in the policy set that decided, whatever
\* order the diagnostics list them in.
LEMMA AllFound ==
    ASSUME ContextInv, NEW ids \in Orders(Determiners)
    PROVE  LET n == Cardinality(Determiners)
           IN  /\ n \in Nat
               /\ ids \in [1..n -> Determiners]
               /\ Found(policySet, ids) = 1..n
               /\ DOMAIN ids \subseteq Nat
               /\ Found(policySet, ids) = {} <=> Determiners = {}
               /\ \A id \in Determiners : \E k \in 1..n : ids[k] = id
<1> DEFINE n == Cardinality(Determiners)
<1>1. n \in Nat /\ ids \in [1..n -> Determiners]
  BY DeterminersType, FS_CardinalityType, OrderIsBijection
<1>2. \A id \in Determiners : \E k \in 1..n : ids[k] = id
  BY DeterminersType, OrderIsBijection
<1>3. Found(policySet, ids) = 1..n
  BY <1>1, DeterminersType DEF Found
<1>4. 1..n = {} <=> Determiners = {}
  BY <1>1, <1>2
<1>5. QED
  BY <1>1, <1>2, <1>3, <1>4

\* The policy that supplies the annotation keys.
LEMMA Supplier ==
    ASSUME ContextInv, NEW ids \in Orders(Determiners), Determiners # {}
    PROVE  /\ Winner(policySet, ids) \in Determiners
           /\ \A other \in Determiners :
                ~Precedes(policySet, other, Winner(policySet, ids))
<1>1. PICK k \in Found(policySet, ids) :
        /\ Winner(policySet, ids) = ids[k]
        /\ \A j \in Found(policySet, ids) : ~Precedes(policySet, ids[j], ids[k])
  BY AllFound, DeterminersType, WinnerIsLeast
<1>2. QED
  BY <1>1, AllFound

\* Once answered, the reserved keys and values are as the PDP makes them.
LEMMA AnsweredContext ==
    ASSUME ContextInv, stage = "answered"
    PROVE  LET reason == ResolveReason(reasonIds, {policySet})
               errors == Failing(policySet, query)
               annotations == ToDecisionContext(policySet, reasonIds)
           IN  /\ reason = << >> <=> Determiners = {}
               /\ Keys = Reserved(reason, errors) \cup KeysOf(annotations)
               /\ Determiners = {} => annotations = {}
               /\ \A c \in context :
                    /\ DOMAIN c = Keys
                    /\ Determiners # {} => c["reason"] = reason
                    /\ errors # {} => c["errors"] = errors
                    /\ \A a \in annotations : \A k \in DOMAIN a \ ReservedKeys : c[k] = a[k]
<1> DEFINE reason == ResolveReason(reasonIds, {policySet})
           errors == Failing(policySet, query)
           annotations == ToDecisionContext(policySet, reasonIds)
<1>1. reasonIds \in Orders(Determiners)
  BY DEF ContextInv
<1>2. reason = << >> <=> Determiners = {}
  <2>1. DOMAIN reason = DOMAIN reasonIds
    BY DEF ResolveReason, Sorted
  <2>2. reason = << >> <=> DOMAIN reason = {}
    BY DEF ResolveReason, Sorted
  <2>3. QED
    BY <1>1, <2>1, <2>2, DeterminersType, OrderEmpty
<1>3. AtMostOne(annotations) /\ (Determiners = {} => annotations = {})
  BY <1>1, AllFound, AnnotationsOfWinner
<1>4. context = BuildResponseContext(annotations, reason, errors)
  BY DEF ContextInv
<1>5. Keys = KeysOf(context)
  BY DEF Keys, KeysOf
<1> HIDE DEF reason, errors, annotations
<1>6. /\ KeysOf(context) = Reserved(reason, errors) \cup KeysOf(annotations)
      /\ \A c \in context :
           /\ DOMAIN c = KeysOf(context)
           /\ reason # << >> => c["reason"] = reason
           /\ errors # {} => c["errors"] = errors
           /\ \A a \in annotations : \A k \in DOMAIN a \ ReservedKeys : c[k] = a[k]
  BY <1>3, <1>4, BuiltContext
<1>7. QED
  BY <1>2, <1>3, <1>5, <1>6 DEF reason, errors, annotations

-----------------------------------------------------------------------------

\* With the reserved keys refused at load time, `reason` and `errors` are in
\* the context exactly when the PDP put them there, with its own values.
THEOREM ReservedKeysKept == Spec => []ReservedKeysAreThePdps
<1>1. ContextInv => ReservedKeysAreThePdps
  <2> SUFFICES ASSUME ContextInv, stage = "answered", ValidAnnotations(policySet)
               PROVE  /\ "reason" \in Keys <=> Determiners # {}
                      /\ "errors" \in Keys <=> Failing(policySet, query) # {}
                      /\ \A c \in context : "errors" \in DOMAIN c =>
                           c["errors"] = Failing(policySet, query)
    BY DEF ReservedKeysAreThePdps
  <2> DEFINE annotations == ToDecisionContext(policySet, reasonIds)
  <2>1. KeysOf(annotations) \cap ReservedKeys = {}
    <3>1. reasonIds \in Orders(Determiners)
      BY DEF ContextInv
    <3>2. QED
      BY <3>1, AllFound, DeterminersType, AnnotationsUnreserved DEF ValidAnnotations
  <2> HIDE DEF annotations
  <2>2. Keys = Reserved(ResolveReason(reasonIds, {policySet}), Failing(policySet, query))
                 \cup KeysOf(annotations)
    BY AnsweredContext DEF annotations
  <2>3. "reason" \in Keys <=> Determiners # {}
    BY <2>1, <2>2, AnsweredContext DEF Reserved, ReservedKeys
  <2>4. "errors" \in Keys <=> Failing(policySet, query) # {}
    BY <2>1, <2>2 DEF Reserved, ReservedKeys
  <2>5. QED
    BY <2>3, <2>4, AnsweredContext
<1>2. QED
  BY <1>1, ContextInvariant, PTL

\* Urgency, stated on the raw annotations, is the order the code compares by,
\* but for pairs tied by default.
LEMMA UrgencyIsPriority ==
    ASSUME IsPolicySet(policySet), ValidPriorities(policySet),
           NEW a \in DOMAIN policySet, NEW b \in DOMAIN policySet
    PROVE  LET before == PriorityOf(policySet[a]) < PriorityOf(policySet[b])
           IN  /\ before => MoreUrgent(a, b)
               /\ MoreUrgent(a, b) => before \/ TiedByDefault(a, b)
<1>1. ASSUME NEW id \in DOMAIN policySet
      PROVE  \/ /\ policySet[id].priority = {}
                /\ PriorityOf(policySet[id]) = LowestPriority
             \/ \E p \in 0..LowestPriority :
                  /\ policySet[id].priority = {p}
                  /\ PriorityOf(policySet[id]) = p
  <2>1. CASE policySet[id].priority = {}
    BY <2>1 DEF PriorityOf
  <2>2. CASE policySet[id].priority # {}
    <3>1. PICK p \in policySet[id].priority : policySet[id].priority = {p}
      BY <2>2 DEF IsPolicySet, AtMostOne
    <3>2. ParsesAsPriority(p)
      BY <3>1 DEF ValidPriorities
    <3>3. PriorityOf(policySet[id]) = p
      BY <3>1, <3>2, OnlyOne DEF PriorityOf
    <3>4. QED
      BY <3>1, <3>2, <3>3 DEF ParsesAsPriority
  <2>3. QED
    BY <2>1, <2>2
<1>2. QED
  BY <1>1, PriorityAssumption DEF MoreUrgent, TiedByDefault

\* README: one policy supplies all annotation keys, the most urgent of those
\* that determined the decision, first by its shown id among equals.
THEOREM UrgentSupplier == Spec => []OneUrgentSupplier
<1>1. ContextInv => OneUrgentSupplier
  <2> SUFFICES ASSUME ContextInv, stage = "answered", ValidAnnotations(policySet),
                      Determiners # {}
               PROVE  \E id \in Determiners :
                        /\ \A other \in Determiners :
                             /\ MoreUrgent(other, id) => TiedByDefault(other, id)
                             /\ \/ MoreUrgent(id, other)
                                \/ ShownId(id) <= ShownId(other)
                        /\ Keys \ ReservedKeys = DOMAIN policySet[id].context
                        /\ \A c \in context : \A k \in DOMAIN policySet[id].context :
                             c[k] = policySet[id].context[k]
    BY DEF OneUrgentSupplier
  <2> DEFINE id == Winner(policySet, reasonIds)
             annotations == ToDecisionContext(policySet, reasonIds)
  <2>1. reasonIds \in Orders(Determiners)
    BY DEF ContextInv
  <2>2. id \in Determiners /\ \A other \in Determiners : ~Precedes(policySet, other, id)
    BY <2>1, Supplier
  <2>3. id \in DOMAIN policySet
    BY <2>2, DeterminersType
  <2>4. KeysOf(annotations) = DOMAIN policySet[id].context \ {EmptyKey}
    BY <2>1, AllFound, AnnotationsOfWinner
  <2>5. DOMAIN policySet[id].context \cap (ReservedKeys \cup {EmptyKey}) = {}
    BY <2>3 DEF ValidAnnotations, ValidDecisionContexts
  <2>6. \A a \in annotations : \A k \in DOMAIN a : a[k] = policySet[id].context[k]
    BY AnnotationsOfWinner
  <2> HIDE DEF id, annotations
  <2>7. ASSUME NEW other \in Determiners
        PROVE  /\ MoreUrgent(other, id) => TiedByDefault(other, id)
               /\ MoreUrgent(id, other) \/ ShownId(id) <= ShownId(other)
    <3>1. other \in DOMAIN policySet
      BY DeterminersType
    <3>2. \A a \in DOMAIN policySet : ShownId(a) = DisplayId(a, policySet[a])
      BY DEF ShownId, DisplayId, Only
    <3>3. /\ PriorityOf(policySet[id]) \in Nat /\ PriorityOf(policySet[other]) \in Nat
          /\ ShownId(id) \in Nat /\ ShownId(other) \in Nat
      BY <2>3, <3>1, <3>2, DeterminersType, PriorityType, DisplayIdType
    <3>4. /\ MoreUrgent(other, id) =>
               \/ PriorityOf(policySet[other]) < PriorityOf(policySet[id])
               \/ TiedByDefault(other, id)
          /\ PriorityOf(policySet[id]) < PriorityOf(policySet[other]) => MoreUrgent(id, other)
      BY <2>3, <3>1, DeterminersType, UrgencyIsPriority DEF ValidAnnotations
    <3>5. ~Precedes(policySet, other, id)
      BY <2>2
    <3>6. QED
      BY <2>3, <3>1, <3>2, <3>3, <3>4, <3>5 DEF Precedes
  <2>8. Keys \ ReservedKeys = DOMAIN policySet[id].context
    <3>1. Keys = Reserved(ResolveReason(reasonIds, {policySet}), Failing(policySet, query))
                   \cup KeysOf(annotations)
      BY AnsweredContext DEF annotations
    <3>2. QED
      BY <2>4, <2>5, <3>1 DEF Reserved, ReservedKeys
  <2>9. ASSUME NEW c \in context, NEW k \in DOMAIN policySet[id].context
        PROVE  c[k] = policySet[id].context[k]
    <3>1. PICK a \in annotations : k \in DOMAIN a
      BY <2>4, <2>5 DEF KeysOf
    <3>2. c[k] = a[k]
      BY <2>5, <3>1, AnsweredContext DEF annotations
    <3>3. QED
      BY <2>6, <3>1, <3>2
  <2>10. QED
    BY <2>2, <2>7, <2>8, <2>9
<1>2. QED
  BY <1>1, ContextInvariant, PTL

\* README: `reason` lists each determining policy once, sorted by shown id.
THEOREM ReasonIsComplete == Spec => []ReasonListsEveryDeterminer
<1>1. ContextInv => ReasonListsEveryDeterminer
  <2> SUFFICES ASSUME ContextInv, stage = "answered",
                      NEW c \in context, "reason" \in DOMAIN c
               PROVE  LET reason == c["reason"]
                      IN  /\ Len(reason) = Cardinality(Determiners)
                          /\ \A k \in 1..(Len(reason) - 1) : reason[k] <= reason[k + 1]
                          /\ \A k \in DOMAIN reason :
                               Cardinality({j \in DOMAIN reason : reason[j] = reason[k]})
                                 = Cardinality({id \in Determiners : ShownId(id) = reason[k]})
    BY DEF ReasonListsEveryDeterminer
  <2> DEFINE n == Cardinality(Determiners)
             reason == ResolveReason(reasonIds, {policySet})
             shown(id) == ShownBy({policySet}, id)
  <2>1. reasonIds \in Orders(Determiners)
    BY DEF ContextInv
  <2>2. c["reason"] = reason
    <3>1. DOMAIN c = Keys
      BY AnsweredContext
    <3>2. CASE Determiners = {}
      <4>1. "reason" \notin Keys
        BY <3>2, AnsweredContext DEF KeysOf, Reserved
      <4>2. QED
        BY <3>1, <4>1
    <3>3. CASE Determiners # {}
      BY <3>3, AnsweredContext
    <3>4. QED
      BY <3>2, <3>3
  <2>3. n \in Nat /\ reasonIds \in Bijection(1..n, Determiners)
    BY <2>1, DeterminersType, FS_CardinalityType, OrderIsBijection
  <2>4. PICK f \in Bijection(1..n, 1..n) :
          /\ reason = [m \in 1..n |-> shown(reasonIds[f[m]])]
          /\ \A i, j \in 1..n : i <= j => shown(reasonIds[f[i]]) <= shown(reasonIds[f[j]])
    <3>1. AtMostOne({policySet}) /\ \A ps \in {policySet} : IsPolicySet(ps)
      BY DeterminersType DEF AtMostOne
    <3>2. QED
      BY <2>1, <3>1, DeterminersType, ReasonRearranges
  <2>5. \A id \in Determiners : shown(id) = ShownId(id)
    <3>1. \A id \in Determiners : ShownId(id) = DisplayId(id, policySet[id])
      BY DEF ShownId, DisplayId, Only
    <3>2. Only({policySet}) = policySet
      BY OnlyOne
    <3>3. QED
      BY <3>1, <3>2, DeterminersType DEF ShownBy
  <2> HIDE DEF n, shown, reason
  <2> DEFINE g == [m \in 1..n |-> reasonIds[f[m]]]
  <2>6. g \in Bijection(1..n, Determiners)
    BY <2>3, <2>4, Fun_BijTransitive
  <2> HIDE DEF g
  <2>7. /\ g \in [1..n -> Determiners]
        /\ \A i, j \in 1..n : g[i] = g[j] => i = j
    BY <2>6 DEF Bijection, Injection, IsInjective
  <2>8. \A id \in Determiners : \E m \in 1..n : g[m] = id
    BY <2>6 DEF Bijection, Surjection
  <2>9. reason = [m \in 1..n |-> ShownId(g[m])]
    BY <2>4, <2>5, <2>7 DEF g
  <2>10. Len(reason) = n /\ DOMAIN reason = 1..n
    BY <2>3, <2>9
  <2>11. \A k \in 1..(n - 1) : reason[k] <= reason[k + 1]
    BY <2>3, <2>4
  <2>12. ASSUME NEW k \in 1..n
         PROVE  Cardinality({j \in 1..n : reason[j] = reason[k]})
                  = Cardinality({id \in Determiners : ShownId(id) = reason[k]})
    <3> DEFINE J == {j \in 1..n : reason[j] = reason[k]}
               N == {id \in Determiners : ShownId(id) = reason[k]}
               r == [j \in J |-> g[j]]
    <3>1. r \in [J -> N]
      BY <2>7, <2>9
    <3>2. \A i, j \in J : r[i] = r[j] => i = j
      BY <2>7
    <3>3. \A id \in N : \E j \in J : r[j] = id
      BY <2>8, <2>9
    <3> HIDE DEF r, J, N
    <3>4. r \in Bijection(J, N)
      BY <3>1, <3>2, <3>3, Fun_IsInj, Fun_IsSurj DEF Bijection
    <3>5. IsFiniteSet(J)
      <4>1. J \in SUBSET (1..n)
        BY DEF J
      <4>2. IsFiniteSet(1..n)
        BY <2>3, FS_Interval
      <4>3. QED
        BY <4>1, <4>2, FS_Subset
    <3>6. Cardinality(N) = Cardinality(J)
      BY <3>4, <3>5, Fun_ExistsBij, FS_Bijection
    <3>7. QED
      BY <3>6 DEF J, N
  <2>13. QED
    BY <2>2, <2>10, <2>11, <2>12 DEF n
<1>2. QED
  BY <1>1, ContextInvariant, PTL

\* With distinct ids, whatever order the diagnostics list the policies in, the
\* same one supplies the context.
THEOREM DistinctIdsDetermine == Spec => []DeterministicWithDistinctIds
<1>1. ContextInv => DeterministicWithDistinctIds
  <2> SUFFICES ASSUME ContextInv, DistinctIds, stage = "authorized",
                      NEW other \in Orders(Determiners)
               PROVE  ToDecisionContext(policySet, other)
                        = ToDecisionContext(policySet, reasonIds)
    BY DEF DeterministicWithDistinctIds, OrderFree
  <2>1. reasonIds \in Orders(Determiners)
    BY DEF ContextInv
  <2>2. CASE Determiners = {}
    BY <2>1, <2>2, AllFound, AnnotationsOfWinner
  <2>3. CASE Determiners # {}
    <3> DEFINE a == Winner(policySet, other)
               b == Winner(policySet, reasonIds)
    <3>1. a \in Determiners /\ b \in Determiners
      BY <2>1, <2>3, Supplier
    <3>2. ~Precedes(policySet, a, b) /\ ~Precedes(policySet, b, a)
      BY <2>1, <2>3, <3>1, Supplier
    <3> HIDE DEF a, b
    <3>3. a \in DOMAIN policySet /\ b \in DOMAIN policySet
      BY <3>1, DeterminersType
    <3>4. /\ PriorityOf(policySet[a]) \in Nat /\ PriorityOf(policySet[b]) \in Nat
          /\ DisplayId(a, policySet[a]) \in Nat /\ DisplayId(b, policySet[b]) \in Nat
      BY <3>3, DeterminersType, PriorityType, DisplayIdType
    <3>5. DisplayId(a, policySet[a]) = DisplayId(b, policySet[b])
      BY <3>2, <3>4 DEF Precedes
    <3>6. a = b
      BY <3>3, <3>5 DEF DistinctIds, ShownId, DisplayId, Only
    <3>7. /\ Found(policySet, other) # {}
          /\ Found(policySet, reasonIds) # {}
      BY <2>1, <2>3, AllFound
    <3>8. QED
      BY <3>6, <3>7 DEF ToDecisionContext, a, b
  <2>4. QED
    BY <2>2, <2>3
<1>2. QED
  BY <1>1, ContextInvariant, PTL
=============================================================================
