--------------------------- MODULE PoliciesProofs ---------------------------
(***************************************************************************)
(* What the operators of Policies compute, for every policy set and every  *)
(* order in which the diagnostics may list the determining policies: the   *)
(* selection picks one least policy, sorting loses nothing, and the        *)
(* context has the reserved keys it should have.                           *)
(***************************************************************************)
EXTENDS Policies, FiniteSetTheorems, FunctionTheorems,
        WellFoundedInduction, TLAPS

LEMMA OnlyOne == ASSUME NEW r PROVE Only({r}) = r
BY DEF Only

LEMMA OnlyMember == ASSUME NEW S, S # {} PROVE Only(S) \in S
BY DEF Only

LEMMA LeastNatural ==
    ASSUME NEW T \in SUBSET Nat, T # {}
    PROVE  \E x \in T : \A y \in T : x <= y
<1>1. PICK x \in T : \A y \in T : <<y, x>> \notin OpToRel(<, Nat)
  BY NatLessThanWellFounded, WFMin
<1>2. \A y \in T : ~(y < x)
  BY <1>1 DEF OpToRel
<1>3. QED
  BY <1>2

-----------------------------------------------------------------------------
(* Annotations.                                                            *)

LEMMA PriorityType ==
    ASSUME NEW ps, IsPolicySet(ps), NEW id \in DOMAIN ps
    PROVE  PriorityOf(ps[id]) \in Nat
<1>1. CASE \E raw \in ps[id].priority : ParsesAsPriority(raw)
  <2>1. PICK raw \in ps[id].priority : ParsesAsPriority(raw)
    BY <1>1
  <2>2. Only(ps[id].priority) = raw
    BY <2>1, OnlyMember DEF IsPolicySet, AtMostOne
  <2>3. QED
    BY <1>1, <2>1, <2>2, PriorityAssumption DEF PriorityOf, ParsesAsPriority
<1>2. QED
  BY <1>1, PriorityAssumption DEF PriorityOf

LEMMA DisplayIdType ==
    ASSUME NEW ps, IsPolicySet(ps), NEW id \in DOMAIN ps
    PROVE  DisplayId(id, ps[id]) \in Nat
BY OnlyMember DEF DisplayId, IsPolicySet

\* Orders lists each element of a finite set exactly once.
LEMMA OrderIsBijection ==
    ASSUME NEW S, IsFiniteSet(S), NEW s \in Orders(S)
    PROVE  /\ s \in [1..Cardinality(S) -> S]
           /\ s \in Bijection(1..Cardinality(S), S)
           /\ \A x \in S : \E k \in 1..Cardinality(S) : s[k] = x
           /\ \A j, k \in 1..Cardinality(S) : s[j] = s[k] => j = k
<1> DEFINE n == Cardinality(S)
<1>1. n \in Nat
  BY FS_CardinalityType
<1>2. s \in [1..n -> S] /\ \A j, k \in 1..n : s[j] = s[k] => j = k
  BY DEF Orders
<1>3. s \in Injection(1..n, S)
  BY <1>2, Fun_IsInj
<1>4. Cardinality(1..n) = n
  BY <1>1, FS_Interval
<1>5. s \in Surjection(1..n, S)
  BY <1>3, <1>4, FS_Injection
<1>6. s \in Bijection(1..n, S)
  BY <1>3, <1>5 DEF Bijection
<1>7. \A x \in S : \E k \in 1..n : s[k] = x
  BY <1>5 DEF Surjection
<1>8. QED
  BY <1>2, <1>6, <1>7

LEMMA OrderExists == ASSUME NEW S, IsFiniteSet(S) PROVE Orders(S) # {}
<1>1. PICK s \in Bijection(1..Cardinality(S), S) : TRUE
  BY FS_CardinalityType, Fun_ExistsBij
<1>2. /\ s \in [1..Cardinality(S) -> S]
      /\ \A j, k \in 1..Cardinality(S) : s[j] = s[k] => j = k
  BY <1>1, Fun_BijectionProperties
<1>3. s \in Orders(S)
  BY <1>2 DEF Orders
<1>4. QED
  BY <1>3

LEMMA OrderEmpty ==
    ASSUME NEW S, IsFiniteSet(S), NEW s \in Orders(S)
    PROVE  DOMAIN s = {} <=> S = {}
<1>1. DOMAIN s = 1..Cardinality(S) /\ Cardinality(S) \in Nat
  BY OrderIsBijection, FS_CardinalityType
<1>2. Cardinality(S) = 0 <=> S = {}
  BY FS_EmptySet
<1>3. QED
  BY <1>1, <1>2

-----------------------------------------------------------------------------
(* The selection of the policy that supplies the context.                  *)

\* The order of min_by leaves exactly one policy to choose.
LEMMA LeastIsOne ==
    ASSUME NEW ps, IsPolicySet(ps), NEW ids, DOMAIN ids \subseteq Nat,
           Found(ps, ids) # {}
    PROVE  \E k \in Found(ps, ids) : Least(ps, ids) = {k}
<1> DEFINE F       == Found(ps, ids)
           prio(k) == PriorityOf(ps[ids[k]])
           name(k) == DisplayId(ids[k], ps[ids[k]])
<1>1. F \subseteq Nat /\ \A k \in F : ids[k] \in DOMAIN ps
  BY DEF Found
<1>2. \A k \in F : prio(k) \in Nat /\ name(k) \in Nat
  BY <1>1, PriorityType, DisplayIdType
<1>3. \A j, k \in F : Precedes(ps, ids[j], ids[k]) <=>
                        prio(j) < prio(k) \/ (prio(j) = prio(k) /\ name(j) < name(k))
  BY DEF Precedes
<1> HIDE DEF F, prio, name
<1>4. PICK p \in F : \A k \in F : prio(p) <= prio(k)
  <2> DEFINE T == {prio(k) : k \in F}
  <2>1. T \in SUBSET Nat /\ T # {}
    BY <1>2 DEF F
  <2>2. PICK t \in T : \A u \in T : t <= u
    BY <2>1, LeastNatural
  <2>3. QED
    BY <2>2
<1> DEFINE G == {k \in F : prio(k) = prio(p)}
<1>5. PICK n \in G : \A k \in G : name(n) <= name(k)
  <2> DEFINE T == {name(k) : k \in G}
  <2>1. T \in SUBSET Nat /\ T # {}
    BY <1>2, <1>4
  <2>2. PICK t \in T : \A u \in T : t <= u
    BY <2>1, LeastNatural
  <2>3. QED
    BY <2>2
<1> DEFINE H == {k \in G : name(k) = name(n)}
<1>6. PICK w \in H : \A k \in H : w <= k
  <2>1. H \in SUBSET Nat /\ H # {}
    BY <1>1, <1>5
  <2>2. QED
    BY <2>1, LeastNatural
<1>7. w \in F /\ \A k \in F :
        /\ prio(w) <= prio(k)
        /\ prio(w) = prio(k) => name(w) <= name(k)
        /\ prio(w) = prio(k) /\ name(w) = name(k) => w <= k
  BY <1>4, <1>5, <1>6
<1>8. Least(ps, ids) =
        {k \in F : /\ \A j \in F : ~Precedes(ps, ids[j], ids[k])
                   /\ \A j \in F : j < k => Precedes(ps, ids[k], ids[j])}
  BY DEF Least, F
<1>9. w \in Least(ps, ids)
  BY <1>1, <1>2, <1>3, <1>7, <1>8
<1>10. ASSUME NEW k \in Least(ps, ids) PROVE k = w
  <2>1. k \in F /\ ~Precedes(ps, ids[k], ids[w]) /\ ~Precedes(ps, ids[w], ids[k])
    BY <1>8, <1>9, <1>10
  <2>2. ~(k < w) /\ ~(w < k)
    BY <1>8, <1>9, <1>10, <2>1
  <2>3. k \in Nat /\ w \in Nat
    BY <1>1, <1>7, <2>1
  <2>4. QED
    BY <2>2, <2>3
<1>11. QED
  BY <1>7, <1>9, <1>10 DEF F

\* The winner is a policy of the set that no other one found precedes.
LEMMA WinnerIsLeast ==
    ASSUME NEW ps, IsPolicySet(ps), NEW ids, DOMAIN ids \subseteq Nat,
           Found(ps, ids) # {}
    PROVE  \E k \in Found(ps, ids) :
             /\ Winner(ps, ids) = ids[k]
             /\ \A j \in Found(ps, ids) : ~Precedes(ps, ids[j], ids[k])
<1>1. PICK k \in Found(ps, ids) : Least(ps, ids) = {k}
  BY LeastIsOne
<1>2. Winner(ps, ids) = ids[k]
  BY <1>1, OnlyOne DEF Winner
<1>3. \A j \in Found(ps, ids) : ~Precedes(ps, ids[j], ids[k])
  BY <1>1 DEF Least
<1>4. QED
  BY <1>2, <1>3

-----------------------------------------------------------------------------
(* Sorting.                                                                *)

\* Ranks tell the places of a sequence apart, in the order of its elements.
LEMMA RanksOrder ==
    ASSUME NEW n \in Nat, NEW s \in [1..n -> Nat]
    PROVE  /\ \A k \in 1..n : Rank(s, k) \in 1..n
           /\ \A j, k \in 1..n :
                s[j] < s[k] \/ (s[j] = s[k] /\ j < k) => Rank(s, j) < Rank(s, k)
<1> DEFINE B(k) == {j \in 1..n : s[j] < s[k] \/ (s[j] = s[k] /\ j <= k)}
<1>1. IsFiniteSet(1..n) /\ Cardinality(1..n) = n
  BY FS_Interval
<1>2. ASSUME NEW k \in 1..n
      PROVE  /\ IsFiniteSet(B(k)) /\ k \in B(k)
             /\ Rank(s, k) = Cardinality(B(k)) /\ Rank(s, k) \in 1..n
  <2>1. B(k) \in SUBSET (1..n) /\ k \in B(k)
    OBVIOUS
  <2>2. Rank(s, k) = Cardinality(B(k))
    BY DEF Rank
  <2> HIDE DEF B
  <2>3. IsFiniteSet(B(k)) /\ Cardinality(B(k)) <= n
    BY <1>1, <2>1, FS_Subset
  <2>4. Cardinality(B(k)) \in Nat /\ Cardinality(B(k)) # 0
    BY <2>1, <2>3, FS_CardinalityType, FS_EmptySet
  <2>5. QED
    BY <2>1, <2>2, <2>3, <2>4
<1>3. ASSUME NEW j \in 1..n, NEW k \in 1..n,
             s[j] < s[k] \/ (s[j] = s[k] /\ j < k)
      PROVE  Rank(s, j) < Rank(s, k)
  <2>1. B(j) \in SUBSET B(k) /\ k \notin B(j)
    BY <1>3
  <2> HIDE DEF B
  <2>2. /\ Cardinality(B(j)) <= Cardinality(B(k))
        /\ Cardinality(B(k)) = Cardinality(B(j)) => B(k) = B(j)
    BY <1>2, <2>1, FS_Subset
  <2>3. QED
    BY <1>2, <2>1, <2>2
<1>4. QED
  BY <1>2, <1>3

\* sort_unstable: the sorted sequence is a rearrangement, in rising order.
LEMMA SortedRearranges ==
    ASSUME NEW n \in Nat, NEW s \in [1..n -> Nat]
    PROVE  \E f \in Bijection(1..n, 1..n) :
             /\ Sorted(s) = [m \in 1..n |-> s[f[m]]]
             /\ \A i, j \in 1..n : i <= j => s[f[i]] <= s[f[j]]
<1> DEFINE r == [k \in 1..n |-> Rank(s, k)]
           f == [m \in 1..n |-> CHOOSE k \in 1..n : Rank(s, k) = m]
<1>0. /\ \A k \in 1..n : Rank(s, k) \in 1..n
      /\ \A j, k \in 1..n :
           s[j] < s[k] \/ (s[j] = s[k] /\ j < k) => Rank(s, j) < Rank(s, k)
  BY RanksOrder
<1>1. /\ r \in [1..n -> 1..n]
      /\ \A j, k \in 1..n : r[j] = r[k] => j = k
  <2>1. r \in [1..n -> 1..n]
    BY <1>0
  <2>2. ASSUME NEW j \in 1..n, NEW k \in 1..n, j # k PROVE r[j] # r[k]
    <3>1. s[j] \in Nat /\ s[k] \in Nat /\ Rank(s, j) \in Nat /\ Rank(s, k) \in Nat
      BY <1>0
    <3>2. \/ s[j] < s[k] \/ (s[j] = s[k] /\ j < k)
          \/ s[k] < s[j] \/ (s[k] = s[j] /\ k < j)
      BY <2>2, <3>1
    <3>3. Rank(s, j) < Rank(s, k) \/ Rank(s, k) < Rank(s, j)
      BY <1>0, <3>2
    <3>4. QED
      BY <3>1, <3>3
  <2>3. QED
    BY <2>1, <2>2
<1>2. r \in Surjection(1..n, 1..n)
  <2>1. IsFiniteSet(1..n)
    BY FS_Interval
  <2>2. r \in Injection(1..n, 1..n)
    BY <1>1, Fun_IsInj
  <2>3. QED
    BY <2>1, <2>2, FS_Injection
<1>3. \A m \in 1..n : f[m] \in 1..n /\ Rank(s, f[m]) = m
  <2>1. \A m \in 1..n : \E k \in 1..n : r[k] = m
    BY <1>2 DEF Surjection
  <2>2. QED
    BY <2>1
<1>4. \A k \in 1..n : f[Rank(s, k)] = k
  BY <1>0, <1>1, <1>3
<1> HIDE DEF f
<1>5. f \in [1..n -> 1..n]
  BY <1>3 DEF f
<1>6. f \in Bijection(1..n, 1..n)
  <2>1. \A i, j \in 1..n : f[i] = f[j] => i = j
    BY <1>3
  <2>2. \A k \in 1..n : \E m \in 1..n : f[m] = k
    BY <1>0, <1>4
  <2>3. QED
    BY <1>5, <2>1, <2>2, Fun_IsInj, Fun_IsSurj DEF Bijection
<1>7. Sorted(s) = [m \in 1..n |-> s[f[m]]]
  BY DEF Sorted, f
<1>8. ASSUME NEW i \in 1..n, NEW j \in 1..n, i <= j
      PROVE  s[f[i]] <= s[f[j]]
  <2>1. ~(Rank(s, f[j]) < Rank(s, f[i]))
    BY <1>3, <1>8
  <2>2. ~(s[f[j]] < s[f[i]])
    BY <1>3, <2>1, <1>0
  <2>3. s[f[i]] \in Nat /\ s[f[j]] \in Nat
    BY <1>3
  <2>4. QED
    BY <2>2, <2>3
<1>9. QED
  BY <1>6, <1>7, <1>8

\* The reason of an answer lists what was listed, by name and in order.
LEMMA ReasonRearranges ==
    ASSUME NEW S, IsFiniteSet(S), S \subseteq Nat, NEW ids \in Orders(S),
           NEW sets, AtMostOne(sets), \A ps \in sets : IsPolicySet(ps)
    PROVE  LET n == Cardinality(S)
           IN  \E f \in Bijection(1..n, 1..n) :
                 /\ ResolveReason(ids, sets) = [m \in 1..n |-> ShownBy(sets, ids[f[m]])]
                 /\ \A i, j \in 1..n : i <= j =>
                      ShownBy(sets, ids[f[i]]) <= ShownBy(sets, ids[f[j]])
<1> DEFINE n == Cardinality(S)
           s == [k \in 1..n |-> ShownBy(sets, ids[k])]
<1>1. n \in Nat /\ ids \in [1..n -> S]
  BY FS_CardinalityType, OrderIsBijection
<1>2. ASSUME NEW id \in S PROVE ShownBy(sets, id) \in Nat
  <2>1. CASE \E ps \in sets : id \in DOMAIN ps
    <3>1. PICK ps \in sets : id \in DOMAIN ps
      BY <2>1
    <3>2. Only(sets) = ps
      BY OnlyMember DEF AtMostOne
    <3>3. QED
      BY <2>1, <3>1, <3>2, DisplayIdType DEF ShownBy
  <2>2. QED
    BY <2>1 DEF ShownBy
<1>3. s \in [1..n -> Nat]
  BY <1>1, <1>2
<1>4. ResolveReason(ids, sets) = Sorted(s)
  BY <1>1 DEF ResolveReason
<1> HIDE DEF n
<1>5. PICK f \in Bijection(1..n, 1..n) :
        /\ Sorted(s) = [m \in 1..n |-> s[f[m]]]
        /\ \A i, j \in 1..n : i <= j => s[f[i]] <= s[f[j]]
  <2> HIDE DEF s
  <2>1. QED
    BY <1>1, <1>3, SortedRearranges
<1>6. f \in [1..n -> 1..n]
  BY <1>5, Fun_BijectionProperties
<1>7. \A m \in 1..n : s[f[m]] = ShownBy(sets, ids[f[m]])
  BY <1>6
<1> HIDE DEF s
<1>8. ResolveReason(ids, sets) = [m \in 1..n |-> ShownBy(sets, ids[f[m]])]
  BY <1>4, <1>5, <1>7
<1>9. ASSUME NEW i \in 1..n, NEW j \in 1..n, i <= j
      PROVE  ShownBy(sets, ids[f[i]]) <= ShownBy(sets, ids[f[j]])
  BY <1>5, <1>7, <1>9
<1>10. QED
  BY <1>8, <1>9 DEF n

-----------------------------------------------------------------------------
(* The context.                                                            *)

KeysOf(context) == UNION {DOMAIN c : c \in context}

\* The annotation keys of an answer are those of the winner, untouched.
LEMMA AnnotationsOfWinner ==
    ASSUME NEW ps, NEW ids
    PROVE  LET annotations == ToDecisionContext(ps, ids)
               source == ps[Winner(ps, ids)].context
           IN  /\ AtMostOne(annotations)
               /\ Found(ps, ids) = {} => annotations = {}
               /\ Found(ps, ids) # {} => KeysOf(annotations) = DOMAIN source \ {EmptyKey}
               /\ \A a \in annotations : \A k \in DOMAIN a : a[k] = source[k]
BY DEF ToDecisionContext, KeysOf, AtMostOne

\* What passed the check at load time brings no reserved key.
LEMMA AnnotationsUnreserved ==
    ASSUME NEW ps, IsPolicySet(ps), ValidDecisionContexts(ps),
           NEW ids, DOMAIN ids \subseteq Nat
    PROVE  KeysOf(ToDecisionContext(ps, ids)) \cap ReservedKeys = {}
<1>1. CASE Found(ps, ids) = {}
  BY <1>1, AnnotationsOfWinner DEF KeysOf
<1>2. CASE Found(ps, ids) # {}
  <2>1. Winner(ps, ids) \in DOMAIN ps
    BY <1>2, WinnerIsLeast DEF Found
  <2>2. KeysOf(ToDecisionContext(ps, ids)) = DOMAIN ps[Winner(ps, ids)].context \ {EmptyKey}
    BY <1>2, AnnotationsOfWinner
  <2>3. QED
    BY <2>1, <2>2 DEF ValidDecisionContexts
<1>3. QED
  BY <1>1, <1>2

\* A context holds the reserved keys that have something to tell, with the
\* PDP's values, and beyond them the keys of the annotations.
LEMMA BuiltContext ==
    ASSUME NEW annotations, AtMostOne(annotations), NEW reason, NEW errors
    PROVE  LET built == BuildResponseContext(annotations, reason, errors)
           IN  /\ KeysOf(built) = Reserved(reason, errors) \cup KeysOf(annotations)
               /\ \A c \in built :
                    /\ built = {c} /\ DOMAIN c = KeysOf(built)
                    /\ reason # << >> => c["reason"] = reason
                    /\ errors # {} => c["errors"] = errors
                    /\ \A a \in annotations : \A k \in DOMAIN a \ ReservedKeys : c[k] = a[k]
<1> DEFINE reserved == Reserved(reason, errors)
           keys == reserved \cup UNION {DOMAIN a : a \in annotations}
           context == [k \in keys |-> IF k \notin reserved THEN Only(annotations)[k]
                                      ELSE IF k = "reason" THEN reason ELSE errors]
           built == BuildResponseContext(annotations, reason, errors)
<1>1. built = IF keys = {} THEN {} ELSE {context}
  BY DEF BuildResponseContext
<1>2. DOMAIN context = keys
  OBVIOUS
<1>3. /\ reason # << >> => "reason" \in reserved /\ context["reason"] = reason
      /\ errors # {} => "errors" \in reserved /\ context["errors"] = errors
  BY DEF Reserved
<1>4. ASSUME NEW a \in annotations, NEW k \in DOMAIN a \ ReservedKeys
      PROVE  context[k] = a[k]
  <2>1. Only(annotations) = a
    BY OnlyMember DEF AtMostOne
  <2>2. k \in keys /\ k \notin reserved
    BY DEF Reserved, ReservedKeys
  <2>3. QED
    BY <2>1, <2>2
<1> HIDE DEF context, built
<1>5. KeysOf(built) = keys
  BY <1>1, <1>2 DEF KeysOf
<1>6. ASSUME NEW c \in built PROVE built = {c} /\ c = context
  BY <1>1
<1>7. QED
  BY <1>2, <1>3, <1>4, <1>5, <1>6 DEF built, KeysOf
=============================================================================
