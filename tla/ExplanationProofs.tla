-------------------------- MODULE ExplanationProofs --------------------------
(***************************************************************************)
(* More about Evaluation, for any number of handlers and policy sets that  *)
(* are replaced at any moment: what an answer says of the policies that    *)
(* decided, and that the endpoint implements AtomicEvaluation.             *)
(***************************************************************************)
EXTENDS EvaluationProofs

\* The verdict at hand is that of one policy set, which was live then.
Decided(h) ==
    \E ps \in LiveSets :
        /\ decidedBy[h] = {ps}
        /\ decision[h] \in Decisions(ps, Asked(h).query)

\* The reply is the answer computed from that verdict and the explanation.
Explained(h) ==
    /\ Decided(h)
    /\ explainedBy[h] = {} \/ \E ps \in LiveSets : explainedBy[h] = {ps}
    /\ reply[h] = Answer(decision[h], explainedBy[h])

ExplanationInv(h) ==
    /\ pc[h] = "explain" => Decided(h)
    /\ pc[h] = "done" =>
         \/ decidedBy[h] = {} /\ reply[h].status # 200
         \/ Explained(h)

ExplanationsInv == \A h \in Handlers : ExplanationInv(h)

-----------------------------------------------------------------------------

\* A handler that a step leaves alone keeps its part of the invariant.
LEMMA OtherExplanation ==
    ASSUME NEW h, ExplanationInv(h), pc'[h] = pc[h], request'[h] = request[h],
           decision'[h] = decision[h], reply'[h] = reply[h],
           decidedBy'[h] = decidedBy[h], explainedBy'[h] = explainedBy[h]
    PROVE  ExplanationInv(h)'
BY DEF ExplanationInv, Decided, Explained, Asked, LiveSets

LEMMA IdleExplanation ==
    ASSUME NEW h, pc'[h] = "idle" PROVE ExplanationInv(h)'
BY DEF ExplanationInv

LEMMA ReceiveExplanation ==
    ASSUME EvaluationInv, EvaluationInv', ExplanationsInv, NEW h \in Handlers, Receive(h)
    PROVE  ExplanationsInv'
<1>1. UNCHANGED <<decision, decidedBy, explainedBy>> /\ pc[h] = "idle"
  BY DEF Receive
<1>2. PICK r \in Requests :
        /\ request' = [request EXCEPT ![h] = {r}]
        /\ \/ \E code : Send(h, Rejection(code))
           \/ pc' = [pc EXCEPT ![h] = "authorize"] /\ UNCHANGED reply
  BY DEF Receive
<1>3. ExplanationInv(h)'
  <2>1. ASSUME NEW code, Send(h, Rejection(code)) PROVE ExplanationInv(h)'
    <3>1. pc'[h] = "done" /\ reply'[h] = Rejection(code)
      BY <2>1 DEF Send, EvaluationInv, Shape
    <3>2. decidedBy'[h] = {}
      BY <1>1 DEF EvaluationInv, HandlerInv
    <3>3. QED
      BY <3>1, <3>2, RejectionStatus DEF ExplanationInv
  <2>2. CASE pc' = [pc EXCEPT ![h] = "authorize"]
    <3>1. pc'[h] = "authorize"
      BY <2>2 DEF EvaluationInv, Shape
    <3>2. QED
      BY <3>1 DEF ExplanationInv
  <2>3. QED
    BY <1>2, <2>1, <2>2
<1>4. ASSUME NEW g \in Handlers, g # h PROVE ExplanationInv(g)'
  <2>1. pc'[g] = pc[g] /\ request'[g] = request[g] /\ reply'[g] = reply[g]
    BY <1>2, <1>4 DEF EvaluationInv, Shape, Send
  <2>2. QED
    BY <1>1, <2>1, OtherExplanation DEF ExplanationsInv
<1>5. QED
  BY <1>3, <1>4 DEF ExplanationsInv

LEMMA HandleExplanation ==
    ASSUME EvaluationInv, ExplanationsInv, NEW h \in Handlers, Handle(h)
    PROVE  ExplanationsInv'
<1>1. UNCHANGED <<provider, request>>
  BY DEF Handle, Authorize, AuthorizeFails, Explain
<1>2. Asked(h)' = Asked(h) /\ LiveSets' = LiveSets
  BY <1>1 DEF Asked, LiveSets
<1>3. ExplanationInv(h)'
  <2>1. CASE Authorize(h)
    <3>1. PICK d \in Decisions(provider, Asked(h).query) :
            decision' = [decision EXCEPT ![h] = d]
      BY <2>1 DEF Authorize
    <3>2. pc'[h] = "explain" /\ decision'[h] = d /\ decidedBy'[h] = {provider}
      BY <2>1, <3>1 DEF Authorize, EvaluationInv, Shape
    <3>3. Decided(h)'
      BY <1>2, <3>1, <3>2 DEF Decided, EvaluationInv
    <3>4. QED
      BY <3>2, <3>3 DEF ExplanationInv
  <2>2. CASE AuthorizeFails(h)
    <3>1. pc[h] = "authorize" /\ UNCHANGED decidedBy
      BY <2>2 DEF AuthorizeFails
    <3>2. /\ pc'[h] = "done"
          /\ reply'[h] = [NoReply EXCEPT !.status = 500, !.code = "evaluation_failed"]
      BY <2>2 DEF AuthorizeFails, Send, EvaluationInv, Shape
    <3>3. reply'[h].status = 500
      BY <3>2 DEF NoReply
    <3>4. decidedBy'[h] = {}
      BY <3>1 DEF EvaluationInv, HandlerInv
    <3>5. QED
      BY <3>2, <3>3, <3>4 DEF ExplanationInv
  <2>3. CASE Explain(h)
    <3>1. PICK sets \in {{provider}} \cup (IF ProviderErrors THEN {{}} ELSE {}) :
            /\ explainedBy' = [explainedBy EXCEPT ![h] = sets]
            /\ Send(h, Answer(decision[h], sets))
      BY <2>3 DEF Explain
    <3>2. /\ pc[h] = "explain" /\ pc'[h] = "done"
          /\ UNCHANGED <<decision, decidedBy>>
          /\ explainedBy'[h] = sets /\ reply'[h] = Answer(decision[h], sets)
      BY <2>3, <3>1 DEF Explain, Send, EvaluationInv, Shape
    <3>3. sets = {} \/ sets = {provider}
      BY <3>1
    <3>4. Decided(h)'
      BY <1>2, <3>2 DEF ExplanationsInv, ExplanationInv, Decided
    <3>5. Explained(h)'
      BY <1>2, <3>2, <3>3, <3>4 DEF Explained, EvaluationInv
    <3>6. QED
      BY <3>2, <3>5 DEF ExplanationInv
  <2>4. QED
    BY <2>1, <2>2, <2>3 DEF Handle
<1>4. ASSUME NEW g \in Handlers, g # h PROVE ExplanationInv(g)'
  <2>1. /\ pc'[g] = pc[g] /\ request'[g] = request[g] /\ reply'[g] = reply[g]
        /\ decision'[g] = decision[g] /\ decidedBy'[g] = decidedBy[g]
        /\ explainedBy'[g] = explainedBy[g]
    BY <1>4 DEF EvaluationInv, Shape, Handle, Authorize, AuthorizeFails,
                Explain, Send
  <2>2. QED
    BY <2>1, OtherExplanation DEF ExplanationsInv
<1>5. QED
  BY <1>3, <1>4 DEF ExplanationsInv

LEMMA ExplanationNext ==
    EvaluationInv /\ EvaluationInv' /\ ExplanationsInv /\ [Next]_vars => ExplanationsInv'
<1> SUFFICES ASSUME EvaluationInv, EvaluationInv', ExplanationsInv, [Next]_vars
             PROVE  ExplanationsInv'
  OBVIOUS
<1>1. ASSUME NEW h \in Handlers, Release(h) PROVE ExplanationsInv'
  <2>1. pc'[h] = "idle"
    BY <1>1 DEF Release, EvaluationInv, Shape
  <2>2. ASSUME NEW g \in Handlers, g # h PROVE ExplanationInv(g)'
    <3>1. /\ pc'[g] = pc[g] /\ request'[g] = request[g] /\ reply'[g] = reply[g]
          /\ decision'[g] = decision[g] /\ decidedBy'[g] = decidedBy[g]
          /\ explainedBy'[g] = explainedBy[g]
      BY <1>1, <2>2 DEF Release, EvaluationInv, Shape
    <3>2. QED
      BY <3>1, OtherExplanation DEF ExplanationsInv
  <2>3. QED
    BY <2>1, <2>2, IdleExplanation DEF ExplanationsInv
<1>2. CASE Replace \/ UNCHANGED vars
  BY <1>2, OtherExplanation DEF Replace, vars, handler, ExplanationsInv
<1>3. CASE Restart
  BY <1>3, IdleExplanation DEF Restart, ExplanationsInv
<1>4. QED
  BY <1>1, <1>2, <1>3, ReceiveExplanation, HandleExplanation DEF Next

LEMMA ExplanationInvariant == Spec => [](EvaluationInv /\ ExplanationsInv)
<1>1. Init => ExplanationsInv
  BY DEF Init, ExplanationsInv, ExplanationInv
<1>2. QED
  BY <1>1, ExplanationNext, EvaluationInvariant, PTL DEF Spec

-----------------------------------------------------------------------------
(* What an answer tells of the verdict it was computed from.               *)

LEMMA LiveSetsType ==
    ASSUME NEW ps \in LiveSets
    PROVE  IsPolicySet(ps) /\ ValidDecisionContexts(ps)
BY PolicySetsAssumption DEF LiveSets, ValidAnnotations

LEMMA DecisionFields ==
    ASSUME NEW ps \in LiveSets, NEW q, NEW d \in Decisions(ps, q)
    PROVE  /\ IsFiniteSet(Determining(ps, q)) /\ Determining(ps, q) \subseteq Nat
           /\ Determining(ps, q) \subseteq DOMAIN ps
           /\ d.reason \in Orders(Determining(ps, q))
           /\ d.allow = Allows(ps, q)
           /\ d.errors = Failing(ps, q)
           /\ DOMAIN d.reason = 1..Cardinality(Determining(ps, q))
           /\ DOMAIN d.reason \subseteq Nat
<1>1. PICK order \in Orders(Determining(ps, q)) :
        d = [allow |-> Allows(ps, q), reason |-> order, errors |-> Failing(ps, q)]
  BY DEF Decisions
<1>2. d.reason = order /\ d.errors = Failing(ps, q)
  BY <1>1
<1>3. d.allow = Allows(ps, q)
  BY <1>1 DEF Allows
<1>4. Determining(ps, q) \in SUBSET DOMAIN ps
  BY DEF Determining, Matching
<1>5. IsFiniteSet(Determining(ps, q)) /\ Determining(ps, q) \subseteq Nat
  BY <1>4, LiveSetsType, FS_Subset DEF IsPolicySet
<1>6. DOMAIN order = 1..Cardinality(Determining(ps, q))
  BY <1>5, OrderIsBijection
<1>7. QED
  BY <1>1, <1>2, <1>3, <1>4, <1>5, <1>6

Entries(reason) == {reason[k] : k \in DOMAIN reason}
Names(sets, ids) == {ShownBy(sets, id) : id \in ids}

\* The reason has one entry per determining policy, by the names at hand.
LEMMA ReasonTells ==
    ASSUME NEW ps \in LiveSets, NEW q, NEW d \in Decisions(ps, q),
           NEW sets, sets = {} \/ \E other \in LiveSets : sets = {other}
    PROVE  LET reason == ResolveReason(d.reason, sets)
           IN  /\ Len(reason) = Cardinality(Determining(ps, q))
               /\ reason = << >> <=> Determining(ps, q) = {}
               /\ Entries(reason) = Names(sets, Determining(ps, q))
<1> DEFINE S == Determining(ps, q)
           n == Cardinality(S)
           ids == d.reason
           reason == ResolveReason(ids, sets)
<1>1. IsFiniteSet(S) /\ S \subseteq Nat /\ ids \in Orders(S)
  BY DecisionFields
<1>2. AtMostOne(sets) /\ \A other \in sets : IsPolicySet(other)
  BY LiveSetsType DEF AtMostOne
<1> HIDE DEF S, ids
<1>3. /\ n \in Nat /\ ids \in [1..n -> S]
      /\ \A id \in S : \E k \in 1..n : ids[k] = id
  BY <1>1, FS_CardinalityType, OrderIsBijection
<1>4. PICK f \in Bijection(1..n, 1..n) :
        /\ reason = [m \in 1..n |-> ShownBy(sets, ids[f[m]])]
        /\ \A i, j \in 1..n : i <= j =>
             ShownBy(sets, ids[f[i]]) <= ShownBy(sets, ids[f[j]])
  BY <1>1, <1>2, ReasonRearranges
<1> HIDE DEF n, reason
<1>5. /\ f \in [1..n -> 1..n]
      /\ \A k \in 1..n : \E m \in 1..n : f[m] = k
  BY <1>4 DEF Bijection, Surjection
<1>6. Len(reason) = n /\ DOMAIN reason = 1..n
  BY <1>3, <1>4
<1>7. {reason[k] : k \in DOMAIN reason} = {ShownBy(sets, id) : id \in S}
  <2>1. ASSUME NEW k \in DOMAIN reason
        PROVE  reason[k] \in {ShownBy(sets, id) : id \in S}
    BY <1>3, <1>4, <1>5, <1>6
  <2>2. ASSUME NEW id \in S
        PROVE  ShownBy(sets, id) \in {reason[k] : k \in DOMAIN reason}
    <3>1. PICK k \in 1..n : ids[k] = id
      BY <1>3
    <3>2. PICK m \in 1..n : f[m] = k
      BY <1>5
    <3>3. QED
      BY <1>4, <1>6, <3>1, <3>2
  <2>3. QED
    BY <2>1, <2>2
<1>8. reason = << >> <=> S = {}
  <2>1. n = 0 <=> S = {}
    BY <1>1, FS_EmptySet DEF n
  <2>2. QED
    BY <1>3, <1>4, <2>1
<1>9. QED
  BY <1>6, <1>7, <1>8 DEF S, n, ids, reason, Entries, Names

LEMMA AnswerTells ==
    ASSUME NEW ps \in LiveSets, NEW q, NEW d \in Decisions(ps, q),
           NEW sets, sets = {} \/ \E other \in LiveSets : sets = {other}
    PROVE  LET told == Answer(d, sets).context
               annotations == UNION {ToDecisionContext(other, d.reason) : other \in sets}
           IN  /\ KeysOf(told) \ ReservedKeys = KeysOf(annotations)
               /\ "reason" \in KeysOf(told) <=> Determining(ps, q) # {}
               /\ "errors" \in KeysOf(told) <=> Failing(ps, q) # {}
               /\ \A c \in told :
                    /\ told = {c} /\ DOMAIN c = KeysOf(told)
                    /\ "reason" \in DOMAIN c => c["reason"] = ResolveReason(d.reason, sets)
                    /\ "errors" \in DOMAIN c => c["errors"] = Failing(ps, q)
                    /\ \A a \in annotations : \A k \in DOMAIN a \ ReservedKeys : c[k] = a[k]
<1> DEFINE annotations == UNION {ToDecisionContext(other, d.reason) : other \in sets}
           reason == ResolveReason(d.reason, sets)
           told == Answer(d, sets).context
<1>1. AtMostOne(annotations) /\ KeysOf(annotations) \cap ReservedKeys = {}
  <2>1. CASE sets = {}
    BY <2>1 DEF AtMostOne, KeysOf
  <2>2. ASSUME NEW other \in LiveSets, sets = {other}
        PROVE  AtMostOne(annotations) /\ KeysOf(annotations) \cap ReservedKeys = {}
    <3>1. annotations = ToDecisionContext(other, d.reason)
      BY <2>2
    <3>2. QED
      BY <3>1, LiveSetsType, DecisionFields, AnnotationsOfWinner, AnnotationsUnreserved
  <2>3. QED
    BY <2>1, <2>2
<1>2. told = BuildResponseContext(annotations, reason, Failing(ps, q))
  BY DecisionFields DEF Answer
<1> HIDE DEF annotations, reason, told
<1>3. /\ KeysOf(told) = Reserved(reason, Failing(ps, q)) \cup KeysOf(annotations)
      /\ \A c \in told :
           /\ told = {c} /\ DOMAIN c = KeysOf(told)
           /\ reason # << >> => c["reason"] = reason
           /\ Failing(ps, q) # {} => c["errors"] = Failing(ps, q)
           /\ \A a \in annotations : \A k \in DOMAIN a \ ReservedKeys : c[k] = a[k]
  BY <1>1, <1>2, BuiltContext
<1>4. reason # << >> <=> Determining(ps, q) # {}
  BY ReasonTells DEF reason
<1>5. /\ KeysOf(told) \ ReservedKeys = KeysOf(annotations)
      /\ "reason" \in KeysOf(told) <=> reason # << >>
      /\ "errors" \in KeysOf(told) <=> Failing(ps, q) # {}
  BY <1>1, <1>3 DEF Reserved, ReservedKeys
<1>6. QED
  BY <1>3, <1>4, <1>5 DEF annotations, reason, told

\* The reasons a client reads are those computed from the verdict.
LEMMA ReasonsTold ==
    ASSUME NEW h, NEW ps \in LiveSets, NEW q, NEW d \in Decisions(ps, q),
           NEW sets, sets = {} \/ \E other \in LiveSets : sets = {other},
           reply[h] = Answer(d, sets)
    PROVE  Reasons(h) = Names(sets, Determining(ps, q))
<1> DEFINE reason == ResolveReason(d.reason, sets)
           told == Answer(d, sets).context
<1>1. Reasons(h) = UNION {{c["reason"][k] : k \in DOMAIN c["reason"]} :
                            c \in {c \in told : "reason" \in DOMAIN c}}
  BY DEF Reasons
<1>2. "reason" \in KeysOf(told) <=> Determining(ps, q) # {}
  BY AnswerTells
<1>3. \A c \in told :
        /\ told = {c} /\ DOMAIN c = KeysOf(told)
        /\ "reason" \in DOMAIN c => c["reason"] = reason
        /\ "errors" \in DOMAIN c => c["errors"] = Failing(ps, q)
  BY AnswerTells
<1>4. Entries(reason) = Names(sets, Determining(ps, q))
  BY ReasonTells
<1> HIDE DEF reason, told
<1>5. CASE Determining(ps, q) = {}
  <2>1. {c \in told : "reason" \in DOMAIN c} = {}
    BY <1>2, <1>3, <1>5
  <2>2. QED
    BY <1>1, <1>5, <2>1 DEF Names
<1>6. CASE Determining(ps, q) # {}
  <2>1. PICK c \in told : "reason" \in DOMAIN c
    BY <1>2, <1>6 DEF KeysOf
  <2>2. {e \in told : "reason" \in DOMAIN e} = {c} /\ c["reason"] = reason
    BY <1>3, <2>1
  <2>3. Reasons(h) = Entries(reason)
    BY <1>1, <2>2 DEF Entries
  <2>4. QED
    BY <1>4, <2>3
<1>7. QED
  BY <1>5, <1>6

\* A policy set that cannot be had for the explanation costs the answer its
\* names and annotation keys, never the answer.
THEOREM LookupFailureAnswers == Spec => []LookupFailureStillAnswers
<1>1. EvaluationInv /\ ExplanationsInv => LookupFailureStillAnswers
  <2> SUFFICES ASSUME EvaluationInv, ExplanationsInv, NEW h \in Handlers,
                      pc[h] = "done", decidedBy[h] # {}
               PROVE  /\ reply[h].status = 200
                      /\ explainedBy[h] = {} =>
                           /\ Keys(h) \subseteq ReservedKeys
                           /\ Reasons(h) = Determining(Only(decidedBy[h]), Asked(h).query)
    BY DEF LookupFailureStillAnswers
  <2>1. Explained(h)
    BY DEF ExplanationsInv, ExplanationInv
  <2>2. reply[h].status = 200
    BY <2>1, AnswerStatus DEF Explained
  <2>3. PICK ps \in LiveSets :
          decidedBy[h] = {ps} /\ decision[h] \in Decisions(ps, Asked(h).query)
    BY <2>1 DEF Explained, Decided
  <2>4. ASSUME explainedBy[h] = {}
        PROVE  /\ Keys(h) \subseteq ReservedKeys
               /\ Reasons(h) = Determining(ps, Asked(h).query)
    <3>1. reply[h] = Answer(decision[h], {})
      BY <2>1, <2>4 DEF Explained
    <3>2. Keys(h) = KeysOf(Answer(decision[h], {}).context)
      BY <3>1 DEF Keys, KeysOf
    <3>3. KeysOf(Answer(decision[h], {}).context) \ ReservedKeys
            = KeysOf(UNION {ToDecisionContext(other, decision[h].reason) : other \in {}})
      BY <2>3, AnswerTells
    <3>4. Keys(h) \subseteq ReservedKeys
      BY <3>2, <3>3 DEF KeysOf
    <3>5. \A id : ShownBy({}, id) = id
      BY DEF ShownBy
    <3>6. Reasons(h) = Names({}, Determining(ps, Asked(h).query))
      BY <2>3, <3>1, ReasonsTold
    <3>7. QED
      BY <3>4, <3>5, <3>6 DEF Names
  <2>5. Only(decidedBy[h]) = ps
    BY <2>3, OnlyOne
  <2>6. QED
    BY <2>2, <2>4, <2>5
<1>2. QED
  BY <1>1, ExplanationInvariant, PTL

\* Of the policies that decided, those the explaining set knows are the ones
\* its lookup finds among the listed ids.
LEMMA KnownAreFound ==
    ASSUME NEW ps \in LiveSets, NEW q, NEW d \in Decisions(ps, q), NEW by \in LiveSets
    PROVE  LET known == Determining(ps, q) \cap DOMAIN by
           IN  /\ Found(by, d.reason) = {} => known = {}
               /\ Found(by, d.reason) # {} => Winner(by, d.reason) \in known
<1> DEFINE S == Determining(ps, q)
           n == Cardinality(S)
           ids == d.reason
<1>1. IsFiniteSet(S) /\ S \subseteq Nat /\ ids \in Orders(S) /\ DOMAIN ids \subseteq Nat
  BY DecisionFields
<1> HIDE DEF S, ids
<1>2. /\ ids \in [1..n -> S]
      /\ \A id \in S : \E k \in 1..n : ids[k] = id
  BY <1>1, FS_CardinalityType, OrderIsBijection
<1>3. Found(by, ids) = {} => S \cap DOMAIN by = {}
  BY <1>2 DEF Found
<1>4. ASSUME Found(by, ids) # {}
      PROVE  Winner(by, ids) \in S \cap DOMAIN by
  <2>1. PICK k \in Found(by, ids) : Winner(by, ids) = ids[k]
    BY <1>1, <1>4, LiveSetsType, WinnerIsLeast
  <2>2. QED
    BY <1>2, <2>1 DEF Found
<1>5. QED
  BY <1>3, <1>4 DEF S, ids

\* Whether or not a replacement fell between the two looks at the provider,
\* the names and the annotation keys and values of an answer come from one
\* policy set, which names every policy that decided and takes all keys from
\* one of those it knows.
THEOREM OneSetExplains == Spec => []ExplainedByOneSet
<1>1. EvaluationInv /\ ExplanationsInv => ExplainedByOneSet
  <2> SUFFICES ASSUME EvaluationInv, ExplanationsInv, NEW h \in Handlers,
                      Answered(h), NEW by \in explainedBy[h]
               PROVE  LET deciders == Determining(Only(decidedBy[h]), Asked(h).query)
                          known == deciders \cap DOMAIN by
                      IN  /\ Reasons(h) = Shown(by, known) \cup (deciders \ known)
                          /\ \/ known = {} /\ Keys(h) \subseteq ReservedKeys
                             \/ \E id \in known :
                                  /\ Keys(h) \ ReservedKeys = DOMAIN by[id].context
                                  /\ \A c \in reply[h].context :
                                       \A k \in DOMAIN by[id].context :
                                         c[k] = by[id].context[k]
    BY DEF ExplainedByOneSet
  <2>1. Explained(h)
    BY DEF Answered, ExplanationsInv, ExplanationInv
  <2>2. PICK ps \in LiveSets :
          decidedBy[h] = {ps} /\ decision[h] \in Decisions(ps, Asked(h).query)
    BY <2>1 DEF Explained, Decided
  <2>3. by \in LiveSets /\ reply[h] = Answer(decision[h], {by})
    BY <2>1 DEF Explained
  <2> DEFINE d == decision[h]
             deciders == Determining(ps, Asked(h).query)
             known == deciders \cap DOMAIN by
             annotations == ToDecisionContext(by, d.reason)
  <2>4. Only({by}) = by /\ Only(decidedBy[h]) = ps
    BY <2>2, OnlyOne
  <2>5. Reasons(h) = Shown(by, known) \cup (deciders \ known)
    <3>1. \A id : ShownBy({by}, id) = IF id \in DOMAIN by THEN DisplayId(id, by[id]) ELSE id
      BY <2>4 DEF ShownBy
    <3>2. Reasons(h) = Names({by}, deciders)
      BY <2>2, <2>3, ReasonsTold
    <3>3. QED
      BY <3>1, <3>2 DEF Shown, Names
  <2>6. /\ Keys(h) \ ReservedKeys = KeysOf(annotations)
        /\ \A c \in reply[h].context : \A a \in annotations :
             \A k \in DOMAIN a \ ReservedKeys : c[k] = a[k]
    <3>1. annotations = UNION {ToDecisionContext(other, d.reason) : other \in {by}}
      OBVIOUS
    <3>2. Keys(h) = KeysOf(Answer(d, {by}).context)
      BY <2>3 DEF Keys, KeysOf
    <3> HIDE DEF annotations
    <3>3. QED
      BY <2>2, <2>3, <3>1, <3>2, AnswerTells
  <2>7. CASE Found(by, d.reason) = {}
    <3>1. known = {}
      BY <2>2, <2>3, <2>7, KnownAreFound
    <3>2. KeysOf(annotations) = {}
      BY <2>7, AnnotationsOfWinner DEF KeysOf
    <3>3. QED
      BY <2>4, <2>5, <2>6, <3>1, <3>2
  <2>8. CASE Found(by, d.reason) # {}
    <3> DEFINE id == Winner(by, d.reason)
    <3>1. id \in known
      BY <2>2, <2>3, <2>8, KnownAreFound
    <3>2. DOMAIN by[id].context \cap (ReservedKeys \cup {EmptyKey}) = {}
      BY <2>3, <3>1, LiveSetsType DEF ValidDecisionContexts
    <3>3. KeysOf(annotations) = DOMAIN by[id].context
      <4>1. KeysOf(annotations) = DOMAIN by[id].context \ {EmptyKey}
        BY <2>8, AnnotationsOfWinner
      <4>2. QED
        BY <3>2, <4>1
    <3>4. \A a \in annotations : \A k \in DOMAIN a : a[k] = by[id].context[k]
      BY AnnotationsOfWinner
    <3> HIDE DEF id, annotations
    <3>5. ASSUME NEW c \in reply[h].context, NEW k \in DOMAIN by[id].context
          PROVE  c[k] = by[id].context[k]
      <4>1. PICK a \in annotations : k \in DOMAIN a
        BY <3>3 DEF KeysOf
      <4>2. QED
        BY <2>6, <3>2, <3>4, <4>1
    <3>6. QED
      BY <2>4, <2>5, <2>6, <3>1, <3>3, <3>5
  <2>9. QED
    BY <2>7, <2>8
<1>2. QED
  BY <1>1, ExplanationInvariant, PTL
=============================================================================
