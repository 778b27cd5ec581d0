--------------------------- MODULE AtomicityProofs ---------------------------
(***************************************************************************)
(* Evaluation implements AtomicEvaluation, for any number of handlers and  *)
(* policy sets: every step of a handler is a step of the abstract endpoint *)
(* or changes nothing there, and replies keep to the verdict.              *)
(***************************************************************************)
EXTENDS ExplanationProofs

stageBar == [h \in Handlers |-> StageOf(h)]
verdictBar == [h \in Handlers |-> VerdictOf(h)]

\* The abstract endpoint decides as Cedar does.
LEMMA SameCedar ==
    ASSUME NEW ps, NEW q
    PROVE  /\ Atomic!Allows(ps, q) = Allows(ps, q)
           /\ Atomic!Determining(ps, q) = Determining(ps, q)
           /\ Atomic!Failing(ps, q) = Failing(ps, q)
<1>1. \A effect : Atomic!Matching(ps, q, effect) = Matching(ps, q, effect)
  BY DEF Atomic!Matching, Matching
<1>2. Atomic!Allows(ps, q) = Allows(ps, q)
  BY <1>1 DEF Atomic!Allows, Allows
<1>3. Atomic!Determining(ps, q) = Determining(ps, q)
  BY <1>1 DEF Atomic!Determining, Determining
<1>4. QED
  BY <1>2, <1>3 DEF Atomic!Failing, Failing

LEMMA SameCardinality == \A S : Atomic!Cardinality(S) = Cardinality(S)
BY DEF Atomic!Cardinality, Cardinality

LEMMA AnswerAllows == \A d, sets : Answer(d, sets).allow = d.allow
BY DEF Answer

LEMMA ReasonLength ==
    ASSUME NEW ps \in LiveSets, NEW q, NEW d \in Decisions(ps, q)
    PROVE  Len(d.reason) = Cardinality(Determining(ps, q))
<1>1. IsFiniteSet(Determining(ps, q)) /\ d.reason \in Orders(Determining(ps, q))
  BY DecisionFields
<1>2. /\ Cardinality(Determining(ps, q)) \in Nat
      /\ d.reason \in [1..Cardinality(Determining(ps, q)) -> Determining(ps, q)]
  BY <1>1, FS_CardinalityType, OrderIsBijection
<1>3. QED
  BY <1>2

\* What the authorizer said is the verdict of the policy set that decided.
LEMMA OutcomeIsVerdict ==
    ASSUME NEW ps \in LiveSets, NEW q, NEW d \in Decisions(ps, q)
    PROVE  Outcome(d) = Atomic!Verdict(ps, q)
<1>1. Len(d.reason) = Cardinality(Determining(ps, q))
  BY ReasonLength
<1>2. d.allow = Atomic!Allows(ps, q) /\ d.errors = Atomic!Failing(ps, q)
  BY DecisionFields, SameCedar
<1>3. Atomic!Cardinality(Atomic!Determining(ps, q)) = Cardinality(Determining(ps, q))
  BY SameCedar, SameCardinality
<1>4. QED
  BY <1>1, <1>2, <1>3 DEF Outcome, Atomic!Verdict

\* The reply tells what the authorizer said, whichever policy set, if any, was
\* at hand to explain it.
RepliesKept == \A h \in Handlers : Explained(h) => Told(h) = Outcome(decision[h])

LEMMA ReplyKeepsVerdict ==
    ASSUME NEW h, Explained(h)
    PROVE  Told(h) = Outcome(decision[h])
<1>1. PICK ps \in LiveSets :
        decidedBy[h] = {ps} /\ decision[h] \in Decisions(ps, Asked(h).query)
  BY DEF Explained, Decided
<1> DEFINE d == decision[h]
           q == Asked(h).query
           sets == explainedBy[h]
           told == Answer(d, sets).context
           reason == ResolveReason(d.reason, sets)
<1>2. /\ sets = {} \/ \E other \in LiveSets : sets = {other}
      /\ reply[h] = Answer(d, sets)
  BY DEF Explained
<1>3. /\ "reason" \in KeysOf(told) <=> Determining(ps, q) # {}
      /\ "errors" \in KeysOf(told) <=> Failing(ps, q) # {}
      /\ \A c \in told :
           /\ told = {c} /\ DOMAIN c = KeysOf(told)
           /\ "reason" \in DOMAIN c => c["reason"] = reason
           /\ "errors" \in DOMAIN c => c["errors"] = Failing(ps, q)
  BY <1>1, <1>2, AnswerTells
<1>4. /\ Len(reason) = Cardinality(Determining(ps, q))
      /\ reason = << >> <=> Determining(ps, q) = {}
      /\ Entries(reason) = Names(sets, Determining(ps, q))
  BY <1>1, <1>2, ReasonTells
<1>5. d.errors = Failing(ps, q) /\ IsFiniteSet(Determining(ps, q))
  BY <1>1, DecisionFields
<1>6. Len(d.reason) = Cardinality(Determining(ps, q))
  BY <1>1, ReasonLength
<1>7. Keys(h) = KeysOf(told) /\ reply[h].context = told
  BY <1>2 DEF Keys, KeysOf
<1>8. reply[h].allow = d.allow
  BY <1>2, AnswerAllows
<1> HIDE DEF d, q, sets, told, reason
<1>9. (IF "reason" \in Keys(h) THEN Len(Only(reply[h].context)["reason"]) ELSE 0)
        = Len(d.reason)
  <2>1. CASE "reason" \in Keys(h)
    <3>1. PICK c \in told : "reason" \in DOMAIN c
      BY <1>7, <2>1 DEF KeysOf
    <3>2. Only(told) = c /\ c["reason"] = reason
      BY <1>3, <3>1, OnlyOne
    <3>3. QED
      BY <1>4, <1>6, <1>7, <2>1, <3>2
  <2>2. CASE "reason" \notin Keys(h)
    BY <1>3, <1>6, <1>7, <2>2, FS_EmptySet
  <2>3. QED
    BY <2>1, <2>2
<1>10. (IF "errors" \in Keys(h) THEN Only(reply[h].context)["errors"] ELSE {})
         = d.errors
  <2>1. CASE "errors" \in Keys(h)
    <3>1. PICK c \in told : "errors" \in DOMAIN c
      BY <1>7, <2>1 DEF KeysOf
    <3>2. Only(told) = c /\ c["errors"] = Failing(ps, q)
      BY <1>3, <3>1, OnlyOne
    <3>3. QED
      BY <1>5, <1>7, <2>1, <3>2
  <2>2. CASE "errors" \notin Keys(h)
    BY <1>3, <1>5, <1>7, <2>2
  <2>3. QED
    BY <2>1, <2>2
<1>11. QED
  BY <1>8, <1>9, <1>10 DEF Told, Outcome, d

LEMMA EveryReplyKept == RepliesKept
BY ReplyKeepsVerdict DEF RepliesKept

-----------------------------------------------------------------------------
(* The simulation, step by step.                                           *)

\* A step of one handler changes what the abstract endpoint sees of that
\* handler and nothing else.
LEMMA OneHandlerMoves ==
    ASSUME NEW h \in Handlers,
           \A g \in Handlers \ {h} :
              pc'[g] = pc[g] /\ reply'[g] = reply[g] /\ decision'[g] = decision[g]
    PROVE  /\ stageBar' = [stageBar EXCEPT ![h] = StageOf(h)']
           /\ verdictBar' = [verdictBar EXCEPT ![h] = VerdictOf(h)']
<1>1. ASSUME NEW g \in Handlers \ {h}
      PROVE  StageOf(g)' = StageOf(g) /\ VerdictOf(g)' = VerdictOf(g)
  <2>1. Keys(g)' = Keys(g)
    BY DEF Keys
  <2>2. Told(g)' = Told(g)
    BY <2>1 DEF Told
  <2>3. Answered(g)' <=> Answered(g)
    BY DEF Answered
  <2>4. StageOf(g)' = StageOf(g)
    BY DEF StageOf
  <2>5. VerdictOf(g)' = VerdictOf(g)
    BY <2>2, <2>3 DEF VerdictOf
  <2>6. QED
    BY <2>4, <2>5
<1>2. stageBar' = [stageBar EXCEPT ![h] = StageOf(h)']
  BY <1>1 DEF stageBar
<1>3. verdictBar' = [verdictBar EXCEPT ![h] = VerdictOf(h)']
  BY <1>1 DEF verdictBar
<1>4. QED
  BY <1>2, <1>3

LEMMA AtomicInit == Init => Atomic!Init
<1> SUFFICES ASSUME Init PROVE Atomic!Init
  OBVIOUS
<1>1. \A h \in Handlers : StageOf(h) = "idle" /\ VerdictOf(h) = {}
  BY DEF Init, StageOf, VerdictOf, Answered
<1>2. QED
  BY <1>1 DEF Init, Atomic!Init

LEMMA ReceiveAsks ==
    ASSUME EvaluationInv, EvaluationInv', NEW h \in Handlers, Receive(h)
    PROVE  Atomic!Ask(h)
<1>1. PICK r \in Requests :
        /\ request' = [request EXCEPT ![h] = {r}]
        /\ \/ r.body = "malformed" /\ Send(h, Rejection("invalid_json"))
           \/ /\ r.body = "ok" /\ ConversionError(r) # ""
              /\ Send(h, Rejection(ConversionError(r)))
           \/ /\ r.body = "ok" /\ ConversionError(r) = ""
              /\ pc' = [pc EXCEPT ![h] = "authorize"]
              /\ UNCHANGED reply
  BY DEF Receive
<1>2. UNCHANGED <<provider, decision, decidedBy>> /\ pc[h] = "idle"
  BY DEF Receive
<1>3. request'[h] = {r}
  BY <1>1 DEF EvaluationInv, Shape
<1>4. Asked(h)' = r
  BY <1>3, OnlyOne DEF Asked
<1>5. pc'[h] = "authorize" \/ (pc'[h] = "done" /\ reply'[h].status = 400)
  <2>1. ASSUME NEW code, Send(h, Rejection(code))
        PROVE  pc'[h] = "done" /\ reply'[h].status = 400
    <3>1. pc'[h] = "done" /\ reply'[h] = Rejection(code)
      BY <2>1 DEF Send, EvaluationInv, Shape
    <3>2. QED
      BY <3>1, RejectionStatus
  <2>2. CASE pc' = [pc EXCEPT ![h] = "authorize"]
    BY <2>2 DEF EvaluationInv, Shape
  <2>3. QED
    BY <1>1, <2>1, <2>2
<1>6. StageOf(h)' = IF Defective(r) THEN "refused" ELSE "waiting"
  BY <1>4, <1>5 DEF StageOf, EvaluationInv, HandlerInv
<1>7. VerdictOf(h)' = {} /\ VerdictOf(h) = {} /\ StageOf(h) = "idle"
  BY <1>2, <1>5 DEF VerdictOf, StageOf, Answered
<1>8. \A g \in Handlers \ {h} :
        pc'[g] = pc[g] /\ reply'[g] = reply[g] /\ decision'[g] = decision[g]
  BY <1>1, <1>2 DEF EvaluationInv, Shape, Send
<1>9. /\ stageBar' = [stageBar EXCEPT ![h] = IF r \in {q \in Requests : Defective(q)}
                                            THEN "refused" ELSE "waiting"]
      /\ verdictBar' = verdictBar
  BY <1>6, <1>7, <1>8, OneHandlerMoves DEF stageBar, verdictBar
<1>10. stageBar[h] = "idle"
  BY <1>7 DEF stageBar
<1>11. QED
  BY <1>1, <1>2, <1>9, <1>10 DEF Atomic!Ask, stageBar, verdictBar

LEMMA AuthorizeDecides ==
    ASSUME EvaluationInv, NEW h \in Handlers, Authorize(h)
    PROVE  Atomic!Decide(h)
<1>1. PICK d \in Decisions(provider, Asked(h).query) :
        decision' = [decision EXCEPT ![h] = d]
  BY DEF Authorize
<1>2. /\ pc[h] = "authorize" /\ pc'[h] = "explain" /\ decision'[h] = d
      /\ UNCHANGED <<provider, request, reply>>
  BY <1>1 DEF Authorize, EvaluationInv, Shape
<1>3. VerdictOf(h)' = {Atomic!Verdict(provider, Asked(h).query)}
  BY <1>1, <1>2, OutcomeIsVerdict DEF VerdictOf, Outcome, EvaluationInv
<1>4. StageOf(h) = "waiting" /\ StageOf(h)' = "decided"
  BY <1>2 DEF StageOf
<1>5. \A g \in Handlers \ {h} :
        pc'[g] = pc[g] /\ reply'[g] = reply[g] /\ decision'[g] = decision[g]
  BY DEF EvaluationInv, Shape, Authorize
<1>6. /\ stageBar' = [stageBar EXCEPT ![h] = "decided"]
      /\ verdictBar' = [verdictBar EXCEPT ![h] = {Atomic!Verdict(provider, Asked(h).query)}]
  BY <1>3, <1>4, <1>5, OneHandlerMoves
<1>7. stageBar[h] = "waiting"
  BY <1>4 DEF stageBar
<1>8. Asked(h) = Atomic!Only(request[h])
  BY DEF Asked, Only, Atomic!Only
<1>9. QED
  BY <1>2, <1>6, <1>7, <1>8 DEF Atomic!Decide, stageBar, verdictBar

LEMMA AuthorizeFailsFails ==
    ASSUME EvaluationInv, NEW h \in Handlers, AuthorizeFails(h)
    PROVE  Atomic!Fail(h)
<1>1. /\ ProviderErrors /\ pc[h] = "authorize"
      /\ pc'[h] = "done"
      /\ reply'[h] = [NoReply EXCEPT !.status = 500, !.code = "evaluation_failed"]
      /\ UNCHANGED <<provider, request, decision>>
  BY DEF AuthorizeFails, Send, EvaluationInv, Shape
<1>a. reply'[h].status = 500
  BY <1>1 DEF NoReply
<1>2. StageOf(h) = "waiting" /\ StageOf(h)' = "failed"
  BY <1>1, <1>a DEF StageOf
<1>3. VerdictOf(h) = {} /\ VerdictOf(h)' = {}
  BY <1>1, <1>a DEF VerdictOf, Answered
<1>4. \A g \in Handlers \ {h} :
        pc'[g] = pc[g] /\ reply'[g] = reply[g] /\ decision'[g] = decision[g]
  BY DEF EvaluationInv, Shape, AuthorizeFails, Send
<1>5. /\ stageBar' = [stageBar EXCEPT ![h] = "failed"]
      /\ verdictBar' = verdictBar
  BY <1>2, <1>3, <1>4, OneHandlerMoves DEF verdictBar
<1>6. stageBar[h] = "waiting"
  BY <1>2 DEF stageBar
<1>7. QED
  BY <1>1, <1>5, <1>6 DEF Atomic!Fail, stageBar, verdictBar

LEMMA ExplainAnswers ==
    ASSUME EvaluationInv, ExplanationsInv, ExplanationsInv',
           NEW h \in Handlers, Explain(h)
    PROVE  Atomic!Answer(h)
<1>1. /\ pc[h] = "explain" /\ pc'[h] = "done" /\ reply'[h].status = 200
      /\ UNCHANGED <<provider, request, decision, decidedBy>>
  BY AnswerStatus DEF Explain, Send, EvaluationInv, Shape
<1>2. StageOf(h) = "decided" /\ StageOf(h)' = "answered"
  BY <1>1 DEF StageOf
<1>3. VerdictOf(h)' = VerdictOf(h)
  <2>1. VerdictOf(h) = {Outcome(decision[h])}
    BY <1>1 DEF VerdictOf
  <2>2. Explained(h)'
    BY <1>1 DEF ExplanationsInv, ExplanationInv
  <2>3. Told(h)' = Outcome(decision[h])'
    <3>1. RepliesKept'
      BY EveryReplyKept, PTL
    <3>2. QED
      BY <2>2, <3>1 DEF RepliesKept
  <2>4. Outcome(decision[h])' = Outcome(decision[h])
    BY <1>1 DEF Outcome
  <2>5. VerdictOf(h)' = {Told(h)'}
    BY <1>1 DEF VerdictOf, Answered
  <2>6. QED
    BY <2>1, <2>3, <2>4, <2>5
<1>4. \A g \in Handlers \ {h} :
        pc'[g] = pc[g] /\ reply'[g] = reply[g] /\ decision'[g] = decision[g]
  BY DEF EvaluationInv, Shape, Explain, Send
<1>5. /\ stageBar' = [stageBar EXCEPT ![h] = "answered"]
      /\ verdictBar' = verdictBar
  BY <1>2, <1>3, <1>4, OneHandlerMoves DEF verdictBar
<1>6. stageBar[h] = "decided"
  BY <1>2 DEF stageBar
<1>7. QED
  BY <1>1, <1>5, <1>6 DEF Atomic!Answer, stageBar, verdictBar

LEMMA ReleaseForgets ==
    ASSUME EvaluationInv, NEW h \in Handlers, Release(h)
    PROVE  Atomic!Forget(h)
<1>1. pc'[h] = "idle" /\ UNCHANGED provider
  BY DEF Release, EvaluationInv, Shape
<1>2. StageOf(h)' = "idle" /\ VerdictOf(h)' = {}
  BY <1>1 DEF StageOf, VerdictOf, Answered
<1>3. \A g \in Handlers \ {h} :
        pc'[g] = pc[g] /\ reply'[g] = reply[g] /\ decision'[g] = decision[g]
  BY DEF EvaluationInv, Shape, Release
<1>4. /\ stageBar' = [stageBar EXCEPT ![h] = "idle"]
      /\ verdictBar' = [verdictBar EXCEPT ![h] = {}]
  BY <1>2, <1>3, OneHandlerMoves
<1>5. QED
  BY <1>1, <1>4 DEF Release, Atomic!Forget, stageBar, verdictBar

LEMMA HandlersRest ==
    ASSUME UNCHANGED <<pc, reply, decision>>
    PROVE  stageBar' = stageBar /\ verdictBar' = verdictBar
<1>1. ASSUME NEW h \in Handlers
      PROVE  StageOf(h)' = StageOf(h) /\ VerdictOf(h)' = VerdictOf(h)
  BY DEF StageOf, VerdictOf, Answered, Told, Keys
<1>2. QED
  BY <1>1 DEF stageBar, verdictBar

LEMMA AtomicNext ==
    ASSUME EvaluationInv, EvaluationInv', ExplanationsInv, ExplanationsInv', [Next]_vars
    PROVE  [Atomic!Next]_(Atomic!vars)
<1>1. ASSUME NEW h \in Handlers, Receive(h) \/ Handle(h) \/ Release(h)
      PROVE  Atomic!Next
  BY <1>1, ReceiveAsks, AuthorizeDecides, AuthorizeFailsFails, ExplainAnswers,
     ReleaseForgets DEF Handle, Atomic!Next
<1>2. CASE Replace
  <2>1. provider' \in LiveSets /\ UNCHANGED request
    BY <1>2 DEF Replace, handler
  <2>2. stageBar' = stageBar /\ verdictBar' = verdictBar
    BY <1>2, HandlersRest DEF Replace, handler
  <2>3. Atomic!Replace
    BY <2>1, <2>2 DEF Atomic!Replace, stageBar, verdictBar
  <2>4. QED
    BY <2>3 DEF Atomic!Next
<1>3. CASE Restart
  <2>1. \A h \in Handlers : StageOf(h)' = "idle" /\ VerdictOf(h)' = {}
    BY <1>3 DEF Restart, StageOf, VerdictOf, Answered
  <2>2. Atomic!Restart
    BY <1>3, <2>1 DEF Restart, Atomic!Restart
  <2>3. QED
    BY <2>2 DEF Atomic!Next
<1>4. CASE UNCHANGED vars
  <2>1. stageBar' = stageBar /\ verdictBar' = verdictBar
    BY <1>4, HandlersRest DEF vars, handler
  <2>2. QED
    BY <1>4, <2>1 DEF vars, handler, Atomic!vars, stageBar, verdictBar
<1>5. QED
  BY <1>1, <1>2, <1>3, <1>4 DEF Next

\* A request is refused, or decided at one instant by the policy set live then,
\* and the reply keeps to that verdict however often policy sets are replaced
\* before it is sent.
THEOREM EvaluationIsAtomic == Spec => ImplementsAtomicEvaluation
<1>1. QED
  BY AtomicInit, AtomicNext, ExplanationInvariant, PTL
     DEF Spec, ImplementsAtomicEvaluation, Atomic!Spec
=============================================================================
