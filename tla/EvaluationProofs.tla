-------------------------- MODULE EvaluationProofs --------------------------
(***************************************************************************)
(* Proofs about Evaluation, for any number of handlers, any requests and   *)
(* policy sets, and policy sets replaced at any moment: types, and that    *)
(* the answer 400 is for the defective requests exactly.                   *)
(***************************************************************************)
EXTENDS Evaluation, PoliciesProofs

\* What is known of a handler at each of its places.
HandlerInv(h) ==
    /\ pc[h] \in {"idle", "authorize", "explain", "done"}
    /\ pc[h] = "idle" => request[h] = {}
    /\ pc[h] # "idle" => \E r \in Requests : request[h] = {r}
    /\ decision[h].allow \in BOOLEAN
    /\ pc[h] # "done" => reply[h].status = 0
    /\ pc[h] = "done" => reply[h].status \in {200, 400, 500}
    /\ pc[h] \in {"idle", "authorize"} => decidedBy[h] = {}
    /\ pc[h] \in {"authorize", "explain"} => ~Defective(Asked(h))
    /\ pc[h] = "done" =>
         (reply[h].status = 400 <=> Defective(Asked(h)))
    /\ pc[h] = "done" /\ Defective(Asked(h)) => decidedBy[h] = {}

\* Each variable holds a value per handler, and nothing else.
Shape ==
    /\ pc = [h \in Handlers |-> pc[h]]
    /\ request = [h \in Handlers |-> request[h]]
    /\ decision = [h \in Handlers |-> decision[h]]
    /\ reply = [h \in Handlers |-> reply[h]]
    /\ decidedBy = [h \in Handlers |-> decidedBy[h]]
    /\ explainedBy = [h \in Handlers |-> explainedBy[h]]

EvaluationInv ==
    /\ provider \in LiveSets
    /\ Shape
    /\ \A h \in Handlers : HandlerInv(h)

-----------------------------------------------------------------------------

\* A request that is no defective one is exactly what to_cedar lets pass.
LEMMA ConversionFindsDefects ==
    ASSUME NEW r \in Requests
    PROVE  Defective(r) <=> (r.body = "malformed" \/ ConversionError(r) # "")
BY RequestsAssumption DEF Defective, ConversionError

LEMMA RejectionStatus == \A code : Rejection(code).status = 400
BY DEF Rejection, NoReply

LEMMA NobodyAllows == Nobody.allow = FALSE
BY DEF Nobody

LEMMA NoReplyStatus == NoReply.status = 0
BY DEF NoReply

LEMMA AnswerStatus == \A d, sets : Answer(d, sets).status = 200
BY DEF Answer

LEMMA DecisionsAllow ==
    ASSUME NEW ps, NEW q, NEW d \in Decisions(ps, q)
    PROVE  d.allow \in BOOLEAN
<1>1. PICK order \in Orders(Determining(ps, q)) :
        d = [allow |-> Allows(ps, q), reason |-> order, errors |-> Failing(ps, q)]
  BY DEF Decisions
<1>2. QED
  BY <1>1 DEF Allows

-----------------------------------------------------------------------------

\* A handler with nothing to its name satisfies its part of the invariant.
LEMMA IdleHandler ==
    ASSUME NEW h, pc'[h] = "idle", request'[h] = {}, decision'[h] = Nobody,
           reply'[h] = NoReply, decidedBy'[h] = {}
    PROVE  HandlerInv(h)'
<1>1. decision'[h].allow \in BOOLEAN
  BY NobodyAllows
<1>2. reply'[h].status = 0
  BY NoReplyStatus
<1>3. QED
  BY <1>1, <1>2 DEF HandlerInv

\* A handler that a step leaves alone keeps its part of the invariant.
LEMMA OtherHandler ==
    ASSUME NEW h, HandlerInv(h), pc'[h] = pc[h], request'[h] = request[h],
           decision'[h] = decision[h], reply'[h] = reply[h],
           decidedBy'[h] = decidedBy[h]
    PROVE  HandlerInv(h)'
BY DEF HandlerInv, Asked

LEMMA EvaluationInit == Init => EvaluationInv
<1> SUFFICES ASSUME Init PROVE EvaluationInv
  OBVIOUS
<1>1. ASSUME NEW h \in Handlers PROVE HandlerInv(h)
  <2>1. decision[h].allow \in BOOLEAN
    BY NobodyAllows DEF Init
  <2>2. reply[h].status = 0
    BY NoReplyStatus DEF Init
  <2>3. pc[h] = "idle" /\ request[h] = {} /\ decidedBy[h] = {}
    BY DEF Init
  <2>4. QED
    BY <2>1, <2>2, <2>3 DEF HandlerInv
<1>2. Shape
  BY DEF Init, Shape
<1>3. QED
  BY <1>1, <1>2 DEF Init, EvaluationInv

LEMMA ReceiveKeeps ==
    ASSUME EvaluationInv, NEW h \in Handlers, Receive(h)
    PROVE  EvaluationInv'
<1>1. PICK r \in Requests :
        /\ request' = [request EXCEPT ![h] = {r}]
        /\ \/ r.body = "malformed" /\ Send(h, Rejection("invalid_json"))
           \/ /\ r.body = "ok" /\ ConversionError(r) # ""
              /\ Send(h, Rejection(ConversionError(r)))
           \/ /\ r.body = "ok" /\ ConversionError(r) = ""
              /\ pc' = [pc EXCEPT ![h] = "authorize"]
              /\ UNCHANGED reply
  BY DEF Receive
<1>2. UNCHANGED <<provider, decision, decidedBy, explainedBy>> /\ pc[h] = "idle"
  BY DEF Receive
<1>3. Shape'
  BY <1>1, <1>2 DEF EvaluationInv, Shape, Send
<1>4. request'[h] = {r}
  BY <1>1 DEF EvaluationInv, Shape
<1>5. Asked(h)' = r
  BY <1>4, OnlyOne DEF Asked
<1>6. \/ Defective(r) /\ pc'[h] = "done" /\ reply'[h].status = 400
      \/ ~Defective(r) /\ pc'[h] = "authorize" /\ reply'[h] = reply[h]
  <2>1. ASSUME NEW code, Send(h, Rejection(code))
        PROVE  pc'[h] = "done" /\ reply'[h].status = 400
    <3>1. pc'[h] = "done" /\ reply'[h] = Rejection(code)
      BY <2>1 DEF Send, EvaluationInv, Shape
    <3>2. QED
      BY <3>1, RejectionStatus
  <2>2. CASE r.body = "malformed" /\ Send(h, Rejection("invalid_json"))
    BY <2>1, <2>2, ConversionFindsDefects
  <2>3. CASE /\ r.body = "ok" /\ ConversionError(r) # ""
             /\ Send(h, Rejection(ConversionError(r)))
    BY <2>1, <2>3, ConversionFindsDefects
  <2>4. CASE /\ r.body = "ok" /\ ConversionError(r) = ""
             /\ pc' = [pc EXCEPT ![h] = "authorize"]
             /\ UNCHANGED reply
    BY <2>4, ConversionFindsDefects DEF EvaluationInv, Shape
  <2>5. QED
    BY <1>1, <2>2, <2>3, <2>4
<1>7. HandlerInv(h)'
  BY <1>2, <1>4, <1>5, <1>6 DEF EvaluationInv, HandlerInv
<1>8. ASSUME NEW g \in Handlers, g # h PROVE HandlerInv(g)'
  <2>1. pc'[g] = pc[g] /\ request'[g] = request[g] /\ reply'[g] = reply[g]
    BY <1>1, <1>8 DEF EvaluationInv, Shape, Send
  <2>2. QED
    BY <1>2, <2>1, OtherHandler DEF EvaluationInv
<1>9. QED
  BY <1>2, <1>3, <1>7, <1>8 DEF EvaluationInv, LiveSets

LEMMA HandleKeeps ==
    ASSUME EvaluationInv, NEW h \in Handlers, Handle(h)
    PROVE  EvaluationInv'
<1>1. Shape'
  BY DEF EvaluationInv, Shape, Handle, Authorize, AuthorizeFails, Explain, Send
<1>2. UNCHANGED <<provider, request>>
  BY DEF Handle, Authorize, AuthorizeFails, Explain
<1>3. Asked(h)' = Asked(h)
  BY <1>2 DEF Asked
<1>4. HandlerInv(h)'
  <2>1. CASE Authorize(h)
    <3>1. pc[h] = "authorize" /\ pc'[h] = "explain" /\ reply' = reply
      BY <2>1 DEF Authorize, EvaluationInv, Shape
    <3>2. decision'[h].allow \in BOOLEAN
      BY <2>1, DecisionsAllow DEF Authorize, EvaluationInv, Shape
    <3>3. QED
      BY <1>2, <1>3, <3>1, <3>2 DEF EvaluationInv, HandlerInv
  <2>2. CASE AuthorizeFails(h)
    <3>1. /\ pc[h] = "authorize" /\ pc'[h] = "done" /\ reply'[h].status = 500
          /\ UNCHANGED <<decision, decidedBy>>
      BY <2>2 DEF AuthorizeFails, Send, NoReply, EvaluationInv, Shape
    <3>2. QED
      BY <1>2, <1>3, <3>1 DEF EvaluationInv, HandlerInv
  <2>3. CASE Explain(h)
    <3>1. /\ pc[h] = "explain" /\ pc'[h] = "done" /\ reply'[h].status = 200
          /\ UNCHANGED <<decision, decidedBy>>
      BY <2>3, AnswerStatus DEF Explain, Send, EvaluationInv, Shape
    <3>2. QED
      BY <1>2, <1>3, <3>1 DEF EvaluationInv, HandlerInv
  <2>4. QED
    BY <2>1, <2>2, <2>3 DEF Handle
<1>5. ASSUME NEW g \in Handlers, g # h PROVE HandlerInv(g)'
  <2>1. /\ pc'[g] = pc[g] /\ request'[g] = request[g] /\ reply'[g] = reply[g]
        /\ decision'[g] = decision[g] /\ decidedBy'[g] = decidedBy[g]
    BY <1>5 DEF EvaluationInv, Shape, Handle, Authorize, AuthorizeFails,
                Explain, Send
  <2>2. QED
    BY <2>1, OtherHandler DEF EvaluationInv
<1>6. QED
  BY <1>1, <1>2, <1>4, <1>5 DEF EvaluationInv, LiveSets

LEMMA ReleaseKeeps ==
    ASSUME EvaluationInv, NEW h \in Handlers, Release(h)
    PROVE  EvaluationInv'
<1>1. Shape'
  BY DEF EvaluationInv, Shape, Release
<1>2. HandlerInv(h)'
  <2>1. /\ pc'[h] = "idle" /\ request'[h] = {} /\ decision'[h] = Nobody
        /\ reply'[h] = NoReply /\ decidedBy'[h] = {}
    BY DEF EvaluationInv, Shape, Release
  <2>2. QED
    BY <2>1, IdleHandler
<1>3. ASSUME NEW g \in Handlers, g # h PROVE HandlerInv(g)'
  <2>1. /\ pc'[g] = pc[g] /\ request'[g] = request[g] /\ reply'[g] = reply[g]
        /\ decision'[g] = decision[g] /\ decidedBy'[g] = decidedBy[g]
    BY <1>3 DEF EvaluationInv, Shape, Release
  <2>2. QED
    BY <2>1, OtherHandler DEF EvaluationInv
<1>4. QED
  BY <1>1, <1>2, <1>3 DEF EvaluationInv, LiveSets, Release

LEMMA EvaluationNext == EvaluationInv /\ [Next]_vars => EvaluationInv'
<1> SUFFICES ASSUME EvaluationInv, [Next]_vars PROVE EvaluationInv'
  OBVIOUS
<1>1. ASSUME NEW h \in Handlers, Receive(h) \/ Handle(h) \/ Release(h)
      PROVE  EvaluationInv'
  BY <1>1, ReceiveKeeps, HandleKeeps, ReleaseKeeps
<1>2. CASE Replace
  <2>1. \A h \in Handlers : HandlerInv(h)'
    BY <1>2, OtherHandler DEF Replace, handler, EvaluationInv
  <2>2. QED
    BY <1>2, <2>1 DEF Replace, handler, EvaluationInv, Shape, LiveSets
<1>3. CASE Restart
  <2>1. \A h \in Handlers : HandlerInv(h)'
    BY <1>3, IdleHandler DEF Restart
  <2>2. QED
    BY <1>3, <2>1 DEF Restart, EvaluationInv, Shape, LiveSets
<1>4. CASE UNCHANGED vars
  <2>1. \A h \in Handlers : HandlerInv(h)'
    BY <1>4, OtherHandler DEF vars, handler, EvaluationInv
  <2>2. QED
    BY <1>4, <2>1 DEF vars, handler, EvaluationInv, Shape, LiveSets
<1>5. QED
  BY <1>1, <1>2, <1>3, <1>4 DEF Next

LEMMA EvaluationInvariant == Spec => []EvaluationInv
<1>1. QED
  BY EvaluationInit, EvaluationNext, PTL DEF Spec

\* Every variable keeps its type, whatever is replaced and whoever goes away.
THEOREM EvaluationTypes == Spec => []TypeOK
<1>1. EvaluationInv => TypeOK
  <2> SUFFICES ASSUME EvaluationInv PROVE TypeOK
    OBVIOUS
  <2>1. pc \in [Handlers -> {"idle", "authorize", "explain", "done"}]
    BY DEF EvaluationInv, Shape, HandlerInv
  <2>2. ASSUME NEW h \in Handlers
        PROVE  /\ request[h] \subseteq Requests
               /\ request[h] = {} <=> pc[h] = "idle"
               /\ decision[h].allow \in BOOLEAN
               /\ reply[h].status \in {0, 200, 400, 500}
               /\ pc[h] = "done" <=> reply[h].status # 0
    BY DEF EvaluationInv, HandlerInv
  <2>3. QED
    BY <2>1, <2>2 DEF EvaluationInv, TypeOK
<1>2. QED
  BY <1>1, EvaluationInvariant, PTL

\* DESIGN.md 8: a request is answered with 400 exactly when it is defective,
\* and a defective one is never decided, whatever policies come and go.
THEOREM RejectionsAreDefects == Spec => []OnlyDefectsAreRejected
<1>1. EvaluationInv => OnlyDefectsAreRejected
  BY DEF EvaluationInv, HandlerInv, OnlyDefectsAreRejected
<1>2. QED
  BY <1>1, EvaluationInvariant, PTL
=============================================================================
