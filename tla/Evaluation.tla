----------------------------- MODULE Evaluation -----------------------------
(***************************************************************************)
(* POST /access/v1/evaluation while policy sets are replaced underneath:   *)
(* handlers.rs, with the conversion of convert.rs and the errors of        *)
(* error.rs.  Many handlers run at once.  Each looks at the provider       *)
(* twice: is_authorized takes a snapshot and decides by it, and after that *)
(* await evaluate() asks for the policy set again to name and explain the  *)
(* policies that decided.  A replacement may fall in between, and internal *)
(* ids mean other policies in another set.                                 *)
(***************************************************************************)
EXTENDS Policies

CONSTANTS
    Handlers,       \* requests in flight
    Requests,       \* request bodies
    PolicySets,     \* policy sets that parse and match the schema
    ProviderErrors  \* whether the provider may fail to hand out its set

ASSUME PolicySetsAssumption == \A ps \in PolicySets : IsPolicySet(ps)

ASSUME ProviderAssumption == ProviderErrors \in BOOLEAN

\* What a request consists of is explained below, under Conversion.
ASSUME RequestsAssumption ==
    \A r \in Requests :
        /\ r.body \in {"ok", "malformed"}
        /\ r.types \in {"ok", "unknown", "malformed"}
        /\ r.action \in {"ok", "unknown"}
        /\ r.context \in {"absent", "missing", "ok", "bad"}
        /\ r.props \in {"ok", "bad"}
        /\ r.resource \in {"empty", "ok", "bad", "duplicate"}

VARIABLES
    provider,   \* the live policy set
    pc,         \* where each handler stands
    request,    \* the body it received, {} when there is none
    decision,   \* the authorizer's response: allow, reason, errors
    reply,      \* what it sends
    decidedBy,  \* history: the policy set that decided
    explainedBy \* history: the policy set asked for the explanation

handler == <<pc, request, decision, reply, decidedBy, explainedBy>>
vars == <<provider, handler>>

\* The request of a handler that has one.
Asked(h) == Only(request[h])

\* validate_source lets a set go live only with its annotations in order.
LiveSets == {ps \in PolicySets : ValidAnnotations(ps)}

Nobody == [allow |-> FALSE, reason |-> << >>, errors |-> {}]
NoReply == [status |-> 0, code |-> "", allow |-> FALSE, context |-> {}]

-----------------------------------------------------------------------------
(* Conversion.  A request has                                              *)
(*   body      "ok" or "malformed", as JSON of the AuthZEN shape           *)
(*   types     the entity types: "ok", "unknown" to the schema, or         *)
(*             "malformed", which no EntityTypeName can be                 *)
(*   action    "ok" or "unknown" to the schema                             *)
(*   context   "absent", "missing" (absent, and the schema requires some   *)
(*             attribute of it), "ok" or "bad"                             *)
(*   props     the subject's properties, "ok" or "bad" (absent ones are    *)
(*             checked as an empty object)                                 *)
(*   resource  the resource's properties: "empty" (then the resource is no *)
(*             entity and not checked), "ok", "bad", or "duplicate" when   *)
(*             they come with the subject's own type and id                *)
(*   query     what Cedar decides about when all of it is in order         *)

Rejection(code) == [NoReply EXCEPT !.status = 400, !.code = code]

\* Mistake: a resource given without properties escapes the request check.
ConversionErrorLenient(r) ==
    IF r.types = "malformed" THEN "invalid_entity"
    ELSE IF r.context = "bad" \/ (r.context = "ok" /\ r.action = "unknown")
         THEN "invalid_context"
    ELSE IF r.context = "missing" \/ (r.types = "unknown" /\ r.resource # "empty")
         THEN "invalid_request"
    ELSE IF r.props = "bad" \/ r.resource \in {"bad", "duplicate"}
         THEN "invalid_properties"
    ELSE ""

\* to_cedar: the first of its steps that fails names the error.  A context is
\* read by the schema of its action, so an unknown action shows up there when
\* a context is given, and in Request::new when not.
ConversionError(r) ==
    IF r.types = "malformed" THEN "invalid_entity"
    ELSE IF r.context = "bad" \/ (r.context = "ok" /\ r.action = "unknown")
         THEN "invalid_context"
    ELSE IF r.action = "unknown" \/ r.types = "unknown" \/ r.context = "missing"
         THEN "invalid_request"
    ELSE IF r.props = "bad" \/ r.resource \in {"bad", "duplicate"}
         THEN "invalid_properties"
    ELSE ""

-----------------------------------------------------------------------------

TypeOK ==
    /\ provider \in LiveSets
    /\ pc \in [Handlers -> {"idle", "authorize", "explain", "done"}]
    /\ \A h \in Handlers :
         /\ request[h] \subseteq Requests /\ (request[h] = {} <=> pc[h] = "idle")
         /\ decision[h].allow \in BOOLEAN
         /\ reply[h].status \in {0, 200, 400, 500}
         /\ pc[h] = "done" <=> reply[h].status # 0

Init ==
    /\ provider \in LiveSets
    /\ pc = [h \in Handlers |-> "idle"]
    /\ request = [h \in Handlers |-> {}]
    /\ decision = [h \in Handlers |-> Nobody]
    /\ reply = [h \in Handlers |-> NoReply]
    /\ decidedBy = [h \in Handlers |-> {}]
    /\ explainedBy = [h \in Handlers |-> {}]

Send(h, r) ==
    /\ reply' = [reply EXCEPT ![h] = r]
    /\ pc' = [pc EXCEPT ![h] = "done"]

\* parse_request and convert_request, up to the first await.
Receive(h) ==
    /\ pc[h] = "idle"
    /\ \E r \in Requests :
         /\ request' = [request EXCEPT ![h] = {r}]
         /\ \/ /\ r.body = "malformed"
               /\ Send(h, Rejection("invalid_json"))
            \/ /\ r.body = "ok"
               /\ ConversionError(r) # ""
               /\ Send(h, Rejection(ConversionError(r)))
            \/ /\ r.body = "ok"
               /\ ConversionError(r) = ""
               /\ pc' = [pc EXCEPT ![h] = "authorize"]
               /\ UNCHANGED reply
    /\ UNCHANGED <<provider, decision, decidedBy, explainedBy>>

\* What the authorizer may answer: the diagnostics list a hash set, and the
\* determining policies come in any order.
Decisions(ps, q) ==
    {[allow  |-> Allows(ps, q),
      reason |-> order,
      errors |-> Failing(ps, q)] : order \in Orders(Determining(ps, q))}

\* Mistake: the authorizer was built on a provider nobody reloads.
AuthorizeOwnProvider(h) ==
    /\ pc[h] = "authorize"
    /\ LET ps == CHOOSE ps \in LiveSets : TRUE
       IN  /\ \E d \in Decisions(ps, Asked(h).query) :
                decision' = [decision EXCEPT ![h] = d]
           /\ decidedBy' = [decidedBy EXCEPT ![h] = {ps}]
    /\ pc' = [pc EXCEPT ![h] = "explain"]
    /\ UNCHANGED <<provider, request, reply, explainedBy>>

\* is_authorized: one snapshot of the provider decides.
Authorize(h) ==
    /\ pc[h] = "authorize"
    /\ \E d \in Decisions(provider, Asked(h).query) :
         decision' = [decision EXCEPT ![h] = d]
    /\ decidedBy' = [decidedBy EXCEPT ![h] = {provider}]
    /\ pc' = [pc EXCEPT ![h] = "explain"]
    /\ UNCHANGED <<provider, request, reply, explainedBy>>

AuthorizeFails(h) ==
    /\ pc[h] = "authorize"
    /\ ProviderErrors
    /\ Send(h, [NoReply EXCEPT !.status = 500, !.code = "evaluation_failed"])
    /\ UNCHANGED <<provider, request, decision, decidedBy, explainedBy>>

\* Mistake: a denial is reported as an HTTP error.
AnswerDenyIsError(d, sets) ==
    [NoReply EXCEPT !.status = IF d.allow THEN 200 ELSE 403,
                    !.allow = d.allow]

\* What follows get_policy_set: names, context, and the response.  sets holds
\* the policy set, or nothing when the call failed.
Answer(d, sets) ==
    LET annotations == UNION {ToDecisionContext(ps, d.reason) : ps \in sets}
    IN  [status  |-> 200,
         code    |-> "",
         allow   |-> d.allow,
         context |-> BuildResponseContext(
                        annotations, ResolveReason(d.reason, sets), d.errors)]

\* Mistake: without a policy set to explain it, the answer is an error.
ExplainOrFail(h) ==
    /\ pc[h] = "explain"
    /\ \E sets \in {{provider}} \cup (IF ProviderErrors THEN {{}} ELSE {}) :
         /\ explainedBy' = [explainedBy EXCEPT ![h] = sets]
         /\ Send(h, IF sets = {}
                    THEN [NoReply EXCEPT !.status = 500]
                    ELSE Answer(decision[h], sets))
    /\ UNCHANGED <<provider, request, decision, decidedBy>>

\* Mistake: the handler waits until both looks show the same policy set.
ExplainWhenStable(h) ==
    /\ pc[h] = "explain"
    /\ decidedBy[h] = {provider}
    /\ explainedBy' = [explainedBy EXCEPT ![h] = {provider}]
    /\ Send(h, Answer(decision[h], {provider}))
    /\ UNCHANGED <<provider, request, decision, decidedBy>>

Explain(h) ==
    /\ pc[h] = "explain"
    /\ \E sets \in {{provider}} \cup (IF ProviderErrors THEN {{}} ELSE {}) :
         /\ explainedBy' = [explainedBy EXCEPT ![h] = sets]
         /\ Send(h, Answer(decision[h], sets))
    /\ UNCHANGED <<provider, request, decision, decidedBy>>

\* The connection takes another request, after an answer or because the
\* client went away and the future was dropped at one of its awaits.
Release(h) ==
    /\ pc[h] # "idle"
    /\ pc' = [pc EXCEPT ![h] = "idle"]
    /\ request' = [request EXCEPT ![h] = {}]
    /\ decision' = [decision EXCEPT ![h] = Nobody]
    /\ reply' = [reply EXCEPT ![h] = NoReply]
    /\ decidedBy' = [decidedBy EXCEPT ![h] = {}]
    /\ explainedBy' = [explainedBy EXCEPT ![h] = {}]
    /\ UNCHANGED provider

\* A reload puts another policy set live, whatever the handlers do.
Replace ==
    /\ provider' \in LiveSets \ {provider}
    /\ UNCHANGED handler

\* The process is gone, with all its connections, and another one serves.
Restart ==
    /\ provider' \in LiveSets
    /\ pc' = [h \in Handlers |-> "idle"]
    /\ request' = [h \in Handlers |-> {}]
    /\ decision' = [h \in Handlers |-> Nobody]
    /\ reply' = [h \in Handlers |-> NoReply]
    /\ decidedBy' = [h \in Handlers |-> {}]
    /\ explainedBy' = [h \in Handlers |-> {}]

Handle(h) == Authorize(h) \/ AuthorizeFails(h) \/ Explain(h)

Next ==
    \/ \E h \in Handlers : Receive(h) \/ Handle(h) \/ Release(h)
    \/ Replace \/ Restart

Spec == Init /\ [][Next]_vars

-----------------------------------------------------------------------------
(* Properties.                                                             *)

Answered(h) == pc[h] = "done" /\ reply[h].status = 200

Keys(h) == UNION {DOMAIN c : c \in reply[h].context}

\* The names a response gives as its reason.
Reasons(h) ==
    UNION {{c["reason"][k] : k \in DOMAIN c["reason"]} :
             c \in {c \in reply[h].context : "reason" \in DOMAIN c}}

Shown(ps, ids) == {DisplayId(id, ps[id]) : id \in ids}

\* An answer is explained out of one policy set, also when a replacement fell
\* between the two looks: under the ids that decided, the reasons are the names
\* that set knows them by (an id it does not know stands for itself), and the
\* other keys and values are all those of one policy it knows, or there are
\* none.  Without a replacement these are the deciders themselves.
ExplainedByOneSet ==
    \A h \in Handlers : Answered(h) =>
        \A ps \in explainedBy[h] :
            LET deciders == Determining(Only(decidedBy[h]), Asked(h).query)
                known == deciders \cap DOMAIN ps
            IN  /\ Reasons(h) = Shown(ps, known) \cup (deciders \ known)
                /\ \/ known = {} /\ Keys(h) \subseteq ReservedKeys
                   \/ \E id \in known :
                        /\ Keys(h) \ ReservedKeys = DOMAIN ps[id].context
                        /\ \A c \in reply[h].context :
                             \A k \in DOMAIN ps[id].context : c[k] = ps[id].context[k]

\* A policy set that cannot be had for the explanation costs the answer its
\* names and annotation keys, never the answer (handlers.rs:48).
LookupFailureStillAnswers ==
    \A h \in Handlers : pc[h] = "done" /\ decidedBy[h] # {} =>
        /\ reply[h].status = 200
        /\ explainedBy[h] = {} =>
             /\ Keys(h) \subseteq ReservedKeys
             /\ Reasons(h) = Determining(Only(decidedBy[h]), Asked(h).query)

\* The request breaks the AuthZEN shape or the schema in some respect.
Defective(r) ==
    \/ r.body = "malformed" \/ r.types # "ok" \/ r.action # "ok"
    \/ r.context \in {"missing", "bad"} \/ r.props = "bad"
    \/ r.resource \in {"bad", "duplicate"}

\* DESIGN.md 8: a defective request is answered with 400 and never decided; a
\* clean one never gets 400, whatever policies are live and deny it.
OnlyDefectsAreRejected ==
    \A h \in Handlers :
        /\ decidedBy[h] # {} => ~Defective(Asked(h))
        /\ pc[h] = "done" =>
             (reply[h].status = 400 <=> Defective(Asked(h)))

\* README: `reason` is the @id of every determining policy.
ReasonsNameDeciders ==
    \A h \in Handlers : Answered(h) /\ explainedBy[h] # {} =>
        LET ps == Only(decidedBy[h])
        IN  Reasons(h) = Shown(ps, Determining(ps, Asked(h).query))

\* What a client learns from an answer of the verdict behind it.
Told(h) ==
    [allow   |-> reply[h].allow,
     reasons |-> IF "reason" \in Keys(h)
                 THEN Len(Only(reply[h].context)["reason"]) ELSE 0,
     errors  |-> IF "errors" \in Keys(h)
                 THEN Only(reply[h].context)["errors"] ELSE {}]

Outcome(d) == [allow |-> d.allow, reasons |-> Len(d.reason), errors |-> d.errors]

\* How a handler looks to AtomicEvaluation: where its request stands, and what
\* was decided, namely what the authorizer said until the reply is sent, and
\* what the reply says from then on.
StageOf(h) ==
    IF pc[h] = "idle" THEN "idle"
    ELSE IF pc[h] = "authorize" THEN "waiting"
    ELSE IF pc[h] = "explain" THEN "decided"
    ELSE IF reply[h].status = 400 THEN "refused"
    ELSE IF reply[h].status = 500 THEN "failed"
    ELSE "answered"

VerdictOf(h) ==
    IF pc[h] = "explain" THEN {Outcome(decision[h])}
    ELSE IF Answered(h) THEN {Told(h)}
    ELSE {}

Atomic ==
    INSTANCE AtomicEvaluation WITH
        Defects <- {r \in Requests : Defective(r)},
        Flaky   <- ProviderErrors,
        live    <- provider,
        asked   <- request,
        stage   <- [h \in Handlers |-> StageOf(h)],
        verdict <- [h \in Handlers |-> VerdictOf(h)]

\* A request is decided by one policy set live while it was in flight, never
\* by one replaced before it came, and the reply keeps to that verdict even
\* when another policy set, or none, was at hand to explain it.
ImplementsAtomicEvaluation == Atomic!Spec
=============================================================================
