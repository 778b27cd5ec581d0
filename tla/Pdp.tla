-------------------------------- MODULE Pdp --------------------------------
(***************************************************************************)
(* The whole PDP at work: PolicyReload loads, reloads and dies; Evaluation *)
(* answers requests by the policy set its provider holds.  The two share   *)
(* one provider and nothing else: no handler looks at readiness, and the   *)
(* reload task waits for no handler.  When the process dies its requests   *)
(* die with it.                                                            *)
(***************************************************************************)
EXTENDS PolicyReload, Policies

CONSTANTS
    PolicySetOf,   \* the policy set each content that parses stands for
    Handlers,      \* requests in flight
    Requests,      \* request bodies
    ProviderErrors \* whether the provider may fail to hand out its set

\* validate_source accepts no policy set whose annotations are not in order.
ASSUME PolicySetAssumption ==
    \A s \in Schemas : \A c \in ValidUnder[s] :
        IsPolicySet(PolicySetOf[c]) /\ ValidAnnotations(PolicySetOf[c])

VARIABLES
    at,          \* where each handler stands: pc of Evaluation
    request, decision, reply, decidedBy, explainedBy

handler == <<at, request, decision, reply, decidedBy, explainedBy>>
pdp == <<vars, handler>>

Validatable == UNION {ValidUnder[s] : s \in Schemas}

\* What a handler finds in the shared provider.  Without a process there is
\* neither provider nor handler, and any policy set will do.
Live ==
    PolicySetOf[IF pc \in Serving THEN provider ELSE CHOOSE c \in Validatable : TRUE]

Api ==
    INSTANCE Evaluation WITH
        provider   <- Live,
        pc         <- at,
        PolicySets <- {PolicySetOf[c] : c \in Validatable}

PdpInit ==
    /\ Init
    /\ Api!Init

\* The connections of a process end with it.
DropRequests ==
    /\ at' = [h \in Handlers |-> "idle"]
    /\ request' = [h \in Handlers |-> {}]
    /\ decision' = [h \in Handlers |-> Api!Nobody]
    /\ reply' = [h \in Handlers |-> Api!NoReply]
    /\ decidedBy' = [h \in Handlers |-> {}]
    /\ explainedBy' = [h \in Handlers |-> {}]

\* A step of startup, the reload task, the inspector or a publisher.
PolicyStep ==
    /\ CarefulNext
    /\ \/ pc' = "exited" /\ DropRequests
       \/ pc' # "exited" /\ UNCHANGED handler

\* Requests are taken once the process serves, ready or not.
Arrive(h) == pc \in Serving /\ UNCHANGED vars /\ Api!Receive(h)
Leave(h) == pc \in Serving /\ UNCHANGED vars /\ Api!Release(h)
Work(h) == pc \in Serving /\ UNCHANGED vars /\ Api!Handle(h)

PdpNext ==
    \/ PolicyStep
    \/ \E h \in Handlers : Arrive(h) \/ Work(h) \/ Leave(h)

PdpSpec == PdpInit /\ [][PdpNext]_pdp

\* The runtime polls the reload task and every handler that can go on.
PdpFairSpec == PdpSpec /\ Fairness /\ \A h \in Handlers : WF_pdp(Work(h))

-----------------------------------------------------------------------------
(* Properties.                                                             *)

\* To its handlers the life of the policy set looks as Evaluation assumes:
\* they find a validated policy set at any moment, from the first request to
\* the death of the process, and it changes under their hands only as a whole.
ImplementsEvaluation == Api!Spec

\* A request is converted by the schema its process has loaded (AppState), and
\* the policies that decide and explain it have been checked against that very
\* schema, whatever was published, reloaded or restarted since it came.
DecidedByValid ==
    \A h \in Handlers :
        decidedBy[h] \cup explainedBy[h] \subseteq {PolicySetOf[c] : c \in Valid}

\* A request in flight is answered, however often policies are reloaded or
\* rejected meanwhile, unless its client goes away or the process dies.
EveryRequestAnswered ==
    \A h \in Handlers : at[h] \in {"authorize", "explain"} ~> at[h] \in {"done", "idle"}

\* From some moment on, every answer is decided and explained by the policy
\* set of the content c alone.
DecidesBy(c) ==
    <>[][\A h \in Handlers :
           at[h] = "explain" /\ at'[h] = "done" =>
             /\ decidedBy'[h] = {PolicySetOf[c]}
             /\ explainedBy'[h] \subseteq {PolicySetOf[c]}]_pdp

\* The promise of hot reload to a client: a valid file left alone is in the
\* end what decides and what explains each answer, whatever crashes, failed
\* startups, rejected reloads and half-way reloads went before.
StableValidDecides ==
    \A c \in Parses :
        TaskLives /\ <>[](file = c /\ Accepted(c)) => DecidesBy(c)
=============================================================================
