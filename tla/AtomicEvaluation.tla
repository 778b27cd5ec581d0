-------------------------- MODULE AtomicEvaluation --------------------------
(***************************************************************************)
(* What the evaluation endpoint promises to a client that knows nothing of *)
(* snapshots and reloads: a request is refused, or else decided at one     *)
(* instant by the policy set live at that instant, and the answer carries  *)
(* that verdict, whatever happens to the policy set afterwards.  Nothing   *)
(* is promised about the names in the explanation.  Evaluation is the      *)
(* detailed specification that implements this one.                        *)
(***************************************************************************)
EXTENDS Policies

CONSTANTS
    Handlers,  \* requests in flight
    Requests,  \* request bodies
    Defects,   \* the requests that have to be refused
    LiveSets,  \* the policy sets that may be live
    Flaky      \* whether a decision may fail

VARIABLES
    live,    \* the live policy set
    stage,   \* where each request stands
    asked,   \* the request, {} when there is none
    verdict  \* what was decided, {} when nothing was

vars == <<live, stage, asked, verdict>>

Verdict(ps, q) ==
    [allow   |-> Allows(ps, q),
     reasons |-> Cardinality(Determining(ps, q)),
     errors  |-> Failing(ps, q)]

Init ==
    /\ live \in LiveSets
    /\ stage = [h \in Handlers |-> "idle"]
    /\ asked = [h \in Handlers |-> {}]
    /\ verdict = [h \in Handlers |-> {}]

\* A defective request is refused at once, any other one waits.
Ask(h) ==
    /\ stage[h] = "idle"
    /\ \E r \in Requests :
         /\ asked' = [asked EXCEPT ![h] = {r}]
         /\ stage' = [stage EXCEPT ![h] = IF r \in Defects THEN "refused" ELSE "waiting"]
    /\ UNCHANGED <<live, verdict>>

Decide(h) ==
    /\ stage[h] = "waiting"
    /\ verdict' = [verdict EXCEPT ![h] = {Verdict(live, Only(asked[h]).query)}]
    /\ stage' = [stage EXCEPT ![h] = "decided"]
    /\ UNCHANGED <<live, asked>>

Fail(h) ==
    /\ stage[h] = "waiting"
    /\ Flaky
    /\ stage' = [stage EXCEPT ![h] = "failed"]
    /\ UNCHANGED <<live, asked, verdict>>

Answer(h) ==
    /\ stage[h] = "decided"
    /\ stage' = [stage EXCEPT ![h] = "answered"]
    /\ UNCHANGED <<live, asked, verdict>>

\* The exchange is over, or its client gone.
Forget(h) ==
    /\ stage' = [stage EXCEPT ![h] = "idle"]
    /\ asked' = [asked EXCEPT ![h] = {}]
    /\ verdict' = [verdict EXCEPT ![h] = {}]
    /\ UNCHANGED live

Replace ==
    /\ live' \in LiveSets
    /\ UNCHANGED <<stage, asked, verdict>>

\* A new process knows nothing of the requests of the old one.
Restart ==
    /\ live' \in LiveSets
    /\ stage' = [h \in Handlers |-> "idle"]
    /\ asked' = [h \in Handlers |-> {}]
    /\ verdict' = [h \in Handlers |-> {}]

Next ==
    \/ \E h \in Handlers : Ask(h) \/ Decide(h) \/ Fail(h) \/ Answer(h) \/ Forget(h)
    \/ Replace \/ Restart

Spec == Init /\ [][Next]_vars
=============================================================================
