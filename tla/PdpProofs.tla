------------------------------ MODULE PdpProofs ------------------------------
(***************************************************************************)
(* Pdp implements Evaluation, for any contents, schemas and handlers: what *)
(* startup, the reload task and crashes do to the policy set is what       *)
(* Evaluation allows itself to expect of its provider.                     *)
(***************************************************************************)
EXTENDS Pdp, PolicyReloadProofs

\* There is something to serve: without a content that some schema accepts no
\* process ever serves, and PdpInit has no state.
PdpInv ==
    /\ TypeOK /\ LoadInv /\ UntornInv
    /\ Validatable # {}

-----------------------------------------------------------------------------
(* The policy sets of valid contents are those Evaluation puts live.       *)

LEMMA SameAnnotations == \A ps : Api!ValidAnnotations(ps) <=> ValidAnnotations(ps)
<1>1. \A raw : Api!ParsesAsPriority(raw) <=> ParsesAsPriority(raw)
  BY DEF Api!ParsesAsPriority, ParsesAsPriority
<1>2. \A ps : Api!ValidPriorities(ps) <=> ValidPriorities(ps)
  BY <1>1 DEF Api!ValidPriorities, ValidPriorities
<1>3. \A ps : Api!ValidDecisionContexts(ps) <=> ValidDecisionContexts(ps)
  BY DEF Api!ValidDecisionContexts, ValidDecisionContexts, Api!ReservedKeys,
         ReservedKeys, Api!EmptyKey, EmptyKey
<1>4. QED
  BY <1>2, <1>3 DEF Api!ValidAnnotations, ValidAnnotations

LEMMA ValidatableLive == \A c \in Validatable : PolicySetOf[c] \in Api!LiveSets
<1> SUFFICES ASSUME NEW c \in Validatable PROVE PolicySetOf[c] \in Api!LiveSets
  OBVIOUS
<1>1. ValidAnnotations(PolicySetOf[c])
  BY PolicySetAssumption DEF Validatable
<1>2. QED
  BY <1>1, SameAnnotations DEF Api!LiveSets

LEMMA ValidIsValidatable == Valid \subseteq Validatable
BY DEF Valid, Validatable

\* Whether or not a process serves, there is a policy set to be found.
LEMMA LiveIsValid == PdpInv => Live \in Api!LiveSets
<1> SUFFICES ASSUME PdpInv PROVE Live \in Api!LiveSets
  OBVIOUS
<1>1. CASE pc \in Serving
  <2>1. provider \in Valid
    BY <1>1 DEF PdpInv, LoadInv, UntornInv, Serving, Reloading
  <2>2. QED
    BY <1>1, <2>1, ValidIsValidatable, ValidatableLive DEF Live
<1>2. CASE pc \notin Serving
  <2>1. (CHOOSE c \in Validatable : TRUE) \in Validatable
    BY DEF PdpInv
  <2>2. QED
    BY <1>2, <2>1, ValidatableLive DEF Live
<1>3. QED
  BY <1>1, <1>2

-----------------------------------------------------------------------------

LEMMA PdpInitially == PdpInit => PdpInv
<1> SUFFICES ASSUME PdpInit PROVE PdpInv
  OBVIOUS
<1>1. TypeOK /\ LoadInv /\ UntornInv
  BY TypeInit, LoadInit, UntornInit DEF PdpInit
<1>2. Validatable # {}
  BY DEF PdpInit, Api!Init, Api!LiveSets
<1>3. QED
  BY <1>1, <1>2 DEF PdpInv

\* Handlers leave the policy set and the files alone.
LEMMA PdpStepReloads == [PdpNext]_pdp => [CarefulNext]_vars
BY DEF PdpNext, pdp, PolicyStep, Arrive, Leave, Work

\* Whatever PolicyReload promises under a careful publisher it keeps while
\* requests are served.
LEMMA ReloadGoesOn == PdpSpec => CarefulSpec
<1>1. PdpInit => Init
  BY DEF PdpInit
<1>2. QED
  BY <1>1, PdpStepReloads, PTL DEF PdpSpec, CarefulSpec

\* So the agreement of a quiet, ready process with the published policy, which
\* the reload promises when it runs alone, holds while it answers requests.
THEOREM QuietMeansAgreedWhileServing == PdpSpec => []QuiescentAgreement
BY ReloadGoesOn, QuietMeansAgreed, PTL

LEMMA PdpKeeps == PdpInv /\ [PdpNext]_pdp => PdpInv'
<1> SUFFICES ASSUME PdpInv, [PdpNext]_pdp PROVE PdpInv'
  OBVIOUS
<1>1. [UntornNext]_vars
  BY PdpStepReloads, CarefulIsUntorn
<1>2. [Next]_vars
  BY <1>1, UntornIsAny
<1>3. TypeOK' /\ LoadInv' /\ UntornInv'
  BY <1>1, <1>2, TypeNext, LoadNext, UntornStep DEF PdpInv
<1>4. QED
  BY <1>3 DEF PdpInv, Validatable

LEMMA PdpInvariant == PdpSpec => []PdpInv
BY PdpInitially, PdpKeeps, PTL DEF PdpSpec

LEMMA LiveAlways == PdpSpec => [](Live \in Api!LiveSets)
BY PdpInvariant, LiveIsValid, PTL

-----------------------------------------------------------------------------
(* The simulation.                                                         *)

\* A step of the policy's life is a replacement to the handlers, a restart
\* when it ends the process, and otherwise nothing at all.
LEMMA PolicyStepImplements ==
    ASSUME (Live \in Api!LiveSets)', PolicyStep
    PROVE  Api!Next \/ UNCHANGED Api!vars
<1>1. CASE DropRequests
  <2>1. Api!Restart
    BY <1>1 DEF DropRequests, Api!Restart
  <2>2. QED
    BY <2>1 DEF Api!Next
<1>2. CASE UNCHANGED handler /\ Live' = Live
  BY <1>2 DEF handler, Api!vars, Api!handler
<1>3. CASE UNCHANGED handler /\ Live' # Live
  <2>1. Api!Replace
    BY <1>3 DEF handler, Api!Replace, Api!handler
  <2>2. QED
    BY <2>1 DEF Api!Next
<1>4. QED
  BY <1>1, <1>2, <1>3 DEF PolicyStep

LEMMA PdpNextImplements ==
    (Live \in Api!LiveSets)' /\ [PdpNext]_pdp => [Api!Next]_(Api!vars)
<1> SUFFICES ASSUME (Live \in Api!LiveSets)', [PdpNext]_pdp
             PROVE  Api!Next \/ UNCHANGED Api!vars
  OBVIOUS
<1>1. CASE PolicyStep
  BY <1>1, PolicyStepImplements
<1>2. ASSUME NEW h \in Handlers, Arrive(h) \/ Work(h) \/ Leave(h)
      PROVE  Api!Next
  BY <1>2 DEF Arrive, Work, Leave, Api!Next
<1>3. CASE UNCHANGED pdp
  BY <1>3 DEF pdp, vars, task, handler, Live, Api!vars, Api!handler
<1>4. QED
  BY <1>1, <1>2, <1>3 DEF PdpNext

\* Evaluation's picture of its provider is true of the process it runs in: at
\* any moment a handler finds a policy set that passed validation, replaced as
\* a whole by the reload task, and no crash leaves a request behind.
THEOREM PdpImplementsEvaluation == PdpSpec => ImplementsEvaluation
<1>1. PdpInit => Api!Init
  BY DEF PdpInit
<1>2. QED
  BY <1>1, LiveAlways, PdpNextImplements, PTL
     DEF PdpSpec, ImplementsEvaluation, Api!Spec

-----------------------------------------------------------------------------
(* Who decides.                                                            *)

\* Without a process no request is in flight; the others were decided and
\* explained by policy sets checked against the schema the process has.
DecidersInv ==
    /\ decidedBy = [h \in Handlers |-> decidedBy[h]]
    /\ explainedBy = [h \in Handlers |-> explainedBy[h]]
    /\ pc \notin Serving => \A h \in Handlers : decidedBy[h] = {} /\ explainedBy[h] = {}
    /\ DecidedByValid

\* Once it serves, a process keeps its schema to the end.
LEMMA SchemaStays ==
    ASSUME PdpInv, CarefulNext, pc \in Serving, pc' # "exited"
    PROVE  pc' \in Serving /\ UNCHANGED schema
<1>1. CASE \/ WriteSchema \/ CarefulWrite \/ Poll \/ InspectorStops
           \/ RecvEvent \/ RecvError \/ ReadSource \/ ValidateSource
           \/ ProviderRead \/ ProviderSwap \/ CommitReload
  BY <1>1 DEF WriteSchema, CarefulWrite, Write, Poll, InspectorStops, RecvEvent,
              RecvError, ReadSource, ValidateSource, ProviderRead, ProviderSwap,
              CommitReload, SkipReload, RejectReload, Return, task, schemas,
              Serving, Reloading
<1>2. CASE \/ LoadSchema \/ NewProvider \/ LoadAndValidate \/ SpawnReloadTask
           \/ Crash \/ Restart
  BY <1>2 DEF LoadSchema, NewProvider, LoadAndValidate, SpawnReloadTask, Crash,
              Restart, Exit, Serving, Reloading
<1>3. QED
  BY <1>1, <1>2 DEF CarefulNext, PdpStep, TaskStep

\* A handler looks at the provider of a serving process only.
LEMMA LooksAtValid ==
    ASSUME PdpInv, DecidersInv, NEW h \in Handlers, Arrive(h) \/ Work(h) \/ Leave(h)
    PROVE  DecidersInv'
<1>1. pc \in Serving /\ UNCHANGED vars
  BY DEF Arrive, Work, Leave
<1>2. Live \in {PolicySetOf[c] : c \in Valid}
  BY <1>1 DEF Live, PdpInv, LoadInv, UntornInv, Serving, Reloading
<1>3. Valid' = Valid /\ pc' \in Serving
  BY <1>1 DEF Valid, vars, task, schemas
<1>4. \/ UNCHANGED <<decidedBy, explainedBy>>
      \/ decidedBy' = [decidedBy EXCEPT ![h] = {Live}] /\ UNCHANGED explainedBy
      \/ /\ explainedBy' = [explainedBy EXCEPT ![h] = {Live}]
         /\ UNCHANGED decidedBy
      \/ /\ explainedBy' = [explainedBy EXCEPT ![h] = {}]
         /\ UNCHANGED decidedBy
      \/ /\ decidedBy' = [decidedBy EXCEPT ![h] = {}]
         /\ explainedBy' = [explainedBy EXCEPT ![h] = {}]
  BY DEF Arrive, Work, Leave, Api!Receive, Api!Release, Api!Handle,
         Api!Authorize, Api!AuthorizeFails, Api!Explain
<1>5. QED
  BY <1>2, <1>3, <1>4 DEF DecidersInv, DecidedByValid

LEMMA DecidersKeep ==
    PdpInv /\ DecidersInv /\ [PdpNext]_pdp => DecidersInv'
<1> SUFFICES ASSUME PdpInv, DecidersInv, [PdpNext]_pdp PROVE DecidersInv'
  OBVIOUS
<1>1. CASE PolicyStep /\ pc' = "exited"
  BY <1>1 DEF PolicyStep, DropRequests, DecidersInv, DecidedByValid
<1>2. CASE PolicyStep /\ pc' # "exited" /\ pc \in Serving
  <2>1. pc' \in Serving /\ UNCHANGED schema
    BY <1>2, SchemaStays DEF PolicyStep
  <2>2. Valid' = Valid
    BY <2>1 DEF Valid
  <2>3. QED
    BY <1>2, <2>1, <2>2 DEF PolicyStep, handler, DecidersInv, DecidedByValid
<1>3. CASE PolicyStep /\ pc' # "exited" /\ pc \notin Serving
  BY <1>3 DEF PolicyStep, handler, DecidersInv, DecidedByValid
<1>4. ASSUME NEW h \in Handlers, Arrive(h) \/ Work(h) \/ Leave(h)
      PROVE  DecidersInv'
  BY <1>4, LooksAtValid
<1>5. CASE UNCHANGED pdp
  <2>1. UNCHANGED <<pc, schema, decidedBy, explainedBy>>
    BY <1>5 DEF pdp, vars, task, schemas, handler
  <2>2. Valid' = Valid
    BY <2>1 DEF Valid
  <2>3. QED
    BY <2>1, <2>2 DEF DecidersInv, DecidedByValid
<1>6. QED
  BY <1>1, <1>2, <1>3, <1>4, <1>5 DEF PdpNext

\* No request is ever decided or explained by policies that were not checked
\* against the schema it was converted by, whatever is published, reloaded or
\* crashes while it is in flight.
THEOREM DecidersAreValid == PdpSpec => []DecidedByValid
<1>1. PdpInit => DecidersInv
  BY DEF PdpInit, Api!Init, DecidersInv, DecidedByValid
<1>2. DecidersInv => DecidedByValid
  BY DEF DecidersInv
<1>3. QED
  BY <1>1, <1>2, PdpInvariant, DecidersKeep, PTL DEF PdpSpec
=============================================================================
