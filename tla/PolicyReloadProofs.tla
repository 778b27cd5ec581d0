------------------------- MODULE PolicyReloadProofs -------------------------
(***************************************************************************)
(* Proofs about PolicyReload, for every set of contents, every capacity of *)
(* the channel, and with or without failing reads.                         *)
(*                                                                         *)
(* Three invariants, each inductive together with the ones before it:      *)
(*   LoadInv     for any publisher: what each program point has checked;   *)
(*   UntornInv   for a publisher that does not write between the two       *)
(*               readings of a load: the readings agree;                   *)
(*   CaughtUpInv for a careful publisher: once the events are consumed     *)
(*               and the inspector has seen the file, so has the task.     *)
(***************************************************************************)
EXTENDS PolicyReload, TLAPS

\* What each program point has established about the contents it holds.
LoadInv ==
    /\ pc \in {"load_schema", "exited"} => schema = Nothing
    /\ pc = "load" => provider \in Parses
    /\ pc \in {"spawn"} \cup Serving =>
         provider \in Parses /\ loadedSrc \in Valid
    /\ pc = "validate" => src \in Contents
    /\ pc \in {"update", "swap", "commit"} => src \in Valid
    /\ pc = "swap" => fetched \in Parses

\* The two readings of a load are one and the same content.
UntornInv ==
    /\ pc = "load" => file = provider
    /\ pc \in {"spawn"} \cup (Serving \ {"commit"}) => loadedSrc = provider
    /\ pc \in {"validate", "update"} => src = file
    /\ pc = "swap" => fetched = src
    /\ pc = "commit" => provider = src

Agreed ==
    IF ready
    THEN file \in Valid /\ provider = file
    ELSE IoErrors \/ file \notin Valid

CaughtUp == pending = 0 /\ ~lagged /\ inspected = file

\* Before the inspector's first look the file is as startup loaded it; once
\* nothing is left to announce or to receive, the task has the file's content.
CaughtUpInv ==
    /\ pc \in Startup \cup {"exited"} => inspected = Nothing /\ ~inspecting
    /\ inspected = Nothing => pending = 0 /\ ~lagged
    /\ inspected = Nothing => pc \in Startup \cup {"exited", "recv", "ended"}
    /\ pc \in {"spawn", "recv"} /\ inspected = Nothing => file = loadedSrc
    /\ pc = "recv" /\ inspected = Nothing => ready
    /\ CaughtUp /\ pc = "recv" => Agreed
    /\ CaughtUp /\ pc = "swap" => fetched = file
    /\ CaughtUp /\ pc = "commit" => provider = file

-----------------------------------------------------------------------------

LEMMA ValidParses == Valid \subseteq Parses
BY ContentsAssumption DEF Valid

\* What counts as valid changes only with the schema of the process.
LEMMA ValidKept == UNCHANGED schema => Valid' = Valid
BY DEF Valid

LEMMA CarefulIsUntorn == CarefulNext => UntornNext
BY DEF CarefulNext, UntornNext, CarefulWrite, UntornWrite, AnyWrite

LEMMA UntornIsAny == UntornNext => Next
BY DEF UntornNext, Next, UntornWrite

-----------------------------------------------------------------------------
(* Type correctness.                                                       *)

LEMMA TypeInit == Init => TypeOK
<1> SUFFICES ASSUME Init PROVE TypeOK
  OBVIOUS
<1>1. pending \in 0..Capacity
  BY ChannelAssumption DEF Init
<1>2. ready \in BOOLEAN /\ inspecting \in BOOLEAN /\ lagged \in BOOLEAN
  BY DEF Init
<1>3. pc \in Startup \cup Serving \cup {"exited"}
  BY DEF Init, Startup
<1>4. QED
  BY <1>1, <1>2, <1>3 DEF Init, TypeOK

LEMMA ChannelType ==
    ASSUME TypeOK, Announce
    PROVE  pending' \in 0..Capacity /\ lagged' \in BOOLEAN
<1>1. lagged' \in BOOLEAN
  <2>1. lagged' = lagged \/ lagged' = TRUE
    BY DEF Announce
  <2>2. QED
    BY <2>1 DEF TypeOK
<1>2. pending' \in 0..Capacity
  <2>1. \/ pending < Capacity /\ pending' = pending + 1
        \/ pending' = pending
    BY DEF Announce
  <2>2. QED
    BY <2>1, ChannelAssumption DEF TypeOK
<1>3. QED
  BY <1>1, <1>2

LEMMA ReadingType == ASSUME TypeOK PROVE Reading \subseteq FileStates
BY DEF TypeOK, Reading, FileStates

LEMMA ExitType == ASSUME TypeOK, Exit, UNCHANGED <<file, schemaFile>> PROVE TypeOK'
<1>1. pending' \in 0..Capacity
  BY ChannelAssumption DEF Exit
<1>2. ready' \in BOOLEAN /\ inspecting' \in BOOLEAN /\ lagged' \in BOOLEAN
  BY DEF Exit
<1>3. QED
  BY <1>1, <1>2 DEF TypeOK, Exit

LEMMA TypeNext == TypeOK /\ [Next]_vars => TypeOK'
<1> SUFFICES ASSUME TypeOK, [Next]_vars PROVE TypeOK'
  OBVIOUS
<1> USE DEF TypeOK, schemas, task, inspector, channel
<1>0. Reading \subseteq FileStates
  BY ReadingType
<1>a. CASE LoadSchema
  <2>1. CASE Exit
    BY <1>a, <2>1, ExitType DEF LoadSchema
  <2>2. CASE ~Exit
    BY <1>a, <2>2 DEF LoadSchema, Startup, Serving, Reloading
  <2>3. QED
    BY <2>1, <2>2
<1>1. CASE NewProvider
  <2>1. CASE Exit
    BY <1>1, <2>1, ExitType DEF NewProvider
  <2>2. CASE ~Exit
    BY <1>1, <2>2 DEF NewProvider, Startup, Serving, Reloading
  <2>3. QED
    BY <2>1, <2>2
<1>2. CASE LoadAndValidate
  <2>1. CASE Exit
    BY <1>2, <2>1, ExitType DEF LoadAndValidate
  <2>2. CASE ~Exit
    BY <1>2, <2>2, ContentsAssumption, ValidParses
       DEF LoadAndValidate, Validates, Startup, Serving, Reloading
  <2>3. QED
    BY <2>1, <2>2
<1>3. CASE SpawnReloadTask
  BY <1>3 DEF SpawnReloadTask, Startup, Serving, Reloading
<1>4. CASE RecvEvent
  BY <1>4, ChannelAssumption DEF RecvEvent, Startup, Serving, Reloading
<1>5. CASE RecvError
  BY <1>5 DEF RecvError, Startup, Serving, Reloading
<1>6. CASE ReadSource
  BY <1>6 DEF ReadSource, RejectReload, SkipReload, Return, Startup, Serving, Reloading
<1>7. CASE ValidateSource
  BY <1>7 DEF ValidateSource, RejectReload, Return, Startup, Serving, Reloading
<1>8. CASE ProviderRead
  BY <1>8 DEF ProviderRead, RejectReload, Return, Startup, Serving, Reloading
<1>9. CASE ProviderSwap
  BY <1>9 DEF ProviderSwap, Startup, Serving, Reloading
<1>10. CASE CommitReload
  BY <1>10 DEF CommitReload, Return, Startup, Serving, Reloading
<1>11. CASE Poll
  <2>1. inspected' \in FileStates
    BY <1>0, <1>11 DEF Poll
  <2>2. pending' \in 0..Capacity /\ lagged' \in BOOLEAN
    BY <1>11, ChannelType DEF Poll
  <2>3. QED
    BY <1>11, <2>1, <2>2 DEF Poll
<1>12. CASE InspectorStops
  BY <1>12 DEF InspectorStops
<1>13. CASE AnyWrite
  BY <1>13 DEF AnyWrite, Write
<1>14. CASE Crash
  BY <1>14, ExitType DEF Crash
<1>15. CASE Restart
  BY <1>15 DEF Restart, Startup
<1>16. CASE WriteSchema
  BY <1>16 DEF WriteSchema, SchemaStates
<1>17. CASE UNCHANGED vars
  BY <1>17 DEF vars
<1>18. QED
  BY <1>a, <1>1, <1>2, <1>3, <1>4, <1>5, <1>6, <1>7, <1>8, <1>9, <1>10, <1>11,
     <1>12, <1>13, <1>14, <1>15, <1>16, <1>17
     DEF Next, PdpStep, TaskStep

\* Every variable keeps its type whatever the publisher does; the channel in
\* particular never holds more events than its capacity.
THEOREM TypeCorrect == Spec => []TypeOK
<1>1. QED
  BY TypeInit, TypeNext, PTL DEF Spec

-----------------------------------------------------------------------------
(* Any publisher.                                                          *)

LEMMA LoadInit == Init => LoadInv
BY DEF Init, LoadInv, Serving, Reloading

LEMMA LoadNext == TypeOK /\ LoadInv /\ [Next]_vars => LoadInv'
<1> SUFFICES ASSUME TypeOK, LoadInv, [Next]_vars PROVE LoadInv'
  OBVIOUS
<1> USE ValidKept DEF LoadInv, Serving, Reloading, schemas, task
<1>a. CASE LoadSchema
  BY <1>a DEF LoadSchema, Exit
<1>1. CASE NewProvider
  BY <1>1 DEF NewProvider, Exit
<1>2. CASE LoadAndValidate
  BY <1>2 DEF LoadAndValidate, Validates, Exit
<1>3. CASE SpawnReloadTask
  BY <1>3 DEF SpawnReloadTask
<1>4. CASE RecvEvent
  BY <1>4 DEF RecvEvent
<1>5. CASE RecvError
  BY <1>5 DEF RecvError
<1>6. CASE ReadSource
  BY <1>6 DEF ReadSource, RejectReload, SkipReload, Return
<1>7. CASE ValidateSource
  BY <1>7 DEF ValidateSource, Validates, RejectReload, Return
<1>8. CASE ProviderRead
  BY <1>8 DEF ProviderRead, RejectReload, Return
<1>9. CASE ProviderSwap
  BY <1>9 DEF ProviderSwap
<1>10. CASE CommitReload
  BY <1>10 DEF CommitReload, Return
<1>11. CASE Poll \/ InspectorStops \/ WriteSchema \/ AnyWrite \/ UNCHANGED vars
  <2>1. UNCHANGED <<schema, task>>
    BY <1>11 DEF Poll, InspectorStops, WriteSchema, AnyWrite, Write, vars
  <2>2. QED
    BY <2>1
<1>12. CASE Crash \/ Restart
  BY <1>12 DEF Crash, Exit, Restart
<1>13. QED
  BY <1>a, <1>1, <1>2, <1>3, <1>4, <1>5, <1>6, <1>7, <1>8, <1>9, <1>10, <1>11,
     <1>12
     DEF Next, PdpStep, TaskStep

LEMMA LoadInvariant == Spec => [](TypeOK /\ LoadInv)
<1>1. QED
  BY TypeInit, TypeNext, LoadInit, LoadNext, PTL DEF Spec

\* A process that serves has validated its loaded source and parsed what its
\* provider holds, whatever the publisher does meanwhile.
THEOREM FailFast == Spec => []ServesAfterValidation
<1>1. LoadInv => ServesAfterValidation
  BY DEF LoadInv, ServesAfterValidation
<1>2. QED
  BY <1>1, LoadInvariant, PTL

\* A step that withdraws readiness, or ends a reload without it, belongs to a
\* rejected reload that has not touched the provider yet, and leaves the
\* policy set that serves, and the source it came from, as they were.
THEOREM RejectionIsHarmless == Spec => FailStatic
<1>1. TypeOK /\ LoadInv /\ [Next]_vars =>
        [EndsNotReady =>
           /\ pc \in {"read", "validate", "update"}
           /\ UNCHANGED <<provider, loadedSrc>>]_vars
  <2> SUFFICES ASSUME TypeOK, LoadInv, Next, EndsNotReady
               PROVE  /\ pc \in {"read", "validate", "update"}
                      /\ UNCHANGED <<provider, loadedSrc>>
    BY DEF vars
  <2>1. ReadSource \/ ValidateSource \/ ProviderRead
    BY DEF Next, PdpStep, TaskStep, task, NewProvider, LoadAndValidate, Exit,
           LoadSchema, WriteSchema, SpawnReloadTask, RecvEvent, RecvError, ProviderSwap, CommitReload,
           Return, Poll, InspectorStops, AnyWrite, Write, Crash, Restart, EndsNotReady, Reloading
  <2>2. QED
    BY <2>1 DEF ReadSource, ValidateSource, ProviderRead
<1>2. QED
  BY <1>1, LoadInvariant, PTL DEF Spec, FailStatic

-----------------------------------------------------------------------------
(* A publisher that does not write between the two readings of a load.     *)

LEMMA UntornInit == Init => UntornInv
BY DEF Init, UntornInv, Serving, Reloading

LEMMA UntornStep ==
    TypeOK /\ LoadInv /\ UntornInv /\ [UntornNext]_vars => UntornInv'
<1> SUFFICES ASSUME TypeOK, LoadInv, UntornInv, [UntornNext]_vars
             PROVE  UntornInv'
  OBVIOUS
<1> USE DEF UntornInv, Serving, Reloading, schemas, task
<1>0. \A r \in Reading : r = file \/ r = Unreadable
  BY DEF Reading
<1>b. Valid \subseteq Parses
  BY ValidParses
<1>a. CASE LoadSchema
  BY <1>a DEF LoadSchema, Exit
<1>1. CASE NewProvider
  BY <1>1, <1>0, ContentsAssumption DEF NewProvider, Exit
<1>2. CASE LoadAndValidate
  BY <1>2, <1>0, <1>b, ContentsAssumption DEF LoadAndValidate, Validates, Exit
<1>3. CASE SpawnReloadTask
  BY <1>3 DEF SpawnReloadTask
<1>4. CASE RecvEvent
  BY <1>4 DEF RecvEvent
<1>5. CASE RecvError
  BY <1>5 DEF RecvError
<1>6. CASE ReadSource
  BY <1>6, <1>0, ContentsAssumption
     DEF ReadSource, RejectReload, SkipReload, Return
<1>7. CASE ValidateSource
  BY <1>7 DEF ValidateSource, RejectReload, Return
<1>8. CASE ProviderRead
  BY <1>8, <1>0, ContentsAssumption DEF ProviderRead, RejectReload, Return
<1>9. CASE ProviderSwap
  BY <1>9 DEF ProviderSwap
<1>10. CASE CommitReload
  BY <1>10 DEF CommitReload, Return
<1>11. CASE UntornWrite
  BY <1>11 DEF UntornWrite, Torn, AnyWrite, Write
<1>12. CASE Poll \/ InspectorStops \/ WriteSchema \/ UNCHANGED vars
  <2>1. UNCHANGED <<file, schema, task>>
    BY <1>12 DEF Poll, InspectorStops, WriteSchema, vars
  <2>2. QED
    BY <2>1
<1>13. CASE Crash \/ Restart
  BY <1>13 DEF Crash, Exit, Restart
<1>14. QED
  BY <1>a, <1>1, <1>2, <1>3, <1>4, <1>5, <1>6, <1>7, <1>8, <1>9, <1>10, <1>11,
     <1>12, <1>13
     DEF UntornNext, PdpStep, TaskStep

LEMMA UntornInvariant == UntornSpec => [](TypeOK /\ LoadInv /\ UntornInv)
<1>1. [UntornNext]_vars => [Next]_vars
  BY UntornIsAny
<1>2. QED
  BY <1>1, TypeInit, TypeNext, LoadInit, LoadNext, UntornInit, UntornStep, PTL
     DEF UntornSpec

\* Unless the file is replaced between the two readings of a load, a content
\* that failed validation is never live, at startup or after any reload.
THEOREM OnlyValidatedLive == UntornSpec => []NeverUnvalidatedLive
<1>1. LoadInv /\ UntornInv => NeverUnvalidatedLive
  BY DEF LoadInv, UntornInv, NeverUnvalidatedLive, Serving, Reloading
<1>2. QED
  BY <1>1, UntornInvariant, PTL

\* Under the same publisher, loaded_src is what the provider holds whenever
\* reload() may compare with it: the shortcut never hides a difference.
THEOREM SkippingIsSound == UntornSpec => []SkipIsSound
<1>1. UntornInv => SkipIsSound
  BY DEF UntornInv, SkipIsSound
<1>2. QED
  BY <1>1, UntornInvariant, PTL

-----------------------------------------------------------------------------
(* A careful publisher.                                                    *)

LEMMA CaughtUpInit == Init => CaughtUpInv
BY DEF Init, CaughtUpInv, CaughtUp, Startup

LEMMA AnnounceIsNoticed ==
    ASSUME TypeOK, Announce
    PROVE  ~(pending' = 0 /\ ~lagged')
BY ChannelAssumption DEF TypeOK, Announce

LEMMA CaughtUpStep ==
    TypeOK /\ LoadInv /\ UntornInv /\ CaughtUpInv /\ [CarefulNext]_vars
    => CaughtUpInv'
<1> SUFFICES ASSUME TypeOK, LoadInv, UntornInv, CaughtUpInv, [CarefulNext]_vars
             PROVE  CaughtUpInv'
  OBVIOUS
<1> USE ValidKept DEF CaughtUpInv, CaughtUp, Startup, schemas, task, inspector, channel
<1>0. \A r \in Reading : r = file \/ (r = Unreadable /\ IoErrors)
  BY DEF Reading
<1>b. Valid \subseteq Parses
  BY ValidParses
<1>a. CASE LoadSchema
  BY <1>a DEF LoadSchema, Exit
<1>1. CASE NewProvider
  BY <1>1 DEF NewProvider, Exit
<1>2. CASE LoadAndValidate
  BY <1>2, <1>0, <1>b, ContentsAssumption
     DEF LoadAndValidate, Validates, Exit, UntornInv
<1>3. CASE SpawnReloadTask
  BY <1>3, ContentsAssumption
     DEF SpawnReloadTask, Agreed, LoadInv, UntornInv, TypeOK, FileStates
<1>4. CASE RecvEvent
  BY <1>4 DEF RecvEvent
<1>5. CASE RecvError
  BY <1>5 DEF RecvError
<1>6. CASE ReadSource
  BY <1>6, <1>0, <1>b, ContentsAssumption
     DEF ReadSource, RejectReload, SkipReload, Return, Agreed,
         LoadInv, UntornInv, Serving, Reloading
<1>7. CASE ValidateSource
  BY <1>7 DEF ValidateSource, Validates, RejectReload, Return, Agreed, UntornInv
<1>8. CASE ProviderRead
  BY <1>8, <1>0, <1>b, ContentsAssumption
     DEF ProviderRead, RejectReload, Return, Agreed, LoadInv, UntornInv
<1>9. CASE ProviderSwap
  BY <1>9 DEF ProviderSwap
<1>10. CASE CommitReload
  BY <1>10 DEF CommitReload, Return, Agreed, LoadInv, UntornInv
<1>11. CASE Poll
  <2>1. PICK r \in Reading \ {inspected} :
           /\ inspected' = r
           /\ \/ Announce
              \/ r \in Contents /\ inspected = Nothing /\ UNCHANGED channel
    BY <1>11 DEF Poll
  <2>2. inspecting /\ pc # "ended" /\ UNCHANGED <<file, schemas, task, inspecting>>
    BY <1>11 DEF Poll
  <2>3. inspected' # Nothing
    BY <2>1, <1>0, ContentsAssumption DEF TypeOK, FileStates
  <2>4. CASE Announce
    BY <2>4, <2>2, <2>3, AnnounceIsNoticed
  <2>5. CASE r \in Contents /\ inspected = Nothing /\ UNCHANGED channel
    <3>1. pc = "recv" /\ ready /\ file = loadedSrc
      BY <2>2, <2>5 DEF TypeOK
    <3>2. Agreed'
      BY <3>1, <2>2 DEF Agreed, LoadInv, UntornInv, Serving, Reloading
    <3>3. QED
      BY <2>2, <2>3, <3>1, <3>2
  <2>6. QED
    BY <2>1, <2>4, <2>5
<1>12. CASE InspectorStops
  BY <1>12 DEF InspectorStops, Agreed
<1>13. CASE CarefulWrite
  BY <1>13 DEF CarefulWrite, Write, TypeOK
<1>14. CASE Crash \/ Restart
  BY <1>14 DEF Crash, Exit, Restart
<1>15. CASE WriteSchema \/ UNCHANGED vars
  BY <1>15 DEF WriteSchema, vars, Agreed
<1>16. QED
  BY <1>a, <1>1, <1>2, <1>3, <1>4, <1>5, <1>6, <1>7, <1>8, <1>9, <1>10, <1>11,
     <1>12, <1>13, <1>14, <1>15
     DEF CarefulNext, PdpStep, TaskStep

\* With a careful publisher, a PDP with nothing left to do serves exactly the
\* published policy, or has withdrawn readiness for a reason.
THEOREM QuietMeansAgreed == CarefulSpec => []QuiescentAgreement
<1>1. [CarefulNext]_vars => [UntornNext]_vars
  BY CarefulIsUntorn
<1>2. [UntornNext]_vars => [Next]_vars
  BY UntornIsAny
<1>3. CaughtUpInv => QuiescentAgreement
  BY DEF CaughtUpInv, CaughtUp, Agreed, QuiescentAgreement, Quiet
<1>4. QED
  BY <1>1, <1>2, <1>3, TypeInit, TypeNext, LoadInit, LoadNext, UntornInit,
     UntornStep, CaughtUpInit, CaughtUpStep, PTL
     DEF CarefulSpec

-----------------------------------------------------------------------------
(* PolicyReload implements HotReload.                                      *)

LEMMA ImplementsInit == Init => Replacement!Init
BY DEF Init, Replacement!Init, Replacement!Published, FileStates, Serving, Reloading

LEMMA ImplementsStep ==
    TypeOK /\ LoadInv /\ UntornInv /\ [UntornNext]_vars
    => [Replacement!Next]_(Replacement!vars)
<1> SUFFICES ASSUME TypeOK, LoadInv, UntornInv, [UntornNext]_vars
             PROVE  Replacement!Next \/ UNCHANGED Replacement!vars
  OBVIOUS
<1> DEFINE Stutter == UNCHANGED Replacement!vars
<1> USE DEF schemas, task, Serving, Reloading
<1>0. \A r \in Reading : r = file \/ (r = Unreadable /\ IoErrors)
  BY DEF Reading
<1>1. pc \in Serving => provider # Nothing
  BY ContentsAssumption DEF LoadInv
<1>b. Valid \subseteq Parses /\ Replacement!Valid = Valid
  BY ValidParses DEF Valid, Replacement!Valid
<1>a. CASE Exit /\ UNCHANGED file
  <2>1. Replacement!Crash
    BY <1>a DEF Exit, Replacement!Crash
  <2>2. QED
    BY <2>1 DEF Replacement!Next
<1>c. CASE LoadSchema
  <2>1. CASE Exit
    BY <1>a, <1>c, <2>1 DEF LoadSchema
  <2>2. CASE ~Exit
    <3>1. Replacement!Boot
      BY <1>c, <2>2 DEF LoadSchema, Replacement!Boot, LoadInv
    <3>2. QED
      BY <3>1 DEF Replacement!Next
  <2>3. QED
    BY <2>1, <2>2
<1>2. CASE NewProvider
  <2>1. CASE Exit
    BY <1>a, <1>2, <2>1 DEF NewProvider
  <2>2. CASE ~Exit
    <3>1. Stutter
      BY <1>2, <2>2 DEF NewProvider, Replacement!vars
    <3>2. QED
      BY <3>1
  <2>3. QED
    BY <2>1, <2>2
<1>3. CASE LoadAndValidate
  <2>1. CASE Exit
    BY <1>a, <1>3, <2>1 DEF LoadAndValidate
  <2>2. CASE pc' = "spawn"
    <3>1. Replacement!Offer
      BY <1>3, <2>2, <1>0, <1>b, ContentsAssumption
         DEF LoadAndValidate, Validates, Exit, Replacement!Offer, UntornInv
    <3>2. QED
      BY <3>1 DEF Replacement!Next
  <2>3. QED
    BY <1>3, <2>1, <2>2 DEF LoadAndValidate
<1>4. CASE SpawnReloadTask
  <2>1. Replacement!Start
    BY <1>4 DEF SpawnReloadTask, Replacement!Start
  <2>2. QED
    BY <2>1 DEF Replacement!Next
<1>5. CASE RecvEvent \/ RecvError
  <2>1. Stutter
    BY <1>5 DEF RecvEvent, RecvError, Replacement!vars
  <2>2. QED
    BY <2>1
<1>6. CASE ReadSource
  <2>1. PICK r \in Reading :
           \/ r = Unreadable /\ RejectReload
           \/ r = loadedSrc /\ SkipReload
           \/ src' = r /\ pc' = "validate" /\ UNCHANGED <<fetched, ready>>
    BY <1>6 DEF ReadSource
  <2>2. pc = "read" /\ UNCHANGED <<file, schema, loadedSrc, provider>>
    BY <1>6 DEF ReadSource
  <2>3. CASE r = Unreadable /\ RejectReload
    <3>1. Replacement!Reject
      BY <2>2, <2>3, <1>0, <1>1, <1>b, ContentsAssumption
         DEF RejectReload, Return, Replacement!Reject
    <3>2. QED
      BY <3>1 DEF Replacement!Next
  <2>4. CASE r = loadedSrc /\ SkipReload
    <3>1. Replacement!Reaffirm
      BY <2>2, <2>4, <1>0, <1>1, ContentsAssumption
         DEF SkipReload, Return, Replacement!Reaffirm, LoadInv, UntornInv
    <3>2. QED
      BY <3>1 DEF Replacement!Next
  <2>5. CASE src' = r /\ pc' = "validate" /\ UNCHANGED <<fetched, ready>>
    <3>1. Stutter
      BY <2>2, <2>5 DEF Replacement!vars
    <3>2. QED
      BY <3>1
  <2>6. QED
    BY <2>1, <2>3, <2>4, <2>5
<1>7. CASE ValidateSource
  <2>1. pc = "validate" /\ UNCHANGED <<file, schema, loadedSrc, provider>>
    BY <1>7 DEF ValidateSource
  <2>2. CASE src \notin Valid /\ RejectReload
    <3>1. Replacement!Reject
      BY <2>1, <2>2, <1>1, <1>b
         DEF RejectReload, Return, Replacement!Reject, UntornInv
    <3>2. QED
      BY <3>1 DEF Replacement!Next
  <2>3. CASE pc' = "update" /\ UNCHANGED <<src, fetched, ready>>
    <3>1. Stutter
      BY <2>1, <2>3 DEF Replacement!vars
    <3>2. QED
      BY <3>1
  <2>4. QED
    BY <1>7, <2>2, <2>3 DEF ValidateSource, Validates
<1>8. CASE ProviderRead
  <2>1. pc = "update" /\ UNCHANGED <<file, schema, loadedSrc, provider>>
    BY <1>8 DEF ProviderRead
  <2>2. file \in Valid /\ file \in Parses
    BY <2>1, <1>b DEF LoadInv, UntornInv
  <2>3. PICK r \in Reading :
           \/ r \notin Parses /\ RejectReload
           \/ r \in Parses /\ fetched' = r /\ pc' = "swap" /\ UNCHANGED <<src, ready>>
    BY <1>8 DEF ProviderRead
  <2>4. CASE r \notin Parses /\ RejectReload
    <3>1. Replacement!Reject
      BY <2>1, <2>2, <2>4, <1>0, <1>1, <1>b
         DEF RejectReload, Return, Replacement!Reject
    <3>2. QED
      BY <3>1 DEF Replacement!Next
  <2>5. CASE r \in Parses /\ fetched' = r /\ pc' = "swap" /\ UNCHANGED <<src, ready>>
    <3>1. r = file
      BY <2>5, <1>0, <1>b, ContentsAssumption
    <3>2. Replacement!Offer
      BY <2>1, <2>2, <2>5, <3>1, <1>b DEF Replacement!Offer
    <3>3. QED
      BY <3>2 DEF Replacement!Next
  <2>6. QED
    BY <2>3, <2>4, <2>5
<1>9. CASE ProviderSwap
  <2>1. Replacement!Install
    BY <1>9, <1>1 DEF ProviderSwap, Replacement!Install
  <2>2. QED
    BY <2>1 DEF Replacement!Next
<1>10. CASE CommitReload
  <2>1. Replacement!Accept
    BY <1>10 DEF CommitReload, Return, Replacement!Accept
  <2>2. QED
    BY <2>1 DEF Replacement!Next
<1>11. CASE UntornWrite
  <2>1. Replacement!Publish
    BY <1>11 DEF UntornWrite, AnyWrite, Write, FileStates,
                 Replacement!Publish, Replacement!Published
  <2>2. QED
    BY <2>1 DEF Replacement!Next
<1>12. CASE Poll \/ InspectorStops \/ WriteSchema \/ UNCHANGED vars
  <2>1. UNCHANGED <<file, schema, task>>
    BY <1>12 DEF Poll, InspectorStops, WriteSchema, vars
  <2>2. Stutter
    BY <2>1 DEF Replacement!vars
  <2>3. QED
    BY <2>2
<1>13. CASE Crash
  BY <1>a, <1>13 DEF Crash
<1>14. CASE Restart
  <2>1. Stutter
    BY <1>14 DEF Restart, Replacement!vars
  <2>2. QED
    BY <2>1
<1>15. QED
  BY <1>2, <1>3, <1>4, <1>5, <1>6, <1>7, <1>8, <1>9, <1>10, <1>11, <1>12,
     <1>13, <1>14, <1>c
     DEF UntornNext, PdpStep, TaskStep

\* Unless the file is replaced between the two readings of a load, startup
\* and the reload task implement the abstract hot reload: only valid
\* published contents go live, each as a whole, and a rejection changes
\* nothing but readiness.
THEOREM ReloadImplementsHotReload == UntornSpec => ImplementsHotReload
<1>1. QED
  BY ImplementsInit, ImplementsStep, UntornInvariant, PTL
     DEF UntornSpec, ImplementsHotReload, Replacement!Spec
=============================================================================
