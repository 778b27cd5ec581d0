---------------------------- MODULE PolicyReload ----------------------------
(***************************************************************************)
(* The life of the policy set: its first load at startup (server.rs), the  *)
(* background task that reloads it (policy.rs), the file inspector that    *)
(* announces changes over a bounded broadcast channel and the provider     *)
(* that holds the policy set in memory (both of cedar-local-agent,         *)
(* external), whoever publishes the policy and schema files, and crashes   *)
(* after which the process starts again with nothing but these files.      *)
(*                                                                         *)
(* The schema file is read once, at startup.  The policy file is read by   *)
(* three parties that do not coordinate: the inspector hashes it, reload() *)
(* reads and validates it, and the provider reads it again when it is told *)
(* to update.  Each read is a step of its own, and the publisher may act   *)
(* between any two of them.                                                *)
(***************************************************************************)
EXTENDS Naturals

CONSTANTS
    Contents,    \* the readable contents the policy file may have
    Parses,      \* those PolicySet::from_str accepts
    Schemas,     \* the schemas the schema file may hold
    ValidUnder,  \* for each schema the contents validate_source accepts
    Unreadable,  \* what reading a missing, unreadable or (schema) bad file yields
    Nothing,     \* no content: a variable that was not assigned yet
    Capacity,    \* events the broadcast channel keeps for a slow receiver
    IoErrors     \* whether a read of a readable file may fail

ASSUME ContentsAssumption ==
    /\ Parses \subseteq Contents
    /\ ValidUnder \in [Schemas -> SUBSET Parses]
    /\ Unreadable \notin Contents \cup Schemas
    /\ Nothing \notin Contents \cup Schemas \cup {Unreadable}

ASSUME ChannelAssumption == Capacity \in Nat \ {0}

ASSUME IoAssumption == IoErrors \in BOOLEAN

VARIABLES
    file,        \* the policy file: a content or Unreadable
    schemaFile,  \* the schema file: a schema or Unreadable
    schema,      \* the schema the process has loaded
    pc,          \* where startup or the reload task stands
    src,         \* local `src` of reload(), the source it validated
    fetched,     \* what update_provider_data read and parsed
    loadedSrc,   \* local `loaded_src` of the reload task
    provider,    \* the policy set the provider serves
    ready,       \* Readiness
    inspecting,  \* whether the inspector task is running
    inspected,   \* the content the inspector hashed last
    pending,     \* events in the channel the task has not received
    lagged       \* whether the channel dropped an event it had kept

task == <<pc, src, fetched, loadedSrc, provider, ready>>
inspector == <<inspecting, inspected>>
channel == <<pending, lagged>>
schemas == <<schemaFile, schema>>
vars == <<file, schemas, task, inspector, channel>>

FileStates == Contents \cup {Unreadable}
SchemaStates == Schemas \cup {Unreadable}

\* What the process takes to be valid: it keeps the schema it started with.
Valid == IF schema \in Schemas THEN ValidUnder[schema] ELSE {}

Startup == {"load_schema", "new_provider", "load", "spawn"}
Reloading == {"read", "validate", "update", "swap", "commit"}
\* The process serves requests; in "ended" without a reload task.
Serving == {"recv", "ended"} \cup Reloading

TypeOK ==
    /\ file \in FileStates
    /\ schemaFile \in SchemaStates
    /\ schema \in Schemas \cup {Nothing}
    /\ pc \in Startup \cup Serving \cup {"exited"}
    /\ src \in Contents \cup {Nothing}
    /\ fetched \in Parses \cup {Nothing}
    /\ loadedSrc \in Contents \cup {Nothing}
    /\ provider \in Parses \cup {Nothing}
    /\ ready \in BOOLEAN
    /\ inspecting \in BOOLEAN
    /\ inspected \in FileStates \cup {Nothing}
    /\ pending \in 0..Capacity
    /\ lagged \in BOOLEAN

\* One read of the file: what it holds, or a failure of the file system.
Reading == {file} \cup (IF IoErrors THEN {Unreadable} ELSE {})

-----------------------------------------------------------------------------
(* Startup, server.rs: each failure makes run() return an error and the    *)
(* process exits.  Its memory goes with it: only the files persist.        *)

Init ==
    /\ file \in FileStates
    /\ schemaFile \in SchemaStates
    /\ schema = Nothing
    /\ pc = "load_schema"
    /\ src = Nothing
    /\ fetched = Nothing
    /\ loadedSrc = Nothing
    /\ provider = Nothing
    /\ ready = FALSE
    /\ inspecting = FALSE
    /\ inspected = Nothing
    /\ pending = 0
    /\ lagged = FALSE

Exit ==
    /\ pc' = "exited"
    /\ schema' = Nothing
    /\ src' = Nothing
    /\ fetched' = Nothing
    /\ loadedSrc' = Nothing
    /\ provider' = Nothing
    /\ ready' = FALSE
    /\ inspecting' = FALSE
    /\ inspected' = Nothing
    /\ pending' = 0
    /\ lagged' = FALSE

\* The only reading of the schema file.
LoadSchema ==
    /\ pc = "load_schema"
    /\ \/ /\ IoErrors \/ schemaFile \notin Schemas
          /\ Exit
       \/ /\ schemaFile \in Schemas
          /\ schema' = schemaFile
          /\ pc' = "new_provider"
          /\ UNCHANGED <<src, fetched, loadedSrc, provider, ready, inspector, channel>>
    /\ UNCHANGED <<file, schemaFile>>

\* The provider reads the file once and parses it; it knows no schema.
NewProvider ==
    /\ pc = "new_provider"
    /\ \E r \in Reading :
         \/ /\ r \notin Parses
            /\ Exit
         \/ /\ r \in Parses
            /\ provider' = r
            /\ pc' = "load"
            /\ UNCHANGED <<schema, src, fetched, loadedSrc, ready, inspector, channel>>
    /\ UNCHANGED <<file, schemaFile>>

\* What validate_source makes of a source: syntax, strict schema validation,
\* priorities and decision-context keys (the last two are in Policies).
\* Mistake: a source that parses is taken for valid.
ParsesOnly(c) == c \in Parses
\* Mistake: the schema file is consulted as it is now, the handlers' is not.
ValidatesPublished(c) == schemaFile \in Schemas /\ c \in ValidUnder[schemaFile]
Validates(c) == c \in Valid

\* The file is read a second time, and it is this reading that is validated.
LoadAndValidate ==
    /\ pc = "load"
    /\ \E r \in Reading :
         \/ /\ ~Validates(r)
            /\ Exit
         \/ /\ Validates(r)
            /\ loadedSrc' = r
            /\ pc' = "spawn"
            /\ UNCHANGED <<schema, src, fetched, provider, ready, inspector, channel>>
    /\ UNCHANGED <<file, schemaFile>>

\* Readiness::new(true), then the inspector and the reload task start.
SpawnReloadTask ==
    /\ pc = "spawn"
    /\ pc' = "recv"
    /\ ready' = TRUE
    /\ inspecting' = TRUE
    /\ UNCHANGED <<file, schemas, src, fetched, loadedSrc, provider, inspected, channel>>

-----------------------------------------------------------------------------
(* The inspector, external: it polls the file and announces a content      *)
(* whose hash differs from the last one.                                   *)

\* Mistake: a channel without a capacity.
AnnounceUnbounded == pending' = pending + 1 /\ UNCHANGED lagged

\* tokio's broadcast channel never makes the sender wait: over capacity the
\* oldest event is dropped and the receiver is told that it lagged.
Announce ==
    IF pending < Capacity
    THEN pending' = pending + 1 /\ UNCHANGED lagged
    ELSE lagged' = TRUE /\ UNCHANGED pending

\* The first poll may announce what it sees or just remember it; a failed
\* read is announced once or (no step) passed over.
Poll ==
    /\ inspecting
    /\ pc # "ended"
    /\ \E r \in Reading \ {inspected} :
         /\ inspected' = r
         /\ \/ Announce
            \/ r \in Contents /\ inspected = Nothing /\ UNCHANGED channel
    /\ UNCHANGED <<file, schemas, task, inspecting>>

\* The inspector task is gone, and with it the sending half of the channel.
InspectorStops ==
    /\ inspecting
    /\ inspecting' = FALSE
    /\ UNCHANGED <<file, schemas, task, inspected, channel>>

-----------------------------------------------------------------------------
(* The reload task, policy.rs.                                             *)

RecvEvent ==
    /\ pc = "recv"
    /\ ~lagged
    /\ pending > 0
    /\ pending' = pending - 1
    /\ pc' = "read"
    /\ UNCHANGED <<file, schemas, src, fetched, loadedSrc, provider, ready, inspector, lagged>>

\* recv() fails when the channel closed and also when the receiver lagged;
\* the loop breaks for either, and readiness keeps the value it has.
RecvError ==
    /\ pc = "recv"
    /\ lagged \/ (~inspecting /\ pending = 0)
    /\ pc' = "ended"
    /\ UNCHANGED <<file, schemas, src, fetched, loadedSrc, provider, ready, inspector, channel>>

\* reload() returns to recv(), having set readiness.
Return(isReady) ==
    /\ pc' = "recv"
    /\ ready' = isReady
    /\ src' = Nothing
    /\ fetched' = Nothing

\* A rejected reload: the error is logged, the previous policy serves on.
SilentReject == Return(ready)
RejectReload == Return(FALSE)

\* An event without a content change is no failure and clears an earlier one.
StickySkip == Return(ready)
SkipReload == Return(TRUE)

\* Mistake: after a failed read the task forgets what it has loaded.
ReadSourceForgets ==
    /\ pc = "read"
    /\ \E r \in Reading :
         \/ /\ r = Unreadable
            /\ loadedSrc' = Nothing
            /\ RejectReload
         \/ /\ r \in Contents
            /\ src' = r
            /\ pc' = "validate"
            /\ UNCHANGED <<fetched, loadedSrc, ready>>
    /\ UNCHANGED <<file, schemas, provider, inspector, channel>>

ReadSource ==
    /\ pc = "read"
    /\ \E r \in Reading :
         \/ /\ r = Unreadable
            /\ RejectReload
         \/ /\ r = loadedSrc
            /\ SkipReload
         \/ /\ r \in Contents \ {loadedSrc}
            /\ src' = r
            /\ pc' = "validate"
            /\ UNCHANGED <<fetched, ready>>
    /\ UNCHANGED <<file, schemas, loadedSrc, provider, inspector, channel>>

\* Mistake: readiness is restored before the provider has been updated.
ValidateSourceReadyFirst ==
    /\ pc = "validate"
    /\ \/ /\ ~Validates(src)
          /\ RejectReload
       \/ /\ Validates(src)
          /\ pc' = "update"
          /\ ready' = TRUE
          /\ UNCHANGED <<src, fetched>>
    /\ UNCHANGED <<file, schemas, loadedSrc, provider, inspector, channel>>

ValidateSource ==
    /\ pc = "validate"
    /\ \/ /\ ~Validates(src)
          /\ RejectReload
       \/ /\ Validates(src)
          /\ pc' = "update"
          /\ UNCHANGED <<src, fetched, ready>>
    /\ UNCHANGED <<file, schemas, loadedSrc, provider, inspector, channel>>

\* Mistake: the outcome of the update is swallowed, as the library's own
\* update_provider_data_task does.
ProviderReadSwallowed ==
    /\ pc = "update"
    /\ \E r \in Reading :
         \/ /\ r \notin Parses
            /\ pc' = "commit"
            /\ UNCHANGED <<src, fetched, ready>>
         \/ /\ r \in Parses
            /\ fetched' = r
            /\ pc' = "swap"
            /\ UNCHANGED <<src, ready>>
    /\ UNCHANGED <<file, schemas, loadedSrc, provider, inspector, channel>>

\* update_provider_data opens the file again: src is not handed over.
ProviderRead ==
    /\ pc = "update"
    /\ \E r \in Reading :
         \/ /\ r \notin Parses
            /\ RejectReload
         \/ /\ r \in Parses
            /\ fetched' = r
            /\ pc' = "swap"
            /\ UNCHANGED <<src, ready>>
    /\ UNCHANGED <<file, schemas, loadedSrc, provider, inspector, channel>>

\* The write lock is taken and the policy set replaced as a whole.
ProviderSwap ==
    /\ pc = "swap"
    /\ provider' = fetched
    /\ pc' = "commit"
    /\ UNCHANGED <<file, schemas, src, fetched, loadedSrc, ready, inspector, channel>>

\* Mistake: a successful reload does not restore readiness.
CommitReloadStaysNotReady ==
    /\ pc = "commit"
    /\ loadedSrc' = src
    /\ Return(ready)
    /\ UNCHANGED <<file, schemas, provider, inspector, channel>>

CommitReload ==
    /\ pc = "commit"
    /\ loadedSrc' = src
    /\ Return(TRUE)
    /\ UNCHANGED <<file, schemas, provider, inspector, channel>>

TaskStep ==
    \/ LoadSchema \/ NewProvider \/ LoadAndValidate \/ SpawnReloadTask
    \/ RecvEvent \/ RecvError
    \/ ReadSource \/ ValidateSource
    \/ ProviderRead \/ ProviderSwap \/ CommitReload

-----------------------------------------------------------------------------
(* The process as a whole, external: it may die at any moment, and the     *)
(* orchestrator starts the container again.                                *)

Crash ==
    /\ pc # "exited"
    /\ Exit
    /\ UNCHANGED <<file, schemaFile>>

Restart ==
    /\ pc = "exited"
    /\ pc' = "load_schema"
    /\ UNCHANGED <<file, schemas, src, fetched, loadedSrc, provider, ready, inspector, channel>>

PdpStep == TaskStep \/ Poll \/ InspectorStops \/ Crash \/ Restart

-----------------------------------------------------------------------------
(* The publisher, external: S3 synchronisation, an editor, a deployment.   *)
(* A file caught half written is one more content.                         *)

Write(c) ==
    /\ c # file
    /\ file' = c
    /\ UNCHANGED <<schemas, task, inspector, channel>>

WriteSchema ==
    /\ schemaFile' \in SchemaStates \ {schemaFile}
    /\ UNCHANGED <<file, schema, task, inspector, channel>>

\* Nothing in the program or its deployment restrains the publisher.
AnyWrite == \E c \in FileStates : Write(c)

\* Between the reading that is validated and the provider's own reading.
Torn == pc \in {"load", "validate", "update"}

UntornWrite == ~Torn /\ AnyWrite

\* A publisher that, besides, lets the inspector take its first look and
\* does not put back a content the inspector still remembers.
CarefulWrite ==
    /\ ~Torn
    /\ \E c \in FileStates :
         /\ \/ pc \in {"load_schema", "new_provider", "exited", "ended"}
            \/ inspected \notin {Nothing, c}
         /\ Write(c)

Next == PdpStep \/ WriteSchema \/ AnyWrite
UntornNext == PdpStep \/ WriteSchema \/ UntornWrite
CarefulNext == PdpStep \/ WriteSchema \/ CarefulWrite

Spec == Init /\ [][Next]_vars
UntornSpec == Init /\ [][UntornNext]_vars
CarefulSpec == Init /\ [][CarefulNext]_vars

\* The runtime runs every task that can make a step, and the interval timer
\* of the inspector fires again and again; an exited container is restarted.
Fairness == WF_vars(TaskStep) /\ WF_vars(Poll) /\ WF_vars(Restart)

FairSpec == Spec /\ Fairness
UntornFairSpec == UntornSpec /\ Fairness
CarefulFairSpec == CarefulSpec /\ Fairness

-----------------------------------------------------------------------------
(* Properties.                                                             *)

\* Fail-fast: whatever the publisher does, a process that serves requests
\* has validated the source it compares later readings with, and what its
\* provider holds has at least been parsed (server.rs:36-39, policy.rs:225).
ServesAfterValidation ==
    pc \in Serving => loadedSrc \in Valid /\ provider \in Parses

\* DESIGN.md 7: a content that parses but does not match the schema is never
\* live, not for an instant.
NeverUnvalidatedLive ==
    pc \in Serving => provider \in Valid

\* The comparison `src == *loaded_src` (policy.rs:209) stands for "src is
\* already live"; it does so only while loaded_src is what the provider
\* holds, which two reads, three error paths and a late assignment keep up.
SkipIsSound ==
    pc \in Serving \ {"commit"} => loadedSrc = provider

\* Nothing is under way and the inspector has seen the file as it is.
Quiet == pc = "recv" /\ pending = 0 /\ ~lagged /\ inspected = file

\* With nothing under way, a ready PDP serves what is published, and it is
\* not ready only because what is published is bad or a read failed.
QuiescentAgreement ==
    Quiet => IF ready
             THEN file \in Valid /\ provider = file
             ELSE IoErrors \/ file \notin Valid

\* A step of a living process that withdraws readiness, or with which a
\* reload returns and does not give it back.
EndsNotReady ==
    /\ pc' # "exited"
    /\ ~ready'
    /\ ready \/ (pc \in Reloading /\ pc' = "recv")

\* Fail-static: a reload is rejected before it has touched the provider, the
\* first rejection and those that follow it while not ready alike, and leaves
\* the policy set and the source it is compared with alone; nothing but a
\* rejected reload withdraws readiness (policy.rs:200-232).
FailStatic ==
    [][EndsNotReady =>
         /\ pc \in {"read", "validate", "update"}
         /\ UNCHANGED <<provider, loadedSrc>>]_vars

\* DESIGN.md 7: what a reload puts live is what it has validated.
ReloadInstallsValidated ==
    [][pc = "swap" /\ pc' = "commit" => provider' = src]_vars

\* In the end the reload task is there: it neither lags nor loses its sender,
\* or else a restart has replaced it; and crashes come to an end.
TaskLives == <>[](pc # "ended") /\ <>[][~Crash]_vars

\* The content is valid under the published schema, and also under the one a
\* running process has loaded.
Accepted(c) ==
    /\ schemaFile \in Schemas
    /\ c \in ValidUnder[schemaFile]
    /\ schema # Nothing => c \in Valid

\* A valid file that stays as it is ends up live, with /readyz at 200, after
\* whatever crashes, failed startups and rejected reloads went before.
StableValidServed ==
    \A c \in Parses :
        TaskLives /\ <>[](file = c /\ Accepted(c)) => <>[](provider = c /\ ready)

\* A bad file that stays as it is ends up reported: by /readyz, or because the
\* process does not come up with it.
StableInvalidReported ==
    \A c \in Contents :
        <>[](pc # "ended") /\ <>[](file = c /\ c \notin Valid) => <>[](~ready)

\* README: policies and schema are validated on every reload.  A policy file
\* that fits the schema file beside it would have to be served in the end.
StablePublicationServed ==
    \A s \in Schemas : \A c \in ValidUnder[s] :
        TaskLives /\ <>[](file = c /\ schemaFile = s) => <>[](provider = c)

\* README: /readyz reflects policy reload health.  A PDP that can no longer
\* reload at all would have to say so sooner or later.
DeadReloadTaskReported == (pc = "ended") ~> ~ready

\* The promise of HotReload, with the steps of the task mapped onto it.
Replacement ==
    INSTANCE HotReload WITH
        published <- file,
        rules     <- schema,
        offered <- CASE pc = "spawn" -> provider
                     [] pc = "swap"  -> fetched
                     [] OTHER        -> Nothing,
        live  <- IF pc \in Serving THEN provider ELSE Nothing,
        phase <- CASE pc \in {"spawn", "swap"} -> "offered"
                   [] pc = "commit"            -> "installed"
                   [] OTHER                    -> "idle",
        Flaky <- IoErrors

ImplementsHotReload == Replacement!Spec
=============================================================================
