# Verification of authzen-pdp

TLA+ specifications of `authzen-pdp`, the Cedar policy decision point with an
AuthZEN interface: TLC model-checks them on small instances, TLAPS proves the
most important results for every instance.

## 1. Inventory of the system

`authzen-pdp` is a sidecar: one process, a multi-threaded tokio runtime, one
HTTP server, one background task, a policy and a schema file on a mount that
somebody else (S3 synchronisation, an operator) replaces.

| Component | Source | State | Operations |
|---|---|---|---|
| policy loading and hot reload | `policy.rs` | the schema; `loaded_src` of the reload task; the provider's in-memory policy set | `load_schema`, `new_provider`, `load_and_validate`, `validate_source`, `spawn_reload_task`, `reload` |
| file inspector, broadcast channel, provider | cedar-local-agent, tokio (external) | last hash, buffered events, policy set | poll, send / recv, `update_provider_data`, `get_policy_set` |
| readiness | `state.rs` | one `AtomicBool` shared by server and task | `set_ready`, `is_ready` |
| annotation checks | `policy.rs:104-154` | none | `validate_priorities`, `validate_decision_contexts` |
| response context | `convert.rs`, `handlers.rs:123` | none | `display_id`, `priority_of`, `to_decision_context`, `resolve_reason`, `build_response_context` |
| request conversion | `convert.rs:52-106`, `error.rs`, `authzen.rs` | none | `to_cedar`, error codes and statuses |
| evaluation endpoint | `handlers.rs` | per request: body, authorizer response, reply | `evaluate` with its two awaits |
| process and server | `main.rs`, `server.rs` | where startup stands, the socket, the signal handler | `run`, `shutdown_signal`, `router`, exit codes |
| health subcommand, probes | `health.rs`, `handlers.rs:169-180` | none; the subcommand is a process of its own in the same environment | connect, ask `/healthz`, exit code; `/readyz` |
| configuration | `config.rs` | environment | `from_env`, `health_target` |
| discovery metadata | `handlers.rs:157` | none | `metadata` |

How they interact. `server::run` loads the schema, once for the life of the
process, then reads the policy file twice (the provider
parses it, then `load_and_validate` validates it), spawns the reload task with
the text it validated, and only then binds the socket. The inspector announces
changes of the file over a bounded broadcast channel; `reload` reads the file,
compares, validates, and tells the provider to update, which **reads the file
again**. Handlers share the provider with the reload task: the authorizer takes
one snapshot to decide, `evaluate` takes **another** to explain. Readiness is
written by the reload task and read by `/readyz`; evaluation never looks at it
(fail-static). The health subcommand computes its target from the same variable
as the server its bind address, by other rules, and asks `/healthz`, never
`/readyz`. A crash loses everything but the two files: what fail-static survived
is judged again, by fail-fast.

What is hard: three readers of one file with no coordination between them and
the writer; state that is compared later (`loaded_src`) and must not drift from
what is live; a handler that looks at shared state before and after an await;
a channel at its limit; an error that ends the task but not the process;
signals and connections at the edges of startup and shutdown. `PROJECT.json`
lists each hazard with its line and the properties about it.

What makes each component correct:

- *reload*: only validated contents are live; a rejection touches readiness and
  nothing else; with nothing under way, ready means "serving what is published";
  a file that stays is served or reported.
- *context*: reserved keys are the PDP's; one supplier, the most urgent; every
  determining policy is listed; no dependence on hash order.
- *evaluation*: the decision is that of a policy set live during the request;
  the explanation is drawn from one policy set and, without a replacement in
  between, speaks of the policies that decided; every request is answered.
- *conversion*: 400 for defective requests only, and no decision for them.
- *composition*: handlers find one validated policy set at any moment; a request
  is decided by policies checked against the schema it was converted by; a valid
  file left alone is in the end what decides every request.
- *process*: fail-fast startup, graceful shutdown that ends.
- *health check*: it fails only when the process is down or going down, never
  for a bad policy.

## 2. The modules

| Module | Models | Kind |
|---|---|---|
| `HotReload` | what DESIGN.md promises of hot reload | abstract specification |
| `PolicyReload` | startup load, reload task, inspector, channel, provider, publisher, crashes | state machine, implements `HotReload` |
| `PolicyReloadProofs` | theorems about `PolicyReload` | proofs |
| `Policies` | policy sets, annotation checks, context selection; Cedar's decision (external) | operators |
| `ResponseContext` | one answer computed from one policy set | state machine over all inputs |
| `AtomicEvaluation` | what an evaluation promises to a client | abstract specification |
| `Evaluation` | concurrent handlers with replacements underneath, request conversion | state machine, implements `AtomicEvaluation` |
| `Pdp` | `PolicyReload` and `Evaluation` over one provider | composition, implements `Evaluation` |
| `PoliciesProofs` | lemmas about the operators of `Policies`: the least element, sorting, the context's keys | proofs |
| `ResponseContextProofs` | theorems about `ResponseContext` | proofs |
| `EvaluationProofs`, `ExplanationProofs`, `AtomicityProofs` | theorems about `Evaluation`: types and rejections; what an answer explains; the refinement of `AtomicEvaluation` | proofs |
| `PdpProofs` | theorems about `Pdp`: the refinement of `Evaluation`, and by which policies a request is decided | proofs |
| `LifecycleProofs` | theorems about `Lifecycle` | proofs |
| `Lifecycle` | configuration, `main`, `server::run`, SIGTERM, connections, health subcommand | state machine |
| `MC*` | small instances | model-checking modules |

Definitions whose comment begins with *Mistake:* are wrong variants of the
definition that follows them (a dropped check, a swapped order, a missing
assignment). They are not part of any specification; `PROJECT.json` pairs each
with the property that detects it.

### PolicyReload

`file` is the policy file; a content is a model value. `Parses` are the contents
`PolicySet::from_str` accepts, `ValidUnder[s]` those `validate_source` accepts
under the schema `s`, and `Valid` those it accepts under `schema`, the one this
process has loaded; `schemaFile` is what the schema file holds meanwhile.
`Unreadable` is a missing file (or a schema that does not parse); with
`IoErrors`, any single read may fail as well. `pc` follows the code:
`load_schema`, `new_provider`, `load`, `spawn` are the steps of
`server::run`; `recv` is `receiver.recv().await`; `read`, `validate`, `update`,
`swap`, `commit` are the steps of `reload` with `update_provider_data` split
into its read and its swap; `ended` is the loop after its `break`; `exited` a
process that is gone, after a failed startup or a `Crash`, which may come at any
moment. `Exit` resets every variable but the files, and `Restart` begins again
with `load_schema`. `src`, `fetched`, `loadedSrc` are the locals; `provider` and
`ready` the shared state. Every reading of the file is a step of its own.

The inspector and channel are external. The inspector remembers the last
content it hashed and announces a different one. Whether its first look
announces what it finds or merely remembers it, and whether a failed read is
announced, are left open: both happen in the model. The channel is tokio's
broadcast channel (`recv` returns a `Result`, and the lock file has no other
channel with such a receiver): it keeps `Capacity` events, and over capacity the
receiver is told that it lagged. The events carry nothing the code uses but a
log line, so the channel is the number of events waiting. The inspector may stop
at any time, which closes the channel.

The schema file may change at any moment (`WriteSchema`), which the process does
not notice. Three publishers of the policy file, that is three specifications:

- `Spec`: writes at any moment. This is what the deployment allows.
- `UntornSpec`: no write between the reading a load validates and the
  provider's own reading (`Torn`). At startup the provider reads first.
- `CarefulSpec`: besides, no write after startup has read the file and before
  the inspector's first look, and none that puts back the content the inspector
  hashed last. A publisher who writes a new content at most once per poll period
  is careful.

### Policies and ResponseContext

Strings that are compared (`@id`, `policy0`) are numbers, their rank in string
order; `@priority` is a number, anything that is no `u32` being one outside
`0..LowestPriority`; annotation values are model values. `@decision_context_`
annotations are a function from keys to values, the empty and the reserved keys
included, so that what the load-time checks refuse can be written down.
A policy carries at most one `@id` and one `@priority` (`IsPolicySet`; Cedar's
parser refuses a second annotation of the same key), which is the assumption on
every policy set the models are given.

`Least` is what `min_by` keeps of the policies found: one that no other
precedes, the first of those in the list. `Sorted` is `sort_unstable` for
elements that cannot be told apart when they are equal; it is defined by the
place each element takes (`Rank`), which says what a sort returns without saying
how, and is what the proofs about `reason` count with.

`ResponseContext` takes any such policy set, lets Cedar (external: forbid over
permit, failing policies ignored) decide, lists the determining policies in any
order, and computes the context.

### Evaluation

`Receive` is `evaluate` up to its first await: parse and convert, each failure
answering 400. `Authorize` is `is_authorized`: one snapshot of the provider
decides, and its diagnostics list the determining policies in any order
(`Decisions`). `Explain` is everything after `get_policy_set`; with `ProviderErrors`
that call and the authorizer may fail. `Release` ends an exchange or drops the
handler's future at an await because the client is gone. `Replace` puts another
policy set live; it may be any that passes `ValidAnnotations`, which is what
`PolicyReload` establishes for the contents in `Valid` (`Pdp` checks that it
does). `Restart` is a new process: requests are gone, another set may be live. A
request is abstracted to what may be wrong with each of its parts; a context that
is left out is in order (`absent`) or not (`missing`), depending on whether the
schema requires attributes of it, which `Request::new` finds out. `decidedBy`
and `explainedBy` are history variables: no guard reads them.

`ExplainedByOneSet` is about the whole interleaving. The second look may find
another policy set than the first; whichever it finds, the names and the
annotation keys and values are drawn from that set alone, under the ids that
decided. That these are the deciders' own names and keys is then a question of
which set was found: without a replacement in between it follows, with one it
fails (`evaluation_torn`).

`AtomicEvaluation` is the promise to a client that knows nothing of snapshots: a
request is refused for a defect, or fails, or is decided at one instant, and the
answer carries that verdict. A verdict is the decision, how many policies
determined it, and which failed. The refinement mapping takes the verdict from
the authorizer's response until the reply is sent and **from the reply** from
then on, so the conversion of the response into JSON has to preserve it whatever
set the second look finds. The names in the explanation are not promised: they
may be wrong (`evaluation_torn`).

### Pdp

`PolicyReload` (with the careful publisher) and `Evaluation` share one provider,
as `AppState` does. `PolicySetOf` gives each content that parses a policy set.
`PolicyStep` is any step of the first; when the process exits, `DropRequests`
ends its exchanges. `Arrive`, `Work`, `Leave` are the handlers' steps of the
second, possible while the process serves, ready or not. The provider of
`Evaluation` is `Live`, the set of the content the reload task has swapped in.
`ImplementsEvaluation` says that the composition is a behaviour of `Evaluation`,
so whatever that run shows of the handlers holds in the composition: in
particular the provider never holds a set that is not in `LiveSets`, which is an
assumption of `Evaluation` and a result of the reload here. `DecidedByValid` says
more than `Evaluation` can, which knows no schema: handlers convert a request by
the schema the process loaded at startup, and each set that decides or explains
it has been validated under that schema, not under the file published since.

### Lifecycle

`env` is the environment of the container. `ConfigError`, `Bind` and
`HealthTarget` are `from_env` and `health_target`: the same variable read twice,
with an error on the one side and a default on the other. `Reaches` is the
operating system's part (a wildcard address takes what comes to the loopback; an
IPv6 one only unless the system keeps it to IPv6; the port the system picks for
0 is known to nobody). `Finds` applies it to the health subcommand, which works
its target out by itself; other clients are taken to know an address that works.
`stage` is the next step of `main` and `server::run`,
`After` their order; every step but the spawning of the task may fail, and
`config` does exactly when `ConfigError` holds; then the process exits with
`FAILURE`. `ready` is the flag of `PolicyReload`, which may change at any time
here.

A connection is in the backlog once the socket is bound, then accepted, then
`partial` when a request has begun to come and `open` when all of it is there;
it is answered `ok` or `unready`, may be kept alive for another request, or is
`refused` or `cut`. The SIGTERM handler is installed when axum first polls the
shutdown future; if that fails the future ends and so does the server
(`server.rs:116`). Graceful shutdown drops the listener and with it the
backlog, closes the connections on which no request has begun (`CloseUnused`),
and waits for the others. What "begun" means is hyper's affair: on a fresh
connection the first byte counts, on one that was kept alive hyper is idle until
the head of the next request is complete and closes it until then. So `accepted`
stands for both, a fresh connection without a byte and a kept-alive one with at
most a part of the next head, and `BegunIsAnswered` promises nothing to the
latter. SIGTERM without a handler kills the process unless it is number
1 in its container. `Kill` is a crash or SIGKILL; SIGINT has no handler and is a
`Kill` too. The health subcommand is a client in `Probes`: it connects to
`HealthTarget`, asks `/healthz`, exits 0 for a 200 and 1 for another answer, a
refusal (a connect that times out is one) or a connection cut.

## 3. What TLC checks

| Run | Specification | Question | Result |
|---|---|---|---|
| `reload_untorn` | `UntornSpec`, failing reads | types and channel bound; fail-fast; fail-static, for a first and for repeated rejections; only validated contents live; the shortcut `src == loaded_src` is sound; implements `HotReload` | holds |
| `reload_careful` | `CarefulFairSpec` | quiescent agreement; a stable file is served or reported, across crashes | holds |
| `reload_torn` | `Spec` | what a reload puts live is what it validated | **violated** |
| `reload_restored` | `UntornFairSpec` | a stable valid file is served | **violated** |
| `reload_dead_task` | `CarefulFairSpec` | a dead reload task shows in `/readyz` | **violated** |
| `reload_schema` | `CarefulFairSpec` | a policy file that fits the schema file beside it is served | **violated** |
| `response_context` | `ResponseContext` | the context follows README and DESIGN 2.2 | holds |
| `response_ties` | `ResponseContext` | the supplier is determined without distinct ids | **violated** |
| `evaluation` | `Evaluation`, two handlers | 400 exactly for defects; implements `AtomicEvaluation`; an answer is explained out of one policy set | holds |
| `evaluation_torn` | `Evaluation`, one handler | `reason` names the policies that decided | **violated** |
| `pdp` | `PdpFairSpec`, one handler | implements `Evaluation`; deciding policies are valid under the schema requests are converted by; requests are answered during reloads; a stable valid file decides every request | holds |
| `lifecycle` | `Lifecycle`, a client and a probe | clean exit; begun requests answered; the health check follows liveness; SIGTERM ends the process; probes return | holds |

The violations are disagreements between the code and its documents:

1. `reload_torn`. `reload` validates what `read_source` returned
   (`policy.rs:200`), the provider installs what it reads afterwards
   (`policy.rs:223`). A file replaced in between goes live unvalidated, with
   `/readyz` at 200 and `loaded_src` holding another text; DESIGN.md:427-429 says
   this never happens. The same gap exists at startup (`server.rs:37-38`), where
   the provider reads first.
2. `reload_restored`. An event is handled with the file as it is then. If the
   earlier content is put back before the next poll, the inspector sees no change
   and the content in between is served until the next change. The run admits a
   shorter case of the same kind: a change after startup has read the file and
   before the inspector's first look, if that look merely remembers what it
   finds. DESIGN.md:35.
3. `reload_dead_task`. `recv` fails for a closed channel and for a lagging
   receiver alike; the loop breaks and readiness keeps its value. README.md:61.
4. `reload_schema`. The schema is loaded at `server.rs:36` and never again; a
   reload validates against that copy. A policy file published with a new schema
   is rejected until the process is restarted, and one that is valid only under
   the old schema goes live beside the new one. README.md:79 says that policies
   *and schema* are validated on every reload (DESIGN.md:378 has the schema
   loaded at startup).
5. `response_ties`. Nothing checks that `@id` is unique (or differs from the
   internal ids), and with equal priority and shown id the first in hash order
   supplies the context. policies/README.md:108.
6. `evaluation_torn`. The second look at the provider (`handlers.rs:48`) may find
   another policy set, in which the internal ids mean other policies.
   README.md:27.

Smaller divergences met on the way, without a run of their own. An unset
`@priority` is read as u32::MAX (`convert.rs:118`) and ties with a policy that
states this number: the shown id then decides, and the policy without
`@priority` may be chosen, where policies/README.md:107 says that one with
`@priority` always comes first. `OneUrgentSupplier` states the documented order
and excepts exactly these pairs (`TiedByDefault`); the instance contains them,
and without the exception TLC finds it violated. Not in the models: reserved
`@decision_context_` keys are refused at load (`policy.rs:116`) where README.md:31
and DESIGN.md say the PDP's value wins with a warning; policies/README.md lists
`@id` as not returned, `reason` returns it; DESIGN.md:611 shows Ctrl-C leading to a graceful
shutdown, only SIGTERM does; `AUTHZ_LOG_FORMAT` and the body limit of DESIGN.md
are not implemented.

### Bounds, and why they are enough

- *Contents*: two valid ones (to tell old from new and to put one back), one that
  parses and fails validation, one that does not parse, and the missing file.
  More contents of a class add nothing: steps compare contents for equality and
  class only. Writes and crashes are not bounded, the state space is finite
  without.
- *Schemas*: two; of the contents one is valid under the old, one under the new,
  one under both, so that a schema file may part from the schema in memory in
  every way, and a missing one.
- *Capacity* 2: fewer events than the bound, the bound, and lagging all occur; 1
  in the runs that look for a short counterexample. The theorems hold for all.
- *Policy sets*: all pairs over a choice of every annotation, all triples over
  what the selection looks at: `min_by` compares pairs, and three elements give
  the iteration order its freedom. Internal ids are 1, 2, 3, an `@id` ranks
  before, between, among or after them; u32::MAX is 2 (1 and 2 are a proper
  priority and the greatest one, -1 is no priority).
- *Handlers* 2: handlers share only the provider, which they do not write; for the
  same reason 1 in `pdp`.
- *Requests*: clean ones for two queries and every pair of things that may be out
  of the ordinary; the order in which two defects are found is what matters.
- *Contents* in `pdp`: two valid ones that decide the query differently and give
  internal id 1 to different policies, one of them under only one of two schemas,
  and one the annotation checks refuse.
- *Environments*: no bind address, a malformed one, each kind of ip with a port,
  port 0, another variable missing; process 1 or not.
- *Clients* 2: one may be open while the other connects during the shutdown.

`response_context` ends when the answer is computed, so it and `response_ties`
do not check for deadlock; the other runs do.

### Fairness

`PolicyReload`: weak fairness of the task (tokio polls what is ready), of the
poll (an interval timer) and of `Restart` (the orchestrator keeps the container
up). None of the publishers, of crashes, or of the inspector's
death. `StableValidServed` is conditional on the task being alive in the end and
crashes ending (`TaskLives`), `StableInvalidReported` on the former, since the
code lets the task die.
`Pdp`: besides, weak fairness of each handler past its conversion; `Evaluation`
by itself is checked for safety only. `Lifecycle`: weak fairness of startup and
shutdown steps, of accepting and answering each connection and of closing unused
ones during a shutdown; a request that has begun to arrive is completed
(`ReadAll`), since the code sets no timeout against a client that leaves it
half-way, and then shutdown would wait for it; that a request begins is assumed
of the health subcommand only.

## 4. What is proved

`PolicyReloadProofs`, for all sets of contents, all capacities, with and without
failing reads, crashes and schema changes at any moment, from the named
assumptions of `PolicyReload`: what is valid under a schema parses, `Unreadable`
and `Nothing` are neither contents nor schemas, the capacity is positive. The
first three hold for any publisher; TLC checks them in `reload_untorn` with the
others.

| Theorem | Statement |
|---|---|
| `TypeCorrect` | `Spec => []TypeOK` |
| `FailFast` | `Spec => []ServesAfterValidation` |
| `RejectionIsHarmless` | `Spec => FailStatic` |
| `OnlyValidatedLive` | `UntornSpec => []NeverUnvalidatedLive` |
| `SkippingIsSound` | `UntornSpec => []SkipIsSound` |
| `QuietMeansAgreed` | `CarefulSpec => []QuiescentAgreement` |
| `ReloadImplementsHotReload` | `UntornSpec => ImplementsHotReload` |

`RejectionIsHarmless` covers each step that withdraws readiness and each with
which a reload returns without giving it back: they come before the provider is
touched, so that a rejected reload as a whole has changed readiness only.

The argument. `LoadInv` records what each program point has checked of the
contents it holds; it is inductive for any publisher. `NeverUnvalidatedLive` is
not inductive: that `provider` is valid after `swap` needs `fetched` to be valid
before, which needs it to be `src`, which needs `src` to be the file while the
provider reads. `UntornInv` says so at each program point, and is preserved by
exactly the writes `UntornSpec` allows. `QuiescentAgreement` speaks only of
moments when nothing is under way; `CaughtUpInv` says for every program point
what must be true there for the agreement to hold when the task gets back to
`recv` with no event left and the inspector up to date, and that before the
inspector's first look the file is still the one startup loaded. The refinement
maps `spawn` and `swap` to an offer that is made and not installed and `commit`
to one that is installed and not yet accepted; each step of the task is then one
step of `HotReload` or none.

`EvaluationProofs`, for any handlers, requests and policy sets, from the
assumption that says of which values the parts of a request are:

| Theorem | Statement |
|---|---|
| `EvaluationTypes` | `Spec => []TypeOK` |
| `RejectionsAreDefects` | `Spec => []OnlyDefectsAreRejected` |

`HandlerInv` says what is known of a handler at each of its places; the lemma
`ConversionFindsDefects` is about `to_cedar` alone: its ladder of checks ends
without an error exactly for the requests with no defect. Handlers do not
interfere, which `OtherHandler` states once for every action.

`PoliciesProofs` and `ResponseContextProofs`, for any policy sets of any size,
any queries, and any value of `LowestPriority`, from `IsPolicySet` of every
policy set:

| Theorem | Statement |
|---|---|
| `ReservedKeysKept` | `Spec => []ReservedKeysAreThePdps` |
| `UrgentSupplier` | `Spec => []OneUrgentSupplier` |
| `ReasonIsComplete` | `Spec => []ReasonListsEveryDeterminer` |
| `DistinctIdsDetermine` | `Spec => []DeterministicWithDistinctIds` |

`ContextInv` is inductive and short: the reason ids are one of the orders of the
determining policies, and the context of an answer is what is built from them.
The work is in the lemmas about the operators. `LeastIsOne`: among any found
policies there is exactly one that `min_by` keeps, by three applications of the
fact that a nonempty set of naturals has a least element (`LeastNatural`, from
the well-foundedness of `<`), to the priorities, to the shown ids among these,
and to the positions. `RanksOrder` and `SortedRearranges`: distinct positions
have distinct ranks within `1..Len(s)`, so `Rank` is a bijection, and the sorted
sequence is an ascending rearrangement that has every value as often as the
original. `BuiltContext`: which keys the context has and where each comes from;
`AnnotationsUnreserved`, that the annotations of an admitted set bring no
reserved key, is where the check made at load time is needed.
`UrgencyIsPriority` connects the properties, which are stated on the
annotations in the words of the documents, with `PriorityOf`: they agree but for
pairs of an explicit u32::MAX and an unset priority.

`ExplanationProofs` and `AtomicityProofs`, for any number of handlers, requests
and policy sets replaced at any moment, with and without provider errors:

| Theorem | Statement |
|---|---|
| `LookupFailureAnswers` | `Spec => []LookupFailureStillAnswers` |
| `OneSetExplains` | `Spec => []ExplainedByOneSet` |
| `EvaluationIsAtomic` | `Spec => ImplementsAtomicEvaluation` |

None of the three is inductive, since they speak of the reply only. The
strengthening is `ExplanationInv`: a handler that has been decided holds one of
the decisions its policy set allows (`Decided`), and a handler that has answered
holds the answer built from that decision and from a policy set, or none, that
may be another (`Explained`). `ReasonTells` and `AnswerTells` say what any such
answer tells of its decision whichever set explained it: as many reasons as
there are determining policies, the failing policies, the keys and values of one
supplier. `KnownAreFound` adds that the supplier is one of the policies which
decided, as far as the explaining set knows them by id.
The refinement then has one lemma per action. The step that could go wrong is
`Explain` (`ExplainAnswers`): the abstract verdict was what the authorizer said
and is now read off the reply, and `ReplyKeepsVerdict` says that it is the same.

`PdpProofs`, for any contents, schemas, capacity, handlers and policy sets, from
the assumptions of `PolicyReload` and that the policy set of a content some
schema accepts has its annotations in order (`PolicySetAssumption`):

| Theorem | Statement |
|---|---|
| `DecidersAreValid` | `PdpSpec => []DecidedByValid` |
| `PdpImplementsEvaluation` | `PdpSpec => ImplementsEvaluation` |
| `QuietMeansAgreedWhileServing` | `PdpSpec => []QuiescentAgreement` |

The composition is by construction a behaviour of `CarefulSpec`, as far as the
reload goes (the lemma `ReloadGoesOn`), so `LoadInv` and `UntornInv` hold in the composition, so what
the provider holds while the process serves is valid and `Live` is in `LiveSets`
(`LiveIsValid`). A step of the reload is then `Replace` or nothing to the
handlers, and one that ends the process is `Restart`. `DecidedByValid` is not inductive: what
decided a request stays valid only because the schema of a process that serves
does not change (`SchemaStays`) and because no request outlives its process,
which `DecidersInv` adds. Together with
`EvaluationIsAtomic` this carries the promise of `AtomicEvaluation` from one
endpoint with an arbitrary provider to the whole PDP. `PdpInit` has states only
where some schema accepts some content; without one no process ever serves.

`LifecycleProofs`, for any number of clients and probes and every environment
whose bind address is unset, malformed or an address:

| Theorem | Statement |
|---|---|
| `SuccessIsEarned` | `Spec => []CleanExit` |
| `NothingBegunIsDropped` | `Spec => BegunIsAnswered` |
| `HealthFollowsLiveness` | `Spec => HealthFailsOnlyWhenDown` |

`StageInv` records what each stage of the process has behind it (a good
configuration, the spawned task, the signal). The last theorem rests on
`HealthTargetReaches`: for every environment that `from_env` accepts and the
system can be reached in, what `health_target` makes of `AUTHZ_BIND` leads to the
socket that is bound, although the two parse it by different rules.

Every safety property, action property and refinement that a passing run checks
is the statement of a theorem. Only model-checked are the liveness properties
`StableValidServed`, `StableInvalidReported`, `EveryRequestAnswered`,
`StableValidDecides`, `SigtermStops` and `ProbesReturn`, which need fairness and
`ENABLED` and are beyond the prover.

## 5. What is not modelled

Cedar's parser, validator and evaluator, JSON and HTTP are external; logging,
OCSF records and latency are left out. `metadata` is a pure function of the
`Host` header with no state: nothing but formatting. The texts of environment
variables are reduced to unset, malformed or an address; how Rust parses an
address is left to the unit tests. A request that is too large never reaches the
code (axum's default limit answers it). The files are read as a whole: a
half-written file is one more content. Time is not modelled: the refresh period
only matters as the order of polls and writes, and a period of 0, which would
end the inspector, is one way to `InspectorStops`.

## 6. Plan

Written, in this order: `PolicyReload` with its proofs and `HotReload`;
`Policies` and `ResponseContext`; `Evaluation` and `AtomicEvaluation`; `Pdp`;
`Lifecycle`.

The proofs followed the same order: the invariants and the refinement of
`PolicyReload`; types and rejections of `Evaluation`; `Lifecycle`; the lemmas
about `Policies` and the four properties of `ResponseContext`; the explanation
and the atomicity of `Evaluation`; `Pdp`.

Next:

1. Consequences for the composition that are now stated for `Evaluation` only:
   that `ExplainedByOneSet` and `LookupFailureStillAnswers` hold of a PDP whose
   policy files are reloaded. The prover does not instantiate a temporal theorem,
   so the invariants have to be carried over as formulas about `Pdp`.
2. The safety part of the liveness properties: that a reload under way always
   comes back to `recv`, by a measure that every step of the task decreases.
3. `HotReload` by itself: what its refinement implies for a client of the
   abstract specification.
