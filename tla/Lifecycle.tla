----------------------------- MODULE Lifecycle -----------------------------
(***************************************************************************)
(* The process of the PDP: its configuration (config.rs), main.rs, the     *)
(* order of server::run, the socket, SIGTERM and graceful shutdown; and    *)
(* those that connect to it: the health subcommand (health.rs), a process  *)
(* of its own in the same environment, and any other client, each with one *)
(* connection at a time.                                                   *)
(*                                                                         *)
(* An environment has                                                      *)
(*   bind    AUTHZ_BIND: Unset, Malformed, or an address: its ip           *)
(*           ("loopback" for 127.0.0.1, "host" for any other concrete one, *)
(*           "any4", "any6", or "any6only" where the system keeps [::] to  *)
(*           IPv6) and its port ("zero", or one of a few)                  *)
(*   faults  the other variables that are missing or do not parse          *)
(*   pidOne  whether the process is number 1, which SIGTERM does not kill  *)
(*           unless it has a handler                                       *)
(***************************************************************************)
CONSTANTS
    Clients,      \* those that connect: PEPs, load balancers, and
    Probes,       \*   the runs of the health subcommand among them
    Environments, \* environments the container may be started in
    Unset,        \* the value of a variable that is not set
    Malformed     \* a text that is no socket address

ASSUME ProbesAssumption == Probes \subseteq Clients

Addresses ==
    [ip : {"loopback", "host", "any4", "any6", "any6only"}, port : STRING]

ASSUME EnvironmentsAssumption ==
    /\ Environments \subseteq
         [bind   : {Unset, Malformed} \cup Addresses,
          faults : SUBSET STRING,
          pidOne : BOOLEAN]
    /\ Unset \notin Addresses \cup {Malformed}
    /\ Malformed \notin Addresses

VARIABLES
    env,       \* the environment of the container
    stage,     \* the step of main() and server::run() to be made next
    status,    \* "running", or how the process ended
    reloading, \* whether the reload task has been spawned
    ready,     \* Readiness, which the reload task sets
    handler,   \* the SIGTERM handler: "none", "installed" or "failed"
    stopping,  \* shutdown_signal() has returned or is about to
    conn       \* each client's connection

server == <<env, stage, status, reloading, ready, handler, stopping>>
vars == <<server, conn>>

-----------------------------------------------------------------------------
(* Configuration.                                                          *)

DefaultBind == [ip |-> "loopback", port |-> "9000"]

\* Whether from_env returns an error.
ConfigError(e) == e.bind = Malformed \/ e.faults # {}

\* The address from_env makes of a bind that is no error.
Bind(e) == IF e.bind = Unset THEN DefaultBind ELSE e.bind

\* health_target reads the environment once more, by rules of its own.
HealthTarget(e) ==
    IF e.bind \in {Unset, Malformed} THEN DefaultBind
    ELSE IF e.bind.ip \in {"any4", "any6", "any6only"}
         THEN [e.bind EXCEPT !.ip = "loopback"]
         ELSE e.bind

\* A connection to the target arrives at a socket bound to the address; for
\* port 0 the system picks a port that nobody else knows.
Reaches(target, address) ==
    /\ address.port # "zero"
    /\ target.port = address.port
    /\ \/ target.ip = address.ip
       \/ address.ip \in {"any4", "any6"} /\ target.ip \in {"loopback", "host"}

\* The health subcommand finds the socket by its own reckoning; other clients
\* have been told an address that works.
Finds(c) == c \in Probes => Reaches(HealthTarget(env), Bind(env))

-----------------------------------------------------------------------------

\* The steps of startup, each with the one that follows.
After ==
    [runtime           |-> "config",
     config            |-> "load_schema",
     load_schema       |-> "new_provider",
     new_provider      |-> "load_and_validate",
     load_and_validate |-> "new_authorizer",
     new_authorizer    |-> "spawn_reload_task",
     spawn_reload_task |-> "bind",
     bind              |-> "serve"]

\* Connections wait in the backlog from the moment the socket is bound.
Listening == status = "running" /\ stage = "serve"

Init ==
    /\ env \in Environments
    /\ stage = "runtime"
    /\ status = "running"
    /\ reloading = FALSE
    /\ ready = FALSE
    /\ handler = "none"
    /\ stopping = FALSE
    /\ conn = [c \in Clients |-> "none"]

\* The far end of these connections is gone.
Cut(states) ==
    conn' = [c \in Clients |-> IF conn[c] \in states THEN "cut" ELSE conn[c]]

\* A request waits to be accepted, read as a whole, or answered.
Pending == {"backlog", "accepted", "partial", "open"}

-----------------------------------------------------------------------------
(* Startup.                                                                *)

StartupStep ==
    /\ status = "running"
    /\ stage \in DOMAIN After
    /\ stage = "config" => ~ConfigError(env)
    /\ stage' = After[stage]
    /\ reloading' = (reloading \/ stage = "spawn_reload_task")
    /\ ready' = (ready \/ stage = "spawn_reload_task")
    /\ UNCHANGED <<env, status, handler, stopping, conn>>

\* `?` leaves run() and main() exits with FAILURE: for a bad configuration
\* always, at the other steps but the spawning of the task for reasons of
\* their own.  The socket is bound last, so nobody is cut off.
StartupFails ==
    /\ status = "running"
    /\ stage \in DOMAIN After \ {"spawn_reload_task"}
    /\ stage = "config" => ConfigError(env)
    /\ status' = "failure"
    /\ UNCHANGED <<env, stage, reloading, ready, handler, stopping, conn>>

-----------------------------------------------------------------------------
(* Serving.                                                                *)

\* The reload task sets the flag from now on (PolicyReload).
SetReady ==
    /\ status = "running"
    /\ reloading
    /\ ready' = ~ready
    /\ UNCHANGED <<env, stage, status, reloading, handler, stopping, conn>>

\* The future of shutdown_signal() is first polled once axum serves.  If the
\* handler cannot be installed the future just ends, as if SIGTERM had come.
InstallHandler ==
    /\ Listening
    /\ handler = "none"
    /\ \/ handler' = "installed" /\ UNCHANGED stopping
       \/ handler' = "failed" /\ stopping' = TRUE
    /\ UNCHANGED <<env, stage, status, reloading, ready, conn>>

Move(c, from, to) ==
    /\ status = "running"
    /\ conn[c] = from
    /\ conn' = [conn EXCEPT ![c] = to]
    /\ UNCHANGED server

Accept(c) == Listening /\ Move(c, "backlog", "accepted")

\* A request begins to come in, and is there as a whole.  It has begun with
\* its first byte; on a connection kept alive hyper counts it from the end of
\* its head, and takes the connection for unused until then.
ReadSome(c) == Move(c, "accepted", "partial")
ReadAll(c) == Move(c, "partial", "open")

\* Mistake: liveness and readiness are one.
HealthzByReadiness == IF ready THEN "ok" ELSE "unready"

\* What healthz says, and readyz; metadata is "ok" whatever the request, and
\* so is evaluate here (it is Evaluation's subject).
Healthz == "ok"
Readyz == IF ready THEN "ok" ELSE "unready"

\* Probes ask /healthz, other clients for any route.
Respond(c) ==
    \/ Move(c, "open", Healthz)
    \/ c \notin Probes /\ Move(c, "open", Readyz)

\* A connection that is kept alive takes another request; the health
\* subcommand asks to close its own.
Again(c) ==
    /\ Listening
    /\ c \notin Probes
    /\ Move(c, "ok", "accepted") \/ Move(c, "unready", "accepted")

\* Mistake: the shutdown leaves the connections to themselves.
ShutdownAtOnce ==
    /\ Listening
    /\ stopping
    /\ stage' = "drain"
    /\ status' = "success"
    /\ Cut(Pending)
    /\ UNCHANGED <<env, reloading, ready, handler, stopping>>

\* Mistake: the listener stays open while the connections drain.
ShutdownKeepsListener ==
    /\ Listening
    /\ stopping
    /\ stage' = "drain"
    /\ UNCHANGED <<env, status, reloading, ready, handler, stopping, conn>>

\* Graceful shutdown: the listener is dropped, accepted connections are kept.
Shutdown ==
    /\ Listening
    /\ stopping
    /\ stage' = "drain"
    /\ Cut({"backlog"})
    /\ UNCHANGED <<env, status, reloading, ready, handler, stopping>>

\* A connection on which no request has begun is closed meanwhile.
CloseUnused(c) == stage = "drain" /\ Move(c, "accepted", "cut")

\* Mistake: the process waits for every client, also for those yet to come.
FinishWhenNobodyComes ==
    /\ status = "running"
    /\ stage = "drain"
    /\ \A c \in Clients : conn[c] \in {"none", "ok", "unready"}
    /\ status' = "success"
    /\ UNCHANGED <<env, stage, reloading, ready, handler, stopping, conn>>

\* Mistake: the process does not wait for the connections it keeps.
FinishWithoutDraining ==
    /\ status = "running"
    /\ stage = "drain"
    /\ status' = "success"
    /\ UNCHANGED <<env, stage, reloading, ready, handler, stopping, conn>>

\* run() returns Ok once no connection is in use, and main() exits SUCCESS.
Finish ==
    /\ status = "running"
    /\ stage = "drain"
    /\ \A c \in Clients : conn[c] \notin Pending
    /\ status' = "success"
    /\ UNCHANGED <<env, stage, reloading, ready, handler, stopping, conn>>

-----------------------------------------------------------------------------
(* The world outside.                                                      *)

Die ==
    /\ status' = "killed"
    /\ Cut(Pending)
    /\ UNCHANGED <<env, stage, reloading, ready, handler, stopping>>

\* SIGTERM reaches the handler, or kills a process that has none yet, unless
\* it is number 1: then the signal is lost.
Sigterm ==
    /\ status = "running"
    /\ \/ /\ handler = "installed"
          /\ stopping' = TRUE
          /\ UNCHANGED <<env, stage, status, reloading, ready, handler, conn>>
       \/ handler # "installed" /\ ~env.pidOne /\ Die

\* A crash, or SIGKILL when the orchestrator has lost patience.
Kill == status = "running" /\ Die

\* The orchestrator starts the container again, maybe with other settings.
Restart ==
    /\ status # "running"
    /\ env' \in Environments
    /\ stage' = "runtime"
    /\ status' = "running"
    /\ reloading' = FALSE
    /\ ready' = FALSE
    /\ handler' = "none"
    /\ stopping' = FALSE
    /\ UNCHANGED conn

Connect(c) ==
    /\ conn[c] \notin Pending
    /\ conn' = [conn EXCEPT ![c] =
                  IF Listening /\ Finds(c) THEN "backlog" ELSE "refused"]
    /\ UNCHANGED server

\* What the health subcommand exits with; with neither, it still waits.  Any
\* answer but a 200 is a failure, and so is an end without an answer.
HealthSucceeds(c) == conn[c] = "ok"
HealthFails(c) == conn[c] \in {"unready", "refused", "cut"}

ServerStep ==
    StartupStep \/ StartupFails \/ InstallHandler \/ Shutdown \/ Finish

Next ==
    \/ ServerStep \/ SetReady
    \/ \E c \in Clients :
         \/ Accept(c) \/ ReadSome(c) \/ ReadAll(c) \/ Respond(c)
         \/ Again(c) \/ CloseUnused(c) \/ Connect(c)
    \/ Sigterm \/ Kill \/ Restart

\* The runtime makes every step it can and serves every connection.  A client
\* that has begun a request completes it (the server has no timeout against
\* one that does not); only the health subcommand is known to begin.
Fairness ==
    /\ WF_vars(ServerStep)
    /\ \A c \in Clients :
         /\ WF_vars(Accept(c)) /\ WF_vars(ReadAll(c)) /\ WF_vars(Respond(c))
         /\ WF_vars(CloseUnused(c))
    /\ \A c \in Probes : WF_vars(ReadSome(c))

Spec == Init /\ [][Next]_vars /\ Fairness

-----------------------------------------------------------------------------
(* Properties.                                                             *)

\* Graceful shutdown: a request that has begun (see ReadSome) is cut off by
\* nothing but the death of the process; startup failures and SIGTERM never
\* do it once the handler is there.
BegunIsAnswered ==
    [][\A c \in Clients :
         conn[c] \in {"partial", "open"} /\ conn'[c] \in {"refused", "cut"} =>
            status' = "killed"]_vars

\* Exit code 0 means a shutdown after serving, with nobody left waiting.
CleanExit ==
    status = "success" =>
        /\ reloading
        /\ stopping
        /\ \A c \in Clients : conn[c] \notin Pending

\* The system can tell the health subcommand's way to the socket.
Reachable ==
    ~ConfigError(env) => Bind(env).port # "zero" /\ Bind(env).ip # "any6only"

\* DESIGN 10: the container health check must not follow readiness, or a bad
\* policy file becomes a loop of restarts that all fail.  It turns bad only
\* when the process is not up, is shutting down or is dying, in whatever
\* environment it is reachable and whatever the reload task thinks.
HealthFailsOnlyWhenDown ==
    [][\A c \in Probes :
         Reachable /\ HealthFails(c)' /\ ~HealthFails(c) =>
            ~Listening \/ stopping \/ status' # "running"]_vars

\* Once SIGTERM is received the process ends, however many clients go on
\* connecting and however many connections are open and not used.
SigtermStops == stopping ~> status # "running"

\* The health subcommand ends: it is answered or cut off, although its read
\* has no timeout of its own.
ProbesReturn ==
    \A c \in Probes : conn[c] \in Pending ~> HealthSucceeds(c) \/ HealthFails(c)
=============================================================================
