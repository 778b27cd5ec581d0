-------------------------- MODULE LifecycleProofs --------------------------
(***************************************************************************)
(* Proofs about Lifecycle, for any number of clients and probes and every  *)
(* environment: exit code 0 is earned, a request that has begun to arrive  *)
(* is cut off only by the death of the process, and the health subcommand  *)
(* fails only when the process is down or going down.                      *)
(***************************************************************************)
EXTENDS Lifecycle, TLAPS

Stages == DOMAIN After \cup {"serve", "drain"}

\* What each stage of the process has behind it.
StageInv ==
    /\ env \in Environments
    /\ stage \in Stages
    /\ stage \notin {"runtime", "config"} => ~ConfigError(env)
    /\ stage \in {"bind", "serve", "drain"} => reloading
    /\ stage = "drain" => stopping
    /\ status = "success" => stage = "drain"
    /\ conn = [c \in Clients |-> conn[c]]

\* With the connections: nobody waits for a process that ended well.
ExitInv == status = "success" => \A c \in Clients : conn[c] \notin Pending

-----------------------------------------------------------------------------

LEMMA StageInit == Init => StageInv /\ ExitInv
BY DEF Init, StageInv, ExitInv, Stages, After

\* A move of one connection changes nothing else.
LEMMA MoveKeeps ==
    ASSUME NEW c, NEW from, NEW to, StageInv, ExitInv, Move(c, from, to)
    PROVE  StageInv' /\ ExitInv'
BY DEF Move, server, StageInv, ExitInv

LEMMA StageNext == StageInv /\ ExitInv /\ [Next]_vars => StageInv' /\ ExitInv'
<1> SUFFICES ASSUME StageInv, ExitInv, [Next]_vars PROVE StageInv' /\ ExitInv'
  OBVIOUS
<1>1. CASE StartupStep
  <2>1. After[stage] \in Stages /\ After[stage] # "drain"
    BY <1>1 DEF StartupStep, Stages, After
  <2>2. After[stage] = "config" => stage = "runtime"
    BY <1>1 DEF StartupStep, After
  <2>3. stage = "runtime" => After[stage] = "config"
    BY DEF After
  <2>4. After[stage] \in {"bind", "serve"} => stage \in {"spawn_reload_task", "bind"}
    BY <1>1 DEF StartupStep, After
  <2>5. stage' \notin {"runtime", "config"} => ~ConfigError(env)'
    BY <1>1, <2>2, <2>3 DEF StartupStep, StageInv, ConfigError
  <2>6. QED
    BY <1>1, <2>1, <2>4, <2>5 DEF StartupStep, StageInv, ExitInv
<1>2. CASE StartupFails
  BY <1>2 DEF StartupFails, StageInv, ExitInv
<1>3. CASE InstallHandler
  BY <1>3 DEF InstallHandler, Listening, StageInv, ExitInv
<1>4. CASE Shutdown
  BY <1>4 DEF Shutdown, Listening, Cut, StageInv, ExitInv, Stages
<1>5. CASE Finish
  BY <1>5 DEF Finish, StageInv, ExitInv
<1>6. CASE SetReady
  BY <1>6 DEF SetReady, StageInv, ExitInv
<1>7. ASSUME NEW c \in Clients,
             \/ Accept(c) \/ ReadSome(c) \/ ReadAll(c)
             \/ Respond(c) \/ Again(c) \/ CloseUnused(c)
      PROVE  StageInv' /\ ExitInv'
  BY <1>7, MoveKeeps DEF Accept, ReadSome, ReadAll, Respond, Again, CloseUnused
<1>8. ASSUME NEW c \in Clients, Connect(c) PROVE StageInv' /\ ExitInv'
  <2>1. status = "success" => ~Listening
    BY DEF Listening
  <2>2. status = "success" => \A d \in Clients : conn'[d] \notin Pending
    BY <1>8, <2>1 DEF Connect, StageInv, ExitInv, Pending
  <2>3. QED
    BY <1>8, <2>2 DEF Connect, server, StageInv, ExitInv
<1>9. CASE Sigterm
  BY <1>9 DEF Sigterm, Die, Cut, StageInv, ExitInv
<1>10. CASE Kill
  BY <1>10 DEF Kill, Die, Cut, StageInv, ExitInv
<1>11. CASE Restart
  BY <1>11 DEF Restart, StageInv, ExitInv, Stages, After
<1>12. CASE UNCHANGED vars
  BY <1>12 DEF vars, server, StageInv, ExitInv, ConfigError
<1>13. QED
  BY <1>1, <1>2, <1>3, <1>4, <1>5, <1>6, <1>7, <1>8, <1>9, <1>10, <1>11, <1>12
     DEF Next, ServerStep

LEMMA StageInvariant == Spec => [](StageInv /\ ExitInv)
<1>1. QED
  BY StageInit, StageNext, PTL DEF Spec

\* Exit code 0 means that the process served, was told to stop, and has left
\* nobody waiting (main.rs:33, server.rs:64-68).
THEOREM SuccessIsEarned == Spec => []CleanExit
<1>1. StageInv /\ ExitInv => CleanExit
  BY DEF StageInv, ExitInv, CleanExit
<1>2. QED
  BY <1>1, StageInvariant, PTL

\* Whatever the order of requests, signals, failures and shutdown, a request
\* that has begun to arrive is answered unless the process is killed.
THEOREM NothingBegunIsDropped == Spec => BegunIsAnswered
<1>1. StageInv /\ [Next]_vars =>
        [\A c \in Clients :
           conn[c] \in {"partial", "open"} /\ conn'[c] \in {"refused", "cut"} =>
              status' = "killed"]_vars
  <2> SUFFICES ASSUME StageInv, Next,
                      NEW c \in Clients,
                      conn[c] \in {"partial", "open"},
                      conn'[c] \in {"refused", "cut"}
               PROVE  status' = "killed"
    OBVIOUS
  <2>1. ~UNCHANGED conn
    OBVIOUS
  <2>2. ASSUME NEW d \in Clients, NEW from, NEW to, Move(d, from, to)
        PROVE  d = c /\ from = conn[c] /\ to = conn'[c]
    BY <2>2 DEF Move, StageInv
  <2>3. ~ServerStep
    BY <2>1 DEF ServerStep, StartupStep, StartupFails, InstallHandler, Finish,
                Shutdown, Cut
  <2>4. ~SetReady /\ ~Restart
    BY <2>1 DEF SetReady, Restart
  <2>5. ASSUME NEW d \in Clients,
               \/ Accept(d) \/ ReadSome(d) \/ ReadAll(d)
               \/ Again(d) \/ CloseUnused(d)
        PROVE  FALSE
    BY <2>5, <2>2 DEF Accept, ReadSome, ReadAll, Again, CloseUnused
  <2>6. ASSUME NEW d \in Clients, Respond(d) PROVE FALSE
    BY <2>6, <2>2 DEF Respond, Healthz, Readyz
  <2>7. ASSUME NEW d \in Clients, Connect(d) PROVE FALSE
    BY <2>7 DEF Connect, Pending, StageInv
  <2>8. Sigterm \/ Kill
    BY <2>3, <2>4, <2>5, <2>6, <2>7 DEF Next
  <2>9. QED
    BY <2>1, <2>8 DEF Sigterm, Kill, Die
<1>2. QED
  BY <1>1, StageInvariant, PTL DEF Spec, BegunIsAnswered

\* In an environment whose address can be reached, what health_target makes of
\* AUTHZ_BIND leads to the socket from_env made the server bind.
LEMMA HealthTargetReaches ==
    ASSUME env \in Environments, ~ConfigError(env), Reachable
    PROVE  Reaches(HealthTarget(env), Bind(env))
<1> DEFINE b == env.bind
<1>1. b = Unset \/ b \in Addresses
  BY EnvironmentsAssumption DEF ConfigError
<1>2. CASE b = Unset
  <2>1. HealthTarget(env) = DefaultBind /\ Bind(env) = DefaultBind
    BY <1>2 DEF HealthTarget, Bind
  <2>2. DefaultBind.port # "zero"
    BY DEF DefaultBind
  <2>3. QED
    BY <2>1, <2>2 DEF Reaches
<1>3. CASE b \in Addresses
  <2>1. b \notin {Unset, Malformed}
    BY <1>3, EnvironmentsAssumption
  <2>2. b.port # "zero" /\ b.ip # "any6only"
    BY <2>1 DEF Reachable, Bind
  <2>3. Bind(env) = b
    BY <2>1 DEF Bind
  <2>4. CASE b.ip \in {"any4", "any6"}
    <3>1. HealthTarget(env) = [b EXCEPT !.ip = "loopback"]
      BY <2>1, <2>4 DEF HealthTarget
    <3>2. HealthTarget(env).ip = "loopback" /\ HealthTarget(env).port = b.port
      BY <3>1, <1>3 DEF Addresses
    <3>3. QED
      BY <2>2, <2>3, <2>4, <3>2 DEF Reaches
  <2>5. CASE b.ip \notin {"any4", "any6"}
    <3>1. HealthTarget(env) = b
      BY <2>1, <2>2, <2>5 DEF HealthTarget
    <3>2. QED
      BY <2>2, <2>3, <3>1 DEF Reaches
  <2>6. QED
    BY <2>4, <2>5
<1>4. QED
  BY <1>1, <1>2, <1>3

\* The health subcommand turns bad only for a process that is not up, shuts
\* down or dies, never for a policy set that was rejected (DESIGN.md 10).
THEOREM HealthFollowsLiveness == Spec => HealthFailsOnlyWhenDown
<1>1. StageInv /\ [Next]_vars =>
        [\A c \in Probes :
           Reachable /\ HealthFails(c)' /\ ~HealthFails(c) =>
              ~Listening \/ stopping \/ status' # "running"]_vars
  <2> SUFFICES ASSUME StageInv, Next, NEW c \in Probes,
                      Reachable, HealthFails(c)', ~HealthFails(c),
                      Listening, ~stopping, status' = "running"
               PROVE  FALSE
    OBVIOUS
  <2>0. c \in Clients
    BY ProbesAssumption
  <2>1. conn'[c] \in {"unready", "refused", "cut"} /\ conn'[c] # conn[c]
    BY DEF HealthFails
  <2>2. ASSUME NEW d \in Clients, NEW from, NEW to, Move(d, from, to)
        PROVE  d = c /\ from = conn[c] /\ to = conn'[c]
    BY <2>0, <2>1, <2>2 DEF Move, StageInv
  <2>3. ~ServerStep
    BY <2>1 DEF ServerStep, StartupStep, StartupFails, InstallHandler, Finish,
                Shutdown
  <2>4. ~SetReady /\ ~Restart
    BY <2>1 DEF SetReady, Restart
  <2>5. ~Sigterm /\ ~Kill
    BY <2>1 DEF Sigterm, Kill, Die
  <2>6. ASSUME NEW d \in Clients,
               Accept(d) \/ ReadSome(d) \/ ReadAll(d) \/ Again(d)
        PROVE  FALSE
    BY <2>1, <2>2, <2>6 DEF Accept, ReadSome, ReadAll, Again
  <2>7. ASSUME NEW d \in Clients, CloseUnused(d) PROVE FALSE
    BY <2>7 DEF CloseUnused, Listening
  <2>8. ASSUME NEW d \in Clients, Respond(d) PROVE FALSE
    BY <2>1, <2>2, <2>8 DEF Respond, Healthz
  <2>9. ASSUME NEW d \in Clients, Connect(d) PROVE FALSE
    <3>1. d = c
      BY <2>0, <2>1, <2>9 DEF Connect, StageInv
    <3>2. ~ConfigError(env)
      BY DEF Listening, StageInv
    <3>3. Finds(c)
      BY <3>2, HealthTargetReaches DEF Finds, StageInv
    <3>4. conn'[c] = "backlog"
      BY <2>0, <2>9, <3>1, <3>3 DEF Connect, StageInv
    <3>5. QED
      BY <2>1, <3>4
  <2>10. QED
    BY <2>3, <2>4, <2>5, <2>6, <2>7, <2>8, <2>9 DEF Next
<1>2. QED
  BY <1>1, StageInvariant, PTL DEF Spec, HealthFailsOnlyWhenDown
=============================================================================
