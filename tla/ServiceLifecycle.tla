--------------------------- MODULE ServiceLifecycle ---------------------------
(***************************************************************************)
(* The life of the service process, from main (cmd/kafka-producer/main.go):*)
(* load, validate, start three listeners, wait for a signal, shut down,    *)
(* wait for the goroutines.  It composes the rules of Configuration, the   *)
(* health manager behind /api/v1/health, the HTTP server                   *)
(* (internal/server/server.go) and the profiler                            *)
(* (internal/profiling/profiler.go).  What the handlers of messages do in  *)
(* the meantime, and the producer's Close, are in PublishService.          *)
(*                                                                         *)
(* net/http is external: ListenAndServe fails if the port is taken, and    *)
(* returns ErrServerClosed once Shutdown was called, even before it.       *)
(***************************************************************************)
EXTENDS Configuration, HealthManager, FiniteSets

CONSTANTS Files,         \* what the file named by -config may amount to
          Unreadable,    \* a file that is missing or is not YAML
          Environments,  \* the environment variables
          Taken,         \* ports that other processes hold
          Service        \* the checker that main registers

ASSUME LifecycleAssumption ==
    /\ Files \subseteq Config /\ Unreadable \notin Config
    /\ Environments \subseteq Environment
    /\ Taken \subseteq Int
    /\ Service \in Checker

Server == {"metrics", "profiler", "api"}

VARIABLES
    file, env,   \* what the process was started with
    config,      \* cfg, or Unreadable before Load
    main,        \* where main is
    ended,       \* how the process ended, or "not"
    signalled,   \* SIGINT or SIGTERM has arrived
    expired,     \* shutdownCtx is done
    listener     \* each server, and the goroutine that main waits for

start == <<file, env>>
vars == <<start, config, main, ended, signalled, expired, listener, healthVars>>

Init ==
    /\ file \in Files \cup {Unreadable} /\ env \in Environments
    /\ config = Unreadable
    /\ main = "loading" /\ ended = "not"
    /\ signalled = FALSE /\ expired = FALSE
    /\ listener = [s \in Server |-> "off"]
    /\ HealthInit

Alive == main # "exited"

Exit(how) == main' = "exited" /\ ended' = how
Goto(place) == main' = place /\ UNCHANGED ended

-----------------------------------------------------------------------------
(* Start-up.                                                               *)

Load ==
    /\ main = "loading"
    /\ IF file = Unreadable
         THEN Exit("config") /\ UNCHANGED config
         ELSE Goto("validating") /\ config' = applyEnvironmentOverrides(file, env)
    /\ UNCHANGED <<start, signalled, expired, listener, healthVars>>

\* Mutant: the file is validated, not what the environment makes of it.
Validate_FileOnly ==
    /\ main = "validating"
    /\ IF ValidateConfiguration(file) THEN Goto("logger") ELSE Exit("config")
    /\ UNCHANGED <<start, config, signalled, expired, listener, healthVars>>

Validate ==
    /\ main = "validating"
    /\ IF ValidateConfiguration(config) THEN Goto("logger") ELSE Exit("config")
    /\ UNCHANGED <<start, config, signalled, expired, listener, healthVars>>

\* Opening a log file may fail.
SetupLogger ==
    /\ main = "logger"
    /\ \/ LoggerAccepts(config) /\ Goto("starting")
       \/ /\ ~LoggerAccepts(config) \/ config.Output \notin {"stdout", "stderr"}
          /\ Exit("config")
    /\ UNCHANGED <<start, config, signalled, expired, listener, healthVars>>

Enabled(s) == s = "profiler" => config.ProfilingEnabled

\* initializeApplication, signal.Notify and three go statements.
StartServices ==
    /\ main = "starting"
    /\ Goto("serving")
    /\ RegisterChecker(Service)
    /\ listener' = [s \in Server |-> IF Enabled(s) THEN "starting" ELSE "off"]
    /\ UNCHANGED <<start, config, signalled, expired>>

-----------------------------------------------------------------------------
(* The goroutines of the listeners.                                        *)

Port(s) == CASE s = "metrics" -> config.MetricsPort
             [] s = "profiler" -> config.ProfilingPort
             [] s = "api" -> config.Port

\* Profiler.Start stores its server and leaves the listening to one more
\* goroutine, which main does not wait for.
StartProfiler ==
    /\ Alive /\ listener["profiler"] = "starting"
    /\ listener' = [listener EXCEPT !["profiler"] = "made"]
    /\ UNCHANGED <<start, config, main, ended, signalled, expired, healthVars>>

\* Mutant: a server is made and nobody makes it listen.
ListenAndServe_ProfilerWaits(s) ==
    /\ Alive /\ listener[s] = "starting" /\ s # "profiler"
    /\ listener' = [listener EXCEPT ![s] =
          IF Port(s) \in Taken \/ \E o \in Server : listener[o] = "listening" /\ Port(o) = Port(s)
            THEN "failed" ELSE "listening"]
    /\ UNCHANGED <<start, config, main, ended, signalled, expired, healthVars>>

\* A server that cannot listen logs an error, and the others go on.
ListenAndServe(s) ==
    /\ Alive /\ listener[s] = IF s = "profiler" THEN "made" ELSE "starting"
    /\ listener' = [listener EXCEPT ![s] =
          IF Port(s) \in Taken \/ \E o \in Server : listener[o] = "listening" /\ Port(o) = Port(s)
            THEN "failed" ELSE "listening"]
    /\ UNCHANGED <<start, config, main, ended, signalled, expired, healthVars>>

ServerStep == StartProfiler \/ \E s \in Server : ListenAndServe(s)

-----------------------------------------------------------------------------
(* Requests for the health of the service.                                 *)

lifeVars == <<start, config, main, ended, signalled, expired, listener>>

\* A request that is under way is not stopped by Shutdown.
HandleHealth(c) ==
    /\ Alive
    /\ c \notin Active => listener["api"] = "listening"
    /\ HealthStep(c)
    /\ UNCHANGED lifeVars

\* Stands for the checkers that a TODO in initializeApplication announces.
RegisterAnother ==
    /\ main = "serving"
    /\ \E k \in Checker \ Registered : RegisterChecker(k)
    /\ UNCHANGED lifeVars

-----------------------------------------------------------------------------
(* Shutdown.                                                               *)

\* Before signal.Notify a signal kills the process; later it waits for main.
Signal ==
    /\ Alive /\ ~signalled
    /\ signalled' = TRUE
    /\ IF main \in {"loading", "validating", "logger", "starting"}
         THEN Exit("killed") ELSE UNCHANGED <<main, ended>>
    /\ UNCHANGED <<start, config, expired, listener, healthVars>>

Close(s) == listener' = [listener EXCEPT ![s] = IF @ = "failed" THEN @ ELSE "closed"]

\* server.Shutdown closes the listener first and then waits.
BeginShutdown ==
    /\ main = "serving" /\ signalled
    /\ Goto("draining")
    /\ Close("api")
    /\ UNCHANGED <<start, config, signalled, expired, healthVars>>

TimeoutExpires ==
    /\ Alive /\ signalled /\ main # "serving" /\ ~expired
    /\ expired' = TRUE
    /\ UNCHANGED <<start, config, main, ended, signalled, listener, healthVars>>

\* Mutant: the drain is not bounded by shutdownCtx.
Drained_NoTimeout ==
    /\ main = "draining"
    /\ Active = {}
    /\ Goto("stopping")
    /\ UNCHANGED <<start, config, signalled, expired, listener, healthVars>>

Drained ==
    /\ main = "draining"
    /\ Active = {} \/ expired
    /\ Goto("stopping")
    /\ UNCHANGED <<start, config, signalled, expired, listener, healthVars>>

\* profiler.Stop does nothing while Start has not stored its server.
StopProfiler ==
    /\ main = "stopping"
    /\ Goto("waiting")
    /\ IF listener["profiler"] \in {"off", "starting"} THEN UNCHANGED listener ELSE Close("profiler")
    /\ UNCHANGED <<start, config, signalled, expired, healthVars>>

\* Mutant: main does not wait for the metrics server.
Done_ButMetrics(s) == IF s = "profiler" THEN listener[s] # "starting"
                      ELSE s = "api" => listener[s] \in {"failed", "closed"}

\* Whether the goroutine of a server has called wg.Done.
Done(s) == IF s = "profiler" THEN listener[s] # "starting"
                             ELSE listener[s] \in {"failed", "closed"}

\* Closing the producer and the tracker in between changes nothing here.
MainReturns ==
    /\ main = "waiting"
    /\ \/ (\A s \in Server : Done(s)) /\ Exit("clean")
       \/ expired /\ Exit("forced")
    /\ UNCHANGED <<start, config, signalled, expired, listener, healthVars>>

MainStep == \/ Load \/ Validate \/ SetupLogger \/ StartServices
            \/ BeginShutdown \/ Drained \/ StopProfiler \/ MainReturns

Next == \/ MainStep \/ ServerStep \/ RegisterAnother \/ Signal \/ TimeoutExpires
        \/ \E c \in Call : HandleHealth(c)

Spec == Init /\ [][Next]_vars

\* What the health manager does by itself: collect and answer.
Collects(c) == HandleHealth(c) /\ c \in Active /\ running'[c] = running[c]

\* Checkers that do not hang return.
Returns(c, i) == /\ Alive /\ i \in running[c] /\ snapshot[c][i] \notin Hanging
                 /\ CheckReturns(c, i) /\ UNCHANGED lifeVars

\* main, goroutines that can go on, timers; but neither signals, requests nor
\* checkers that hang.
FairSpec ==
    /\ Spec
    /\ WF_vars(MainStep) /\ WF_vars(TimeoutExpires)
    /\ WF_vars(StartProfiler) /\ \A s \in Server : WF_vars(ListenAndServe(s))
    /\ \A c \in Call : WF_vars(Collects(c))
    /\ \A c \in Call, i \in 1..Cardinality(Checker) : WF_vars(Returns(c, i))

-----------------------------------------------------------------------------
TypeOK ==
    /\ file \in Config \cup {Unreadable} /\ env \in Environment
    /\ config \in Config \cup {Unreadable}
    /\ main \in {"loading", "validating", "logger", "starting", "serving", "draining",
                 "stopping", "waiting", "exited"}
    /\ ended \in {"not", "config", "killed", "clean", "forced"}
    /\ signalled \in BOOLEAN /\ expired \in BOOLEAN
    /\ listener \in [Server -> {"off", "starting", "made", "listening", "failed", "closed"}]
    /\ HealthTypeOK

\* What is served is what the file says with the environment over it, and it is
\* that which was validated; a configuration that is not fit to run ends the
\* process before it listens to anything.
ServesWhatWasValidated ==
    (\E s \in Server : listener[s] # "off") =>
        /\ config = applyEnvironmentOverrides(file, env)
        /\ ValidateConfiguration(config)
        /\ ended # "config"

\* main.go:142 logs "All services shutdown successfully" only if the metrics
\* server never got its port: it is never told to stop, so otherwise every
\* shutdown takes the whole of the shutdown timeout.
CleanOnlyWithoutMetrics == ended = "clean" => listener["metrics"] = "failed"

\* Each port of the configuration is served in the end, also when two servers
\* share it, unless another process has it or the service is told to stop.
PortsAreServed ==
    main = "serving" ~>
        \/ signalled
        \/ /\ main = "serving"
           /\ \A p \in Ports(config) \ Taken :
                 \E s \in Server : listener[s] = "listening" /\ Port(s) = p

\* A health check is answered, whatever the order of the results and whoever
\* registers checkers meanwhile, unless one of its checkers hangs: the timeout
\* that CheckHealth sets up does not answer it.
HealthAnswers ==
    \A c \in Call : c \in Active ~>
        \/ code[c] # 0 \/ ~Alive
        \/ \E i \in running[c] : snapshot[c][i] \in Hanging

\* After a signal the process ends, at whatever point of its start it comes and
\* even if a health check hangs.
SignalEndsProcess == signalled ~> ~Alive
=============================================================================
