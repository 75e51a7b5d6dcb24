----------------------------- MODULE ApiProcess -----------------------------
(***************************************************************************)
(* The life of one process: cmd/api from its start to its end (main.go,    *)
(* platform/httpserver, platform/database, platform/observability, the     *)
(* scheduler goroutine of marketdata/ingest), and cmd/ingest, which starts *)
(* the same way, runs one pass and ends the same way.                      *)
(*                                                                         *)
(* Beside run() itself there are the goroutine of ListenAndServe, the one  *)
(* of the scheduler, one handler per request, and signals from outside.    *)
(* `phase' is the place run() has got to:                                  *)
(*                                                                         *)
(*   load, telemetry, connect, wire      start-up                          *)
(*   listen, serve, drain, join          httpserver.Run                    *)
(*   stop, wait                          the scheduler is stopped, awaited *)
(*   pass                                RunOnce (cmd/ingest)              *)
(*   close, flush, exit                  the deferred calls, then main     *)
(*   exited, killed, panicked            the process is gone               *)
(*                                                                         *)
(* A handler and a pass of ingestion use the pool and record spans up to   *)
(* their end.  What a pass does is the subject of Ingestion, what handlers *)
(* do that of the other modules.                                           *)
(***************************************************************************)
EXTENDS Configuration

CONSTANTS
    Request,      \* the requests that clients send, each once
    Environment,  \* what a process may be started with: the variables of its
                  \* environment (real) and those of its .env file (dotenv)
    NoConfig

ASSUME ConfigAssumption == NoConfig \notin Config

VARIABLES
    command,    \* the binary that runs: "api" or "ingest"
    phase,
    config,     \* what Load returned
    result,     \* what run returns: its exit code
    telemetry,  \* the exporting pipeline
    pool,       \* the pool of database connections
    sched,      \* the scheduler's goroutine (cmd/ingest: its only pass)
    cancelled,  \* stopScheduler was called
    server,     \* ListenAndServe and, once it has returned, its error
    signalled,  \* NotifyContext has seen a signal
    request     \* the handler of each request

goroutines == <<sched, server, request>>
resources == <<telemetry, pool>>
vars == <<command, phase, config, result, resources, goroutines, cancelled,
          signalled>>

---------------------------------------------------------------------------
Ended == {"exited", "killed", "panicked"}

\* The phases in which the pool is open.
PoolPhase == {"wire", "listen", "serve", "drain", "join", "stop", "wait",
              "pass", "close"}

Phase == {"load", "telemetry", "connect", "flush", "exit"}
         \cup PoolPhase \cup Ended

\* "orphaned": Close has cut the connection, the handler has yet to return.
Running == {"handling", "orphaned"}

Alive == phase \notin Ended

\* The end of the process cuts off every request still being handled.
CutOff == request' = [r \in Request |->
              IF request[r] \in Running THEN "cut" ELSE request[r]]

Init ==
    /\ command \in {"api", "ingest"}
    /\ phase = "load"
    /\ config = NoConfig
    /\ result = "none"
    /\ telemetry = "off"
    /\ pool = "none"
    /\ sched = "none"
    /\ cancelled = FALSE
    /\ server = "none"
    /\ signalled = FALSE
    /\ request = [r \in Request |-> "none"]

---------------------------------------------------------------------------
(***************************************************************************)
(* Start-up.  Every failure returns from run, and the calls deferred so    *)
(* far are made.                                                           *)
(***************************************************************************)
Value(e) == Lookup(Seeded(e.real, e.dotenv))

Accepted == {e \in Environment : Errors(Value(e)) = {}}

Load ==
    /\ phase = "load"
    /\ config' \in {Configured(Value(e)) : e \in Accepted}
    /\ phase' = "telemetry"
    /\ UNCHANGED <<command, result, resources, goroutines, cancelled,
                   signalled>>

LoadFails ==
    /\ phase = "load"
    /\ Accepted # Environment
    /\ result' = "error"
    /\ phase' = "exit"
    /\ UNCHANGED <<command, config, resources, goroutines, cancelled,
                   signalled>>

Setup ==
    /\ phase = "telemetry"
    /\ telemetry' = IF config.telemetryEnabled THEN "open" ELSE "off"
    /\ phase' = "connect"
    /\ UNCHANGED <<command, config, result, pool, goroutines, cancelled,
                   signalled>>

SetupFails ==
    /\ phase = "telemetry"
    /\ config.telemetryEnabled
    /\ result' = "error"
    /\ phase' = "exit"
    /\ UNCHANGED <<command, config, resources, goroutines, cancelled,
                   signalled>>

Connect ==
    /\ phase = "connect"
    /\ pool' = "open"
    /\ phase' = "wire"
    /\ UNCHANGED <<command, config, result, telemetry, goroutines, cancelled,
                   signalled>>

\* The ping fails or runs out of DB_CONNECT_TIMEOUT, or Open does not take
\* the URL: a pool that was opened is closed again.
ConnectFails ==
    /\ phase = "connect"
    /\ pool' \in {"none", "closed"}
    /\ result' = "error"
    /\ phase' = "flush"
    /\ UNCHANGED <<command, config, telemetry, goroutines, cancelled,
                   signalled>>

\* ingest.New takes the watchlist.  cmd/api starts its scheduler, whose
\* goroutine begins with a pass; cmd/ingest begins its only pass.
Wire ==
    /\ phase = "wire"
    /\ config.watchlistParses
    /\ sched' = IF command = "ingest" \/ config.schedulerEnabled
                THEN "pass" ELSE "done"
    /\ phase' = IF command = "api" THEN "listen" ELSE "pass"
    /\ UNCHANGED <<command, config, result, resources, server, request,
                   cancelled, signalled>>

WireFails ==
    /\ phase = "wire"
    /\ ~config.watchlistParses
    /\ result' = "error"
    /\ phase' = "close"
    /\ UNCHANGED <<command, config, resources, goroutines, cancelled,
                   signalled>>

---------------------------------------------------------------------------
(***************************************************************************)
(* httpserver.Run.                                                         *)
(***************************************************************************)
\* NotifyContext takes over the signals, and ListenAndServe starts.
Listen ==
    /\ phase = "listen"
    /\ server' = "starting"
    /\ phase' = "serve"
    /\ UNCHANGED <<command, config, result, resources, sched, request,
                   cancelled, signalled>>

\* select takes the server's error: Run returns with handlers still running.
ServeReturned ==
    /\ phase = "serve"
    /\ server = "failed"
    /\ result' = "error"
    /\ phase' = "stop"
    /\ UNCHANGED <<command, config, resources, goroutines, cancelled,
                   signalled>>

\* select takes ctx.Done: Shutdown closes the listeners and begins to drain.
Interrupted ==
    /\ phase = "serve"
    /\ signalled
    /\ phase' = "drain"
    /\ UNCHANGED <<command, config, result, resources, goroutines, cancelled,
                   signalled>>

\* Shutdown returns nil, once Serve has returned and no handler runs.
Drained ==
    /\ phase = "drain"
    /\ server # "listening"
    /\ \A r \in Request : request[r] # "handling"
    /\ phase' = "join"
    /\ UNCHANGED <<command, config, result, resources, goroutines, cancelled,
                   signalled>>

\* SHUTDOWN_TIMEOUT runs out: Close cuts the connections off, Run returns the
\* error, and the handlers go on.
DrainTimesOut ==
    /\ phase = "drain"
    /\ server # "listening"
    /\ \E r \in Request : request[r] = "handling"
    /\ request' = [r \in Request |->
          IF request[r] = "handling" THEN "orphaned" ELSE request[r]]
    /\ result' = "error"
    /\ phase' = "stop"
    /\ UNCHANGED <<command, config, resources, sched, server, cancelled,
                   signalled>>

\* Faulty variant of Join: a clean Shutdown is taken for a clean stop.
JoinUnheard ==
    /\ phase = "join"
    /\ server \in {"closed", "failed"}
    /\ result' = "nil"
    /\ phase' = "stop"
    /\ UNCHANGED <<command, config, resources, goroutines, cancelled,
                   signalled>>

\* <-serveErr: an error of ListenAndServe that Shutdown overtook is returned.
Join ==
    /\ phase = "join"
    /\ server \in {"closed", "failed"}
    /\ result' = IF server = "failed" THEN "error" ELSE "nil"
    /\ phase' = "stop"
    /\ UNCHANGED <<command, config, resources, goroutines, cancelled,
                   signalled>>

---------------------------------------------------------------------------
(***************************************************************************)
(* The end of run.  Run's deferred stop has given the signals back: from   *)
(* here on one kills the process.                                          *)
(***************************************************************************)
\* Faulty variant of StopScheduler: the wait comes before the stop.
StopSchedulerAfterwards ==
    /\ phase = "stop"
    /\ phase' = "wait"
    /\ UNCHANGED <<command, config, result, resources, goroutines, cancelled,
                   signalled>>

StopScheduler ==
    /\ phase = "stop"
    /\ cancelled' = TRUE
    /\ phase' = "wait"
    /\ UNCHANGED <<command, config, result, resources, goroutines, signalled>>

\* Faulty variant of WaitScheduler: <-schedulerDone is missing.
WaitForNobody ==
    /\ phase = "wait"
    /\ phase' = "close"
    /\ UNCHANGED <<command, config, result, resources, goroutines, cancelled,
                   signalled>>

WaitScheduler ==
    /\ phase = "wait"
    /\ sched = "done"
    /\ phase' = "close"
    /\ UNCHANGED <<command, config, result, resources, goroutines, cancelled,
                   signalled>>

\* cmd/ingest: its pass is over, whatever failed in it.
OnlyPassEnds ==
    /\ phase = "pass"
    /\ sched' = "done"
    /\ result' = "nil"
    /\ phase' = "close"
    /\ UNCHANGED <<command, config, resources, server, request, cancelled,
                   signalled>>

\* db.Close does not wait for those who use a connection.
ClosePool ==
    /\ phase = "close"
    /\ pool' = "closed"
    /\ phase' = "flush"
    /\ UNCHANGED <<command, config, result, telemetry, goroutines, cancelled,
                   signalled>>

\* shutdownTelemetry; when it fails the error is only logged.
Flush ==
    /\ phase = "flush"
    /\ telemetry' = IF telemetry = "open" THEN "closed" ELSE telemetry
    /\ phase' = "exit"
    /\ UNCHANGED <<command, config, result, pool, goroutines, cancelled,
                   signalled>>

Exit ==
    /\ phase = "exit"
    /\ phase' = "exited"
    /\ CutOff
    /\ UNCHANGED <<command, config, result, resources, sched, server,
                   cancelled, signalled>>

---------------------------------------------------------------------------
(***************************************************************************)
(* The goroutine of ListenAndServe.                                        *)
(***************************************************************************)
Bind ==
    /\ Alive
    /\ server = "starting"
    /\ phase = "serve"
    /\ server' = "listening"
    /\ UNCHANGED <<command, phase, config, result, resources, sched, request,
                   cancelled, signalled>>

\* The port is taken, perhaps only seen to be while Shutdown has begun, or
\* Accept fails for good.
ServeFails ==
    /\ Alive
    /\ \/ server = "starting"
       \/ server = "listening" /\ phase = "serve"
    /\ server' = "failed"
    /\ UNCHANGED <<command, phase, config, result, resources, sched, request,
                   cancelled, signalled>>

\* ErrServerClosed, which is no error: Shutdown has been called.
ServerClosed ==
    /\ Alive
    /\ server \in {"starting", "listening"}
    /\ phase # "serve"
    /\ server' = "closed"
    /\ UNCHANGED <<command, phase, config, result, resources, sched, request,
                   cancelled, signalled>>

(***************************************************************************)
(* The goroutine of the scheduler: a pass, then NewTicker and the select.  *)
(***************************************************************************)
\* NewTicker panics on an interval that is not positive, and nothing recovers
\* the goroutine.
PassEnds ==
    /\ Alive
    /\ command = "api"
    /\ sched = "pass"
    /\ sched' = "select"
    /\ IF config.refreshInterval \in {"small", "huge"}
       THEN UNCHANGED <<phase, request>>
       ELSE phase' = "panicked" /\ CutOff
    /\ UNCHANGED <<command, config, result, resources, server, cancelled,
                   signalled>>

\* A pass that took longer than the interval leaves a tick behind: select may
\* take it although the context is done.
Tick ==
    /\ Alive
    /\ sched = "select"
    /\ sched' = "pass"
    /\ UNCHANGED <<command, phase, config, result, resources, server, request,
                   cancelled, signalled>>

SchedulerStops ==
    /\ Alive
    /\ sched = "select"
    /\ cancelled
    /\ sched' = "done"
    /\ UNCHANGED <<command, phase, config, result, resources, server, request,
                   cancelled, signalled>>

(***************************************************************************)
(* The handlers, and the signals.                                          *)
(***************************************************************************)
Arrive(r) ==
    /\ Alive
    /\ server = "listening"
    /\ phase = "serve"
    /\ request[r] = "none"
    /\ request' = [request EXCEPT ![r] = "handling"]
    /\ UNCHANGED <<command, phase, config, result, resources, sched, server,
                   cancelled, signalled>>

Return(r) ==
    /\ Alive
    /\ request[r] \in Running
    /\ request' = [request EXCEPT
          ![r] = IF @ = "handling" THEN "answered" ELSE "cut"]
    /\ UNCHANGED <<command, phase, config, result, resources, sched, server,
                   cancelled, signalled>>

\* Further signals are swallowed until Run returns.
Signal ==
    /\ phase = "serve"
    /\ ~signalled
    /\ signalled' = TRUE
    /\ UNCHANGED <<command, phase, config, result, resources, goroutines,
                   cancelled>>

\* The default action of SIGINT and SIGTERM, and of SIGKILL at any time.
Kill ==
    /\ Alive
    /\ phase' = "killed"
    /\ CutOff
    /\ UNCHANGED <<command, config, result, resources, sched, server,
                   cancelled, signalled>>

---------------------------------------------------------------------------
StartUp == \/ Load \/ LoadFails \/ Setup \/ SetupFails
           \/ Connect \/ ConnectFails \/ Wire \/ WireFails

Run == Listen \/ ServeReturned \/ Interrupted \/ Drained \/ DrainTimesOut
       \/ Join

WindDown == StopScheduler \/ WaitScheduler \/ OnlyPassEnds \/ ClosePool
            \/ Flush \/ Exit

Serve == Bind \/ ServeFails \/ ServerClosed

Schedule == PassEnds \/ Tick \/ SchedulerStops

Next ==
    \/ StartUp \/ Run \/ WindDown
    \/ Serve \/ Schedule
    \/ \E r \in Request : Arrive(r) \/ Return(r)
    \/ Signal \/ Kill

Spec == Init /\ [][Next]_vars

(***************************************************************************)
(* run and ListenAndServe do not dawdle: every wait in them is bounded by  *)
(* a timeout or by what it waits for.  A pass ends (RunsComplete of        *)
(* Ingestion).  select draws among the cases that are ready, so it does    *)
(* not pass over ctx.Done for ever.  Handlers need not return.             *)
(***************************************************************************)
FairSpec ==
    /\ Spec
    /\ WF_vars(StartUp \/ Run \/ WindDown)
    /\ WF_vars(Bind \/ ServerClosed)
    /\ WF_vars(PassEnds)
    /\ SF_vars(SchedulerStops)

---------------------------------------------------------------------------
TypeOK ==
    /\ command \in {"api", "ingest"}
    /\ phase \in Phase
    /\ config \in Config \cup {NoConfig}
    /\ result \in {"none", "nil", "error"}
    /\ telemetry \in {"off", "open", "closed"}
    /\ pool \in {"none", "open", "closed"}
    /\ sched \in {"none", "pass", "select", "done"}
    /\ cancelled \in BOOLEAN
    /\ server \in {"none", "starting", "listening", "closed", "failed"}
    /\ signalled \in BOOLEAN
    /\ request \in [Request ->
                       {"none", "handling", "orphaned", "answered", "cut"}]

(***************************************************************************)
(* A pass in flight never meets a closed pool or a closed pipeline, and a  *)
(* handler does so only in a process that will report a failure: main.go   *)
(* stops the scheduler and waits for it before the deferred calls, and the *)
(* server has drained unless Run returned an error.                        *)
(***************************************************************************)
PoolOutlivesItsUsers ==
    Alive /\ "closed" \in {pool, telemetry} =>
        /\ sched # "pass"
        /\ result = "error" \/ \A r \in Request : request[r] \notin Running

(***************************************************************************)
(* Exit code 0 of cmd/api means that the server neither failed nor left a  *)
(* request it had accepted without its answer; whatever the exit code, the *)
(* deferred calls have closed the pool and the telemetry pipeline, and the *)
(* scheduler's goroutine is not running.                                   *)
(***************************************************************************)
ExitTellsTheTruth ==
    phase = "exited" =>
        /\ result = "nil" => /\ server # "failed"
                             /\ \A r \in Request : request[r] # "cut"
        /\ result # "none"
        /\ pool # "open" /\ telemetry # "open"
        /\ sched \in {"none", "done"}

(***************************************************************************)
(* No environment that config.Load accepts makes the scheduler panic:      *)
(* config.go:405 refuses the intervals that time.NewTicker does.           *)
(***************************************************************************)
NeverPanics == phase # "panicked"

(***************************************************************************)
(* A process that is signalled, or whose server fails, ends although some  *)
(* handler may never return and a pass may be in flight; cmd/ingest always *)
(* ends; and cmd/api gets to serve, or ends.                               *)
(***************************************************************************)
StopsWhenAsked ==
    /\ signalled \/ server = "failed" ~> ~Alive
    /\ command = "ingest" ~> ~Alive
    /\ <>(phase = "serve" \/ ~Alive)
=============================================================================
