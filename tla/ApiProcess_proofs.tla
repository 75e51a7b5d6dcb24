-------------------------- MODULE ApiProcess_proofs --------------------------
(***************************************************************************)
(* Proofs about ApiProcess, for any number of requests and any set of      *)
(* environments.                                                           *)
(*                                                                         *)
(* The invariants follow from one inductive invariant that says, for each  *)
(* phase of run(), what holds of the resources, of the goroutines and of   *)
(* the result.  That the scheduler's ticker never panics rests on a fact   *)
(* about config.Load, proved first: a configuration without errors has a   *)
(* refresh interval above zero.                                            *)
(***************************************************************************)
EXTENDS ApiProcess, TLAPS

---------------------------------------------------------------------------
(***************************************************************************)
(* What Load accepts is a configuration of the declared type whose refresh *)
(* interval time.NewTicker takes (config.go:407).                          *)
(***************************************************************************)
THEOREM LoadedIsSound ==
    ASSUME NEW e \in Accepted
    PROVE  /\ Configured(Value(e)) \in Config
           /\ Configured(Value(e)).refreshInterval \in {"small", "huge"}
<1> DEFINE interval == Value(e)["MARKETDATA_REFRESH_INTERVAL"]
<1>1. "MARKETDATA_REFRESH_INTERVAL" \in Numeric
  BY DEF Numeric, Positive
<1>2. interval \in AcceptedNumber("MARKETDATA_REFRESH_INTERVAL")
  BY <1>1 DEF Accepted, Errors
<1>3. AcceptedNumber("MARKETDATA_REFRESH_INTERVAL") = {"small", "huge"}
  BY DEF AcceptedNumber, PoolSize, Positive
<1>4. interval \in {"small", "huge"}
  BY <1>2, <1>3
<1> QED
  BY <1>4 DEF Configured, Config, Number

---------------------------------------------------------------------------
(***************************************************************************)
(* The inductive invariant.                                                *)
(***************************************************************************)
\* The phases before run() has anything to release.
Early == {"load", "telemetry", "connect"}

\* The phases that have their result.
Late == {"stop", "wait", "close", "flush", "exit", "exited"}

\* The phases in which the server may have been started.
Served == {"serve", "drain", "join", "killed", "panicked"} \cup Late

ResourcesFollow ==
    /\ phase \in Early => pool = "none"
    /\ phase \in PoolPhase => pool = "open"
    /\ phase \in {"flush", "exit", "exited"} => pool # "open"
    /\ phase \in {"load", "telemetry"} => telemetry = "off"
    /\ phase \in PoolPhase \cup {"connect", "flush"} => telemetry # "closed"
    /\ phase \in {"exit", "exited"} => telemetry # "open"

ConfigFollows ==
    phase \notin {"load", "exit", "exited", "killed"} =>
        /\ config \in Config
        /\ config.refreshInterval \in {"small", "huge"}

SchedulerFollows ==
    /\ phase \in Early \cup {"wire"} => sched = "none"
    /\ phase \in {"close", "flush", "exit", "exited"} =>
           sched \in {"none", "done"}
    /\ phase # "panicked"

ServerFollows ==
    /\ phase \notin Served => server = "none"
    /\ server \in {"none", "starting"} => \A r \in Request : request[r] = "none"

ResultFollows ==
    /\ phase \in Phase \ (Late \cup Ended) => result = "none"
    /\ phase \in Late => result \in {"nil", "error"}
    /\ result = "nil" =>
           /\ server \in {"none", "closed"}
           /\ \A r \in Request : request[r] \in {"none", "answered"}

RequestsFollow ==
    /\ phase = "join" => \A r \in Request : request[r] # "handling"
    /\ \A r \in Request :
           request[r] \in {"orphaned", "cut"} =>
               result = "error" \/ phase = "killed"

IndInv ==
    /\ TypeOK
    /\ ResourcesFollow /\ ConfigFollows /\ SchedulerFollows
    /\ ServerFollows /\ ResultFollows /\ RequestsFollow

(***************************************************************************)
(* Each phase of run() keeps what it promises the next one.                *)
(***************************************************************************)
LEMMA StepKeeps ==
    ASSUME IndInv, [Next]_vars
    PROVE  IndInv'
<1> USE DEF IndInv, TypeOK, ResourcesFollow, ConfigFollows, SchedulerFollows,
            ServerFollows, ResultFollows, RequestsFollow, Phase, PoolPhase,
            Ended, Early, Late, Served, resources, goroutines
<1>1. CASE Load
  BY <1>1, LoadedIsSound DEF Load
<1>2. CASE LoadFails
  BY <1>2 DEF LoadFails
<1>3. CASE Setup
  BY <1>3 DEF Setup, Config
<1>4. CASE SetupFails
  BY <1>4 DEF SetupFails
<1>5. CASE Connect
  BY <1>5 DEF Connect
<1>6. CASE ConnectFails
  BY <1>6 DEF ConnectFails
<1>7. CASE Wire
  BY <1>7 DEF Wire
<1>8. CASE WireFails
  BY <1>8 DEF WireFails
<1>9. CASE Listen
  BY <1>9 DEF Listen
<1>10. CASE ServeReturned
  BY <1>10 DEF ServeReturned
<1>11. CASE Interrupted
  BY <1>11 DEF Interrupted
<1>12. CASE Drained
  BY <1>12 DEF Drained
<1>13. CASE DrainTimesOut
  BY <1>13 DEF DrainTimesOut
<1>14. CASE Join
  BY <1>14 DEF Join
<1>15. CASE StopScheduler
  BY <1>15 DEF StopScheduler
<1>16. CASE WaitScheduler
  BY <1>16 DEF WaitScheduler
<1>17. CASE OnlyPassEnds
  BY <1>17 DEF OnlyPassEnds
<1>18. CASE ClosePool
  BY <1>18 DEF ClosePool
<1>19. CASE Flush
  BY <1>19 DEF Flush
<1>20. CASE Exit
  BY <1>20 DEF Exit, CutOff, Running
<1>21. CASE Bind
  BY <1>21 DEF Bind, Alive
<1>22. CASE ServeFails
  BY <1>22 DEF ServeFails, Alive
<1>23. CASE ServerClosed
  BY <1>23 DEF ServerClosed, Alive
<1>24. CASE PassEnds
  BY <1>24 DEF PassEnds, Alive, CutOff, Running
<1>25. CASE Tick
  BY <1>25 DEF Tick, Alive
<1>26. CASE SchedulerStops
  BY <1>26 DEF SchedulerStops, Alive
<1>27. CASE Signal
  BY <1>27 DEF Signal
<1>28. CASE Kill
  BY <1>28 DEF Kill, Alive, CutOff, Running
<1>29. ASSUME NEW r \in Request, Arrive(r) PROVE IndInv'
  BY <1>29 DEF Arrive, Alive
<1>30. ASSUME NEW r \in Request, Return(r) PROVE IndInv'
  BY <1>30 DEF Return, Alive, Running
<1>31. CASE UNCHANGED vars
  BY <1>31 DEF vars
<1> QED
  BY <1>1, <1>2, <1>3, <1>4, <1>5, <1>6, <1>7, <1>8,
     <1>9, <1>10, <1>11, <1>12, <1>13, <1>14, <1>15, <1>16,
     <1>17, <1>18, <1>19, <1>20, <1>21, <1>22, <1>23, <1>24,
     <1>25, <1>26, <1>27, <1>28, <1>29, <1>30, <1>31
  DEF Next, StartUp, Run, WindDown, Serve, Schedule

(***************************************************************************)
(* The inductive invariant holds in every reachable state.                 *)
(***************************************************************************)
LEMMA Inductive == Spec => []IndInv
<1>1. Init => IndInv
  BY DEF Init, IndInv, TypeOK, ResourcesFollow, ConfigFollows,
         SchedulerFollows, ServerFollows, ResultFollows, RequestsFollow,
         Phase, PoolPhase, Ended, Early, Late, Served
<1>2. IndInv /\ [Next]_vars => IndInv'
  BY StepKeeps
<1> QED
  BY <1>1, <1>2, PTL DEF Spec

---------------------------------------------------------------------------
(***************************************************************************)
(* Every variable of the process keeps its type.                           *)
(***************************************************************************)
THEOREM TypeCorrect == Spec => []TypeOK
<1>1. IndInv => TypeOK
  BY DEF IndInv
<1> QED
  BY <1>1, Inductive, PTL

(***************************************************************************)
(* main.go closes the pool and the telemetry pipeline only when no pass of *)
(* ingestion is in flight and, unless run returns an error, no handler.    *)
(***************************************************************************)
THEOREM PoolCorrect == Spec => []PoolOutlivesItsUsers
<1>1. IndInv => PoolOutlivesItsUsers
  BY DEF IndInv, TypeOK, ResourcesFollow, SchedulerFollows, ServerFollows,
         ResultFollows, PoolOutlivesItsUsers, Alive, Running, Phase,
         PoolPhase, Ended, Early, Late, Served
<1> QED
  BY <1>1, Inductive, PTL

(***************************************************************************)
(* An exit code of 0 means a clean stop, and every exit releases the pool, *)
(* the pipeline and the scheduler (main.go, httpserver.Run).               *)
(***************************************************************************)
THEOREM ExitCorrect == Spec => []ExitTellsTheTruth
<1>1. IndInv => ExitTellsTheTruth
  BY DEF IndInv, ResourcesFollow, SchedulerFollows, ResultFollows,
         ExitTellsTheTruth, Late
<1> QED
  BY <1>1, Inductive, PTL

(***************************************************************************)
(* Whatever the environment, an accepted configuration does not make the   *)
(* scheduler's ticker panic (scheduler.go:30).                             *)
(***************************************************************************)
THEOREM PanicCorrect == Spec => []NeverPanics
<1>1. IndInv => NeverPanics
  BY DEF IndInv, SchedulerFollows, NeverPanics
<1> QED
  BY <1>1, Inductive, PTL
=============================================================================
