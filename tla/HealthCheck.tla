---------------------------- MODULE HealthCheck ----------------------------
(* The health checks and the group that runs them                            *)
(* (src/src/health/HealthCheck.ts, HealthCheckPlugin.ts and the checks of    *)
(* the context, MySQL and RabbitMQ).                                         *)
(*                                                                           *)
(* Nested groups are always as far as the HealthCheckManager above them: a   *)
(* group is started with the one it is added to and stopped with it.  So the *)
(* tree is kept as the paths of its checks; a dotted name is a path.         *)
(*                                                                           *)
(* Time passes in ticks, and a timer that is due fires before the next one.  *)
EXTENDS Integers, SequencesExt

CONSTANTS
  Autowired,     \* the checks of the group inceptum:health, with their paths
  Added,         \* the checks that the application adds itself
  AddedPaths,    \* bound: the names it gives them
  contextCheck,  \* the ContextReadyHealthCheck
  Dependencies,  \* the checks of type DEPENDENCY
  Immediate,     \* the checks with runImmediately
  sleepMillis,   \* their periods, in ticks
  staleNumFails

Checks == DOMAIN Autowired \cup Added

ASSUME HealthAssumption ==
  /\ contextCheck \in Checks \ (Immediate \cup Dependencies)
  /\ sleepMillis \in [Checks -> Nat \ {0}] /\ staleNumFails \in Nat

VARIABLES
  healthChecks,  \* the check at every path
  manager,       \* how far the HealthCheckManager is
  started,       \* started[c]: c.started, which stop() does not reset
  timer,         \* timer[c]: ticks until it fires, or NoTimer
  checkRunning,  \* checkRunning[c]: the flag that keeps runs apart
  doingCheck,    \* doingCheck[c]: a doCheck() of c has not settled
  lastResult,    \* lastResult[c]: its status,
  age            \* and the age of its timestamp, up to AgeBound

groupVars == <<healthChecks, manager>>
runVars == <<checkRunning, doingCheck, lastResult>>
healthVars == <<groupVars, started, timer, runVars, age>>

NoTimer == -1
Status == <<"OK", "NOT_READY", "WARNING", "CRITICAL">>
Threshold(c) == staleNumFails * sleepMillis[c]
AgeBound(c) == Threshold(c) + 1
Registered == {healthChecks[p] : p \in DOMAIN healthChecks}

HealthInit ==
  /\ healthChecks = <<>> /\ manager = "new"
  /\ started = [c \in Checks |-> FALSE]
  /\ timer = [c \in Checks |-> NoTimer]
  /\ checkRunning = [c \in Checks |-> FALSE] /\ doingCheck = [c \in Checks |-> FALSE]
  /\ lastResult = [c \in Checks |-> "NOT_READY"]
  /\ age = [c \in Checks |-> 0]
-----------------------------------------------------------------------------
(* start() of the checks S; a second start() does nothing.                   *)
starts(S) ==
  LET new == {c \in S : ~started[c]}
      run == {c \in new \cap Immediate : ~checkRunning[c]}
  IN /\ started' = [c \in Checks |-> started[c] \/ c \in new]
     /\ timer' = [c \in Checks |-> IF c \in new THEN sleepMillis[c] ELSE timer[c]]
     /\ checkRunning' = [c \in Checks |-> checkRunning[c] \/ c \in run]
     /\ doingCheck' = [c \in Checks |-> doingCheck[c] \/ c \in run]
     /\ UNCHANGED <<lastResult, age>>

(* HealthCheckManager.start(): every check of the group is added under its   *)
(* name, and all are started.                                                *)
managerStarts(as) ==
  /\ manager = "new"
  /\ manager' = as
  /\ healthChecks' = [p \in Range(Autowired) |->
                        CHOOSE c \in DOMAIN Autowired : Autowired[c] = p]
  /\ starts(DOMAIN Autowired)

(* Mutant: only the checks at the top are stopped.                           *)
managerStopsTop ==
  /\ manager = "started"
  /\ manager' = "stopped"
  /\ timer' = [c \in Checks |->
                 IF \E p \in DOMAIN healthChecks : Len(p) = 1 /\ healthChecks[p] = c
                 THEN NoTimer ELSE timer[c]]
  /\ UNCHANGED <<healthChecks, started, runVars, age>>

managerStops ==
  /\ manager = "started"
  /\ manager' = "stopped"
  /\ timer' = [c \in Checks |-> IF c \in Registered THEN NoTimer ELSE timer[c]]
  /\ UNCHANGED <<healthChecks, started, runVars, age>>

(* addCheck() by the application: under the name of a check it throws, and a *)
(* name that is taken is given away, with the whole group behind it.  The    *)
(* group still counts as started after it was stopped.                       *)
addCheck(c, p) ==
  /\ manager # "new" /\ c \in Added
  /\ ~\E q \in DOMAIN healthChecks : IsStrictPrefix(q, p)
  /\ healthChecks' = [q \in {p} \cup {q \in DOMAIN healthChecks : ~IsPrefix(p, q)} |->
                        IF q = p THEN c ELSE healthChecks[q]]
  /\ starts({c})
  /\ UNCHANGED manager

ContextResult(contextStarted, contextStopping) ==
  IF contextStopping THEN "WARNING" ELSE IF contextStarted THEN "OK" ELSE "NOT_READY"

(* The timer of c fires, and c is checked unless a run has not ended yet.    *)
(* The check of the context is over at once.                                 *)
fires(c, contextResult) ==
  /\ timer[c] = 0
  /\ timer' = [timer EXCEPT ![c] = sleepMillis[c]]
  /\ IF c = contextCheck
     THEN /\ lastResult' = [lastResult EXCEPT ![c] = contextResult]
          /\ age' = [age EXCEPT ![c] = 0]
          /\ UNCHANGED <<checkRunning, doingCheck>>
     ELSE /\ checkRunning' = [checkRunning EXCEPT ![c] = TRUE]
          /\ doingCheck' = [doingCheck EXCEPT ![c] = @ \/ ~checkRunning[c]]
          /\ UNCHANGED <<lastResult, age>>
  /\ UNCHANGED <<groupVars, started>>

(* Mutant: the flag is not reset when doCheck() rejects.                     *)
doCheckSettlesOrHangs(c) ==
  /\ doingCheck[c]
  /\ doingCheck' = [doingCheck EXCEPT ![c] = FALSE]
  /\ \E status \in {"OK", "NOT_READY", "CRITICAL"} :
       /\ lastResult' = [lastResult EXCEPT ![c] = status]
       /\ checkRunning' = [checkRunning EXCEPT ![c] = status = "CRITICAL"]
  /\ age' = [age EXCEPT ![c] = 0]
  /\ UNCHANGED <<groupVars, started, timer>>

mysqlDoCheck(wired, answers) ==
  IF ~wired THEN "NOT_READY" ELSE IF answers THEN "OK" ELSE "CRITICAL"

(* The management API may be told not to check.                              *)
rabbitmqDoCheck(wired, enabled, answers) ==
  IF ~wired THEN "NOT_READY" ELSE IF answers \/ ~enabled THEN "OK" ELSE "CRITICAL"

(* doCheck() settles; a rejection is made a CRITICAL result.                 *)
doCheckSettles(c) ==
  /\ doingCheck[c]
  /\ doingCheck' = [doingCheck EXCEPT ![c] = FALSE]
  /\ checkRunning' = [checkRunning EXCEPT ![c] = FALSE]
  /\ \E wired, enabled, answers \in BOOLEAN :
       \E status \in {mysqlDoCheck(wired, answers), rabbitmqDoCheck(wired, enabled, answers)} :
         lastResult' = [lastResult EXCEPT ![c] = status]
  /\ age' = [age EXCEPT ![c] = 0]
  /\ UNCHANGED <<groupVars, started, timer>>

tick ==
  /\ \A c \in Checks : timer[c] # 0
  /\ timer' = [c \in Checks |-> IF timer[c] = NoTimer THEN NoTimer ELSE timer[c] - 1]
  /\ age' = [c \in Checks |-> IF age[c] < AgeBound(c) THEN age[c] + 1 ELSE age[c]]
  /\ UNCHANGED <<groupVars, started, runVars>>
-----------------------------------------------------------------------------
Stale(c) == age[c] > Threshold(c)

(* Mutant: the last result is reported whatever its age.                     *)
getAnyResult(c) == lastResult[c]

getLastResult(c) == IF Stale(c) THEN "CRITICAL" ELSE lastResult[c]

(* The result of the whole group: the worst, where a dependency that is      *)
(* CRITICAL does not count.                                                  *)
Counted == {getLastResult(c) : c \in {d \in Registered :
              ~(d \in Dependencies /\ getLastResult(d) = "CRITICAL")}}

getStatus ==
  Status[CHOOSE i \in 1 .. 4 :
           /\ i = 1 \/ Status[i] \in Counted
           /\ \A j \in (i + 1) .. 4 : Status[j] \notin Counted]

(* What /health answers with status 200.                                     *)
Healthy == getStatus \in {"OK", "NOT_READY"}
-----------------------------------------------------------------------------
(* A check whose timer runs turns stale only while one and the same run of   *)
(* it hangs, or before its first run: results that are late, skipped runs    *)
(* and failures never leave it stale.                                        *)
StaleMeansHanging ==
  \A c \in Checks :
    timer[c] # NoTimer /\ Stale(c) => doingCheck[c] \/ lastResult[c] = "NOT_READY"

(* The timers that run are those of the registered checks, from the start to *)
(* the stop of the manager, with two exceptions of addCheck(): nobody stops  *)
(* what another check has taken the place of, nor what was added after the   *)
(* stop.                                                                     *)
TimersFollowManager ==
  \A c \in Checks :
    /\ c \in Registered /\ manager \in {"started", "late"} => timer[c] # NoTimer
    /\ timer[c] # NoTimer =>
         \/ c \in Registered /\ manager \in {"started", "late"}
         \/ c \notin Registered \/ c \in Added
=============================================================================
