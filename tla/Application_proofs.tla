------------------------- MODULE Application_proofs -------------------------
(* Theorems about an application, its context and its health checks, for any *)
(* plugins, signals, checks, names, periods and orders.                      *)
(*                                                                           *)
(* The context is a Lifecycle object, so that what is proved of it holds     *)
(* here.  The checks have an invariant of their own.  What the shutdown does *)
(* rests on one more, which relates start(), stop() and the servers.         *)
EXTENDS Application, Lifecycle_proofs

-----------------------------------------------------------------------------
(* The inductive invariants                                                  *)

HealthTypeOK ==
  /\ started \in [Checks -> BOOLEAN]
  /\ timer \in [Checks -> Int]
  /\ checkRunning \in [Checks -> BOOLEAN] /\ doingCheck \in [Checks -> BOOLEAN]
  /\ lastResult \in [Checks -> {"OK", "NOT_READY", "WARNING", "CRITICAL"}]
  /\ age \in [Checks -> Nat]

(* A check that has not started has no timer and no result.  One whose timer *)
(* runs and that is not running itself has a result that is not older than   *)
(* the timer.                                                                *)
CheckOK(c) ==
  /\ timer[c] = NoTimer \/ timer[c] \in 0..sleepMillis[c]
  /\ ~started[c] => timer[c] = NoTimer /\ lastResult[c] = "NOT_READY" /\ ~doingCheck[c]
  /\ checkRunning[c] = doingCheck[c]
  /\ c = contextCheck => ~doingCheck[c]
  /\ timer[c] # NoTimer /\ ~doingCheck[c] /\ lastResult[c] # "NOT_READY" =>
       age[c] + timer[c] <= sleepMillis[c]

(* Timers are stopped by the manager alone, and then of the checks that it   *)
(* knows; what is known after that was added.                                *)
GroupOK ==
  /\ Registered \subseteq Checks
  /\ manager = "new" => Registered = {} /\ \A c \in Checks : ~started[c]
  /\ manager # "new" => \A c \in Registered : started[c]
  /\ manager # "stopped" => \A c \in Checks : started[c] => timer[c] # NoTimer
  /\ manager = "stopped" => \A c \in Registered : timer[c] # NoTimer => c \in Added
  /\ manager \in {"new", "started", "late", "stopped"}

HealthIInv == HealthTypeOK /\ (\A c \in Checks : CheckOK(c)) /\ GroupOK

(* How far start() is, and what the servers have to do with it.              *)
StartOK ==
  /\ start[app] = "running" => phase = "context"
  /\ phase \in {"idle", "willStart"} => server = {}
  /\ listening \subseteq server /\ server \subseteq Before \cup After
  /\ phase \in {"didStart", "started"} \/ listening # {} =>
       IsAtOrAfter(status, "STARTED") /\ manager # "new"

(* A stop() that found the start over closes the servers in two steps.       *)
StopOK ==
  /\ orderly \subseteq Signals
  /\ orderly # {} => phase = "started"
  /\ \A s \in Signals : stopping[s] = "idle" => stop[s] = "idle"
  /\ \A s \in Signals : stopping[s] = "didStop" => stop[s] = "resolved"
  /\ \A s \in orderly : stopping[s] = "willStop" => listening \cap Before = {}
  /\ \A s \in orderly : stop[s] \in {"running", "resolved"} => listening = {}
  /\ exited => \E s \in Signals : stop[s] = "resolved"
  /\ DOMAIN stopping = Signals

ProcessIInv == IInv /\ StartOK /\ StopOK

(* What the check of the context says was true when the context began to     *)
(* stop, or later.                                                           *)
ReportOK ==
  /\ sinceStop \in 0..(RecentStop + 1)
  /\ ~ContextStopping => sinceStop = 0
  /\ ContextStopping => lastResult[contextCheck] = "WARNING" \/ age[contextCheck] >= sinceStop

(* The name of the context's check is its own, and the application adds       *)
(* nothing under it or under the name of a group that it is in.              *)
ContextCheckIsKept ==
  /\ contextCheck \in DOMAIN Autowired
  /\ \A c \in DOMAIN Autowired : Autowired[c] = Autowired[contextCheck] => c = contextCheck
  /\ \A p \in AddedPaths : /\ p # Autowired[contextCheck]
                           /\ ~IsStrictPrefix(p, Autowired[contextCheck])

ContextCheckRegistered ==
  manager # "new" => /\ Autowired[contextCheck] \in DOMAIN healthChecks
                     /\ healthChecks[Autowired[contextCheck]] = contextCheck

-----------------------------------------------------------------------------
(* The context is a Lifecycle object                                         *)

LEMMA AppCallers ==
  /\ app \in Starters /\ failure \in Stoppers /\ giveUp \in Stoppers
  /\ Signals \subseteq Stoppers /\ failure \notin Signals /\ giveUp \notin Signals
  /\ \A c \in Starters : c = app
  BY ApplicationAssumption

LEMMA ContextSteps == AppNext => [Next]_vars
<1> SUFFICES ASSUME AppNext PROVE [Next]_vars
  OBVIOUS
<1>1. CASE startNext
  <2>1. ASSUME \/ startApp \/ (\E p \in Late : register(p)) \/ willStartRejects \/ managerStart
               \/ didStartResolves \/ didStartRejects
        PROVE  UNCHANGED vars
    BY <2>1 DEF startApp, register, willStartRejects, managerStart, didStartResolves, didStartRejects,
                contextVars
  <2>2. willStartResolves => lcStart(app)
    BY DEF willStartResolves
  <2>3. contextStarts => doStartResolves(app)
    BY DEF contextStarts
  <2>4. startFails => doStartRejects(app)
    BY DEF startFails
  <2>5. objectFails => lcStop(failure)
    BY DEF objectFails
  <2> QED BY <1>1, <2>1, <2>2, <2>3, <2>4, <2>5, AppCallers DEF startNext, Next
<1>2. ASSUME NEW s \in Signals, signal(s) \/ stopNext(s) PROVE [Next]_vars
  <2>1. UNCHANGED vars \/ lcStop(s)
    BY <1>2 DEF signal, stopNext, willStopResolves, willStopRejects, didStopResolves, didStopRejects,
                contextVars
  <2> QED BY <2>1, AppCallers DEF Next
<1>3. CASE shutdownFunction
  BY <1>3, AppCallers DEF shutdownFunction, Next
<1>4. CASE contextStopNext
  <2>1. managerStop => UNCHANGED vars
    BY DEF managerStop, contextVars
  <2>2. \A c \in Stoppers : contextStops(c) => doStopResolves(c)
    BY DEF contextStops
  <2>3. \A c \in Stoppers : contextStopFails(c) => doStopRejects(c)
    BY DEF contextStopFails
  <2> QED BY <1>4, <2>1, <2>2, <2>3 DEF contextStopNext, Next
<1>5. CASE health \/ time
  BY <1>5 DEF health, time, contextVars
<1> QED BY <1>1, <1>2, <1>3, <1>4, <1>5 DEF AppNext

(* Whatever start(), the signals, a failed start and a client that gives up  *)
(* do to the context, it takes the steps of a Lifecycle object, one at a     *)
(* time: what is proved of those holds of it (BaseApp.start(), BaseApp.stop()*)
(* and Context.lcStop()).                                                    *)
THEOREM ContextIsALifecycle == AppSpec => Spec
<1>1. AppInit => Init
  BY DEF AppInit
<1>2. [AppNext]_appVars => [Next]_vars
  BY ContextSteps DEF appVars, contextVars
<1> QED BY <1>1, <1>2, PTL DEF AppSpec, Spec

-----------------------------------------------------------------------------
(* Health checks                                                             *)

LEMMA HealthInitImplies == HealthInit => HealthIInv
<1> SUFFICES ASSUME HealthInit PROVE HealthIInv
  OBVIOUS
<1>1. HealthTypeOK
  BY HealthAssumption DEF HealthInit, HealthTypeOK, NoTimer
<1>2. ASSUME NEW c \in Checks PROVE CheckOK(c)
  BY <1>2 DEF HealthInit, CheckOK
<1>3. DOMAIN <<>> = {}
  OBVIOUS
<1>4. Registered = {}
  BY <1>3 DEF HealthInit, Registered
<1>5. GroupOK
  BY <1>4 DEF HealthInit, GroupOK
<1> QED BY <1>1, <1>2, <1>5 DEF HealthIInv

LEMMA ChecksStart ==
  ASSUME HealthTypeOK, \A c \in Checks : CheckOK(c), NEW S \in SUBSET Checks, starts(S)
  PROVE  /\ HealthTypeOK' /\ \A c \in Checks : CheckOK(c)'
         /\ \A c \in Checks : started'[c] <=> started[c] \/ c \in S
         /\ \A c \in Checks : timer'[c] = IF c \in S /\ ~started[c] THEN sleepMillis[c] ELSE timer[c]
<1> DEFINE new == {c \in S : ~started[c]}
           run == {c \in new \cap Immediate : ~checkRunning[c]}
<1>1. /\ started' = [c \in Checks |-> started[c] \/ c \in new]
      /\ timer' = [c \in Checks |-> IF c \in new THEN sleepMillis[c] ELSE timer[c]]
      /\ checkRunning' = [c \in Checks |-> checkRunning[c] \/ c \in run]
      /\ doingCheck' = [c \in Checks |-> doingCheck[c] \/ c \in run]
      /\ lastResult' = lastResult /\ age' = age
  BY DEF starts
<1>2. \A c \in Checks : sleepMillis[c] \in Nat \ {0} /\ timer[c] \in Int
  BY HealthAssumption DEF HealthTypeOK
<1>3. HealthTypeOK'
  <2>1. started' \in [Checks -> BOOLEAN] /\ checkRunning' \in [Checks -> BOOLEAN]
        /\ doingCheck' \in [Checks -> BOOLEAN]
    BY <1>1
  <2>2. timer' \in [Checks -> Int]
    BY <1>1, <1>2
  <2> QED BY <1>1, <2>1, <2>2 DEF HealthTypeOK
<1>4. \A c \in Checks : started'[c] <=> started[c] \/ c \in S
  BY <1>1
<1>5. \A c \in Checks : timer'[c] = IF c \in S /\ ~started[c] THEN sleepMillis[c] ELSE timer[c]
  BY <1>1
<1>6. ASSUME NEW c \in Checks PROVE CheckOK(c)'
  <2>1. CheckOK(c) /\ lastResult'[c] = lastResult[c] /\ age'[c] = age[c]
        /\ age[c] \in Nat /\ sleepMillis[c] \in Nat \ {0} /\ timer[c] \in Int
    BY <1>1, <1>2 DEF HealthTypeOK
  <2>2. /\ started'[c] <=> started[c] \/ c \in new
        /\ checkRunning'[c] <=> checkRunning[c] \/ c \in run
        /\ doingCheck'[c] <=> doingCheck[c] \/ c \in run
    BY <1>1
  <2>3. checkRunning'[c] = doingCheck'[c]
    <3>1. checkRunning[c] = doingCheck[c]
      BY <2>1 DEF CheckOK
    <3>2. checkRunning'[c] = (checkRunning[c] \/ c \in run) /\ doingCheck'[c] = (doingCheck[c] \/ c \in run)
      BY <1>1, Zenon
    <3> QED BY <3>1, <3>2, Zenon
  <2>4. c = contextCheck => c \notin run
    BY HealthAssumption
  <2>5. c \in run => c \in new
    OBVIOUS
  <2>6. CASE c \in new
    <3>1. ~started[c] /\ timer'[c] = sleepMillis[c] /\ lastResult[c] = "NOT_READY"
      BY <1>1, <2>1, <2>6 DEF CheckOK
    <3> QED BY <2>1, <2>2, <2>3, <2>4, <2>6, <3>1 DEF CheckOK
  <2>7. CASE c \notin new
    <3>1. timer'[c] = timer[c] /\ (started'[c] <=> started[c]) /\ (doingCheck'[c] <=> doingCheck[c])
      BY <1>1, <2>2, <2>5, <2>7
    <3> QED BY <2>1, <2>3, <3>1 DEF CheckOK
  <2> QED BY <2>6, <2>7
<1> QED BY <1>3, <1>4, <1>5, <1>6

LEMMA ManagerStartsChecks ==
  ASSUME HealthIInv, NEW as \in {"started", "late"}, managerStarts(as)
  PROVE  HealthIInv' /\ Registered' \subseteq DOMAIN Autowired
<1>1. /\ manager = "new" /\ manager' = as /\ starts(DOMAIN Autowired)
      /\ healthChecks' = [p \in Range(Autowired) |-> CHOOSE c \in DOMAIN Autowired : Autowired[c] = p]
  BY DEF managerStarts
<1>2. DOMAIN Autowired \in SUBSET Checks
  BY DEF Checks
<1>3. /\ HealthTypeOK' /\ \A c \in Checks : CheckOK(c)'
      /\ \A c \in Checks : started'[c] <=> started[c] \/ c \in DOMAIN Autowired
      /\ \A c \in Checks : timer'[c] = IF c \in DOMAIN Autowired /\ ~started[c]
                                       THEN sleepMillis[c] ELSE timer[c]
  BY <1>1, <1>2, ChecksStart DEF HealthIInv
<1>4. Registered' \subseteq DOMAIN Autowired
  <2>1. \A p \in Range(Autowired) : \E c \in DOMAIN Autowired : Autowired[c] = p
    BY DEF Range
  <2>2. \A p \in Range(Autowired) : healthChecks'[p] \in DOMAIN Autowired
    BY <1>1, <2>1
  <2>3. DOMAIN healthChecks' = Range(Autowired)
    BY <1>1
  <2> QED BY <2>2, <2>3 DEF Registered
<1>5. \A c \in Checks : ~started[c]
  BY <1>1 DEF HealthIInv, GroupOK
<1>6. \A c \in DOMAIN Autowired : started'[c] /\ timer'[c] # NoTimer
  BY <1>2, <1>3, <1>5, HealthAssumption DEF NoTimer
<1>7. \A c \in Checks : started'[c] => timer'[c] # NoTimer
  BY <1>3, <1>5, <1>6
<1>8. GroupOK'
  BY <1>1, <1>2, <1>4, <1>6, <1>7 DEF GroupOK
<1> QED BY <1>3, <1>4, <1>8 DEF HealthIInv

LEMMA ManagerStopsChecks ==
  ASSUME HealthIInv, managerStops
  PROVE  HealthIInv'
<1>1. /\ manager = "started" /\ manager' = "stopped"
      /\ timer' = [c \in Checks |-> IF c \in Registered THEN NoTimer ELSE timer[c]]
      /\ UNCHANGED <<healthChecks, started, checkRunning, doingCheck, lastResult, age>>
  BY DEF managerStops, runVars
<1>2. HealthTypeOK'
  BY <1>1 DEF HealthIInv, HealthTypeOK, NoTimer
<1>3. \A c \in Checks : timer'[c] = NoTimer \/ timer'[c] = timer[c]
  BY <1>1
<1>4. ASSUME NEW c \in Checks PROVE CheckOK(c)'
  BY <1>1, <1>3 DEF HealthIInv, CheckOK
<1>5. Registered' = Registered
  BY <1>1 DEF Registered
<1>6. GroupOK'
  BY <1>1, <1>5 DEF HealthIInv, GroupOK
<1> QED BY <1>2, <1>4, <1>6 DEF HealthIInv

LEMMA ApplicationAdds ==
  ASSUME HealthIInv, NEW c \in Checks, NEW p, addCheck(c, p)
  PROVE  HealthIInv'
<1>1. /\ manager # "new" /\ c \in Added /\ manager' = manager /\ starts({c})
      /\ healthChecks' = [q \in {p} \cup {q \in DOMAIN healthChecks : ~IsPrefix(p, q)} |->
                            IF q = p THEN c ELSE healthChecks[q]]
  BY DEF addCheck
<1>2. {c} \in SUBSET Checks
  OBVIOUS
<1>3. /\ HealthTypeOK' /\ \A d \in Checks : CheckOK(d)'
      /\ \A d \in Checks : started'[d] <=> started[d] \/ d \in {c}
      /\ \A d \in Checks : timer'[d] = IF d \in {c} /\ ~started[d] THEN sleepMillis[d] ELSE timer[d]
  BY <1>1, <1>2, ChecksStart DEF HealthIInv
<1>4. Registered' \subseteq Registered \cup {c}
  <2>1. \A q \in DOMAIN healthChecks' : healthChecks'[q] = c \/
          (q \in DOMAIN healthChecks /\ healthChecks'[q] = healthChecks[q])
    BY <1>1
  <2> QED BY <2>1 DEF Registered
<1>5. manager # "stopped" => \A d \in Checks : started'[d] => timer'[d] # NoTimer
  <2>1. \A d \in Checks : sleepMillis[d] # NoTimer
    BY HealthAssumption DEF NoTimer
  <2> QED BY <1>3, <2>1 DEF HealthIInv, GroupOK
<1>6. manager = "stopped" => \A d \in Registered' : timer'[d] # NoTimer => d \in Added
  <2> SUFFICES ASSUME manager = "stopped", NEW d \in Registered', timer'[d] # NoTimer, d # c
               PROVE  d \in Added
    BY <1>1
  <2>1. d \in Registered /\ d \in Checks
    BY <1>4 DEF HealthIInv, GroupOK
  <2>2. timer'[d] = timer[d]
    BY <1>3, <2>1
  <2> QED BY <2>1, <2>2 DEF HealthIInv, GroupOK
<1>7. GroupOK'
  <2>1. Registered' \subseteq Checks /\ \A d \in Registered' : started'[d]
    BY <1>1, <1>3, <1>4 DEF HealthIInv, GroupOK
  <2> QED BY <1>1, <1>5, <1>6, <2>1 DEF HealthIInv, GroupOK
<1> QED BY <1>3, <1>7 DEF HealthIInv

(* A step that leaves alone all that is kept of a check.                      *)
LEMMA CheckStays ==
  ASSUME NEW d \in Checks, CheckOK(d),
         timer'[d] = timer[d], started'[d] = started[d],
         checkRunning'[d] = checkRunning[d], doingCheck'[d] = doingCheck[d],
         lastResult'[d] = lastResult[d], age'[d] = age[d]
  PROVE  CheckOK(d)'
<1>1. checkRunning'[d] = doingCheck'[d]
  <2>1. checkRunning[d] = doingCheck[d]
    BY DEF CheckOK
  <2> QED BY <2>1, Zenon
<1>2. (doingCheck'[d] <=> doingCheck[d]) /\ (started'[d] <=> started[d])
  BY Zenon
<1> QED BY <1>1, <1>2 DEF CheckOK

(* A run of a check, and the time between.                                   *)
LEMMA CheckFires ==
  ASSUME HealthIInv, NEW c \in Checks, NEW result \in {"OK", "NOT_READY", "WARNING"}, fires(c, result)
  PROVE  HealthIInv'
<1>1. /\ timer[c] = 0 /\ timer' = [timer EXCEPT ![c] = sleepMillis[c]]
      /\ UNCHANGED <<healthChecks, manager, started>>
  BY DEF fires, groupVars
<1>2. sleepMillis[c] \in Nat \ {0}
  BY HealthAssumption
<1>3. \/ /\ c = contextCheck
         /\ lastResult' = [lastResult EXCEPT ![c] = result]
         /\ age' = [age EXCEPT ![c] = 0]
         /\ UNCHANGED <<checkRunning, doingCheck>>
      \/ /\ c # contextCheck
         /\ checkRunning' = [checkRunning EXCEPT ![c] = TRUE]
         /\ doingCheck' = [doingCheck EXCEPT ![c] = @ \/ ~checkRunning[c]]
         /\ UNCHANGED <<lastResult, age>>
  BY DEF fires
<1>4. HealthTypeOK'
  <2>1. timer' \in [Checks -> Int]
    BY <1>1, <1>2 DEF HealthIInv, HealthTypeOK
  <2>2. checkRunning' \in [Checks -> BOOLEAN] /\ doingCheck' \in [Checks -> BOOLEAN]
    BY <1>3 DEF HealthIInv, HealthTypeOK
  <2>3. lastResult' \in [Checks -> {"OK", "NOT_READY", "WARNING", "CRITICAL"}] /\ age' \in [Checks -> Nat]
    BY <1>3 DEF HealthIInv, HealthTypeOK
  <2> QED BY <1>1, <2>1, <2>2, <2>3 DEF HealthIInv, HealthTypeOK
<1>5. started[c] /\ timer[c] # NoTimer
  BY <1>1 DEF HealthIInv, CheckOK, NoTimer
<1>6. ASSUME NEW d \in Checks \ {c} PROVE CheckOK(d)'
  <2>1. timer'[d] = timer[d] /\ checkRunning'[d] = checkRunning[d] /\ doingCheck'[d] = doingCheck[d]
        /\ lastResult'[d] = lastResult[d] /\ age'[d] = age[d] /\ started'[d] = started[d]
    BY <1>1, <1>3 DEF HealthIInv, HealthTypeOK
  <2>2. d \in Checks /\ CheckOK(d)
    BY DEF HealthIInv
  <2> QED BY <2>1, <2>2, CheckStays
<1>7. CheckOK(c)'
  <2>1. timer'[c] = sleepMillis[c] /\ started'[c] = started[c]
    BY <1>1 DEF HealthIInv, HealthTypeOK
  <2>2. CASE c = contextCheck
    <3>1. age'[c] = 0 /\ UNCHANGED <<checkRunning, doingCheck>>
      BY <1>3, <2>2 DEF HealthIInv, HealthTypeOK
    <3> QED BY <1>2, <1>5, <2>1, <2>2, <3>1 DEF HealthIInv, CheckOK
  <2>3. CASE c # contextCheck
    <3>1. checkRunning'[c] = TRUE
      BY <1>3, <2>3 DEF HealthIInv, HealthTypeOK
    <3>2. doingCheck'[c] = (doingCheck[c] \/ ~checkRunning[c])
      BY <1>3, <2>3, Zenon DEF HealthIInv, HealthTypeOK
    <3>3. checkRunning[c] = doingCheck[c] /\ checkRunning[c] \in BOOLEAN
      BY DEF HealthIInv, HealthTypeOK, CheckOK
    <3>4. doingCheck'[c] = TRUE
      BY <3>2, <3>3
    <3>5. started'[c] /\ doingCheck'[c] /\ checkRunning'[c] = doingCheck'[c]
      BY <1>5, <2>1, <3>1, <3>4, Zenon
    <3> QED BY <1>2, <2>1, <2>3, <3>5 DEF CheckOK
  <2> QED BY <2>2, <2>3
<1>8. \A d \in Checks : (timer'[d] # NoTimer) = (timer[d] # NoTimer)
  BY <1>1, <1>2 DEF HealthIInv, HealthTypeOK, NoTimer
<1>9. GroupOK'
  BY <1>1, <1>8 DEF HealthIInv, GroupOK, Registered
<1> QED BY <1>4, <1>6, <1>7, <1>9 DEF HealthIInv

LEMMA CheckSettles ==
  ASSUME HealthIInv, NEW c \in Checks, doCheckSettles(c)
  PROVE  HealthIInv' /\ c # contextCheck
<1>1. /\ doingCheck[c]
      /\ doingCheck' = [doingCheck EXCEPT ![c] = FALSE]
      /\ checkRunning' = [checkRunning EXCEPT ![c] = FALSE]
      /\ age' = [age EXCEPT ![c] = 0]
      /\ UNCHANGED <<healthChecks, manager, started, timer>>
  BY DEF doCheckSettles, groupVars
<1>2. PICK result \in {"OK", "NOT_READY", "CRITICAL"} : lastResult' = [lastResult EXCEPT ![c] = result]
  BY DEF doCheckSettles, mysqlDoCheck, rabbitmqDoCheck
<1>3. HealthTypeOK'
  BY <1>1, <1>2 DEF HealthIInv, HealthTypeOK
<1>4. ASSUME NEW d \in Checks \ {c} PROVE CheckOK(d)'
  <2>1. timer'[d] = timer[d] /\ checkRunning'[d] = checkRunning[d] /\ doingCheck'[d] = doingCheck[d]
        /\ lastResult'[d] = lastResult[d] /\ age'[d] = age[d] /\ started'[d] = started[d]
    BY <1>1, <1>2 DEF HealthIInv, HealthTypeOK
  <2>2. d \in Checks /\ CheckOK(d)
    BY DEF HealthIInv
  <2> QED BY <2>1, <2>2, CheckStays
<1>5. started[c] /\ c # contextCheck
  BY <1>1 DEF HealthIInv, CheckOK
<1>6. CheckOK(c)'
  <2>1. age'[c] = 0 /\ doingCheck'[c] = FALSE /\ checkRunning'[c] = FALSE /\ timer'[c] = timer[c]
        /\ started'[c] = started[c]
    BY <1>1 DEF HealthIInv, HealthTypeOK
  <2>2. sleepMillis[c] \in Nat /\ (timer[c] = NoTimer \/ timer[c] \in 0..sleepMillis[c])
    BY HealthAssumption DEF HealthIInv, CheckOK
  <2>3. started'[c] /\ ~doingCheck'[c] /\ checkRunning'[c] = doingCheck'[c]
    BY <1>5, <2>1, Zenon
  <2> QED BY <1>5, <2>1, <2>2, <2>3 DEF CheckOK
<1>7. GroupOK'
  BY <1>1 DEF HealthIInv, GroupOK, Registered
<1> QED BY <1>3, <1>4, <1>5, <1>6, <1>7 DEF HealthIInv

LEMMA TimePasses ==
  ASSUME HealthIInv, tick
  PROVE  HealthIInv'
<1>1. /\ \A c \in Checks : timer[c] # 0
      /\ timer' = [c \in Checks |-> IF timer[c] = NoTimer THEN NoTimer ELSE timer[c] - 1]
      /\ age' = [c \in Checks |-> IF age[c] < AgeBound(c) THEN age[c] + 1 ELSE age[c]]
      /\ UNCHANGED <<healthChecks, manager, started, checkRunning, doingCheck, lastResult>>
  BY DEF tick, groupVars, runVars
<1>2. \A c \in Checks : /\ timer[c] \in Int /\ age[c] \in Nat /\ sleepMillis[c] \in Nat
                        /\ timer[c] = NoTimer \/ timer[c] \in 1..sleepMillis[c]
  BY <1>1, HealthAssumption DEF HealthIInv, HealthTypeOK, CheckOK
<1>3. \A c \in Checks : /\ timer'[c] = IF timer[c] = NoTimer THEN NoTimer ELSE timer[c] - 1
                        /\ age'[c] = age[c] + 1 \/ age'[c] = age[c]
  BY <1>1
<1>4. HealthTypeOK'
  <2>1. timer' \in [Checks -> Int]
    BY <1>1, <1>2 DEF NoTimer
  <2>2. age' \in [Checks -> Nat]
    BY <1>1, <1>2
  <2> QED BY <1>1, <2>1, <2>2 DEF HealthIInv, HealthTypeOK
<1>5. ASSUME NEW c \in Checks PROVE CheckOK(c)'
  BY <1>1, <1>2, <1>3 DEF HealthIInv, CheckOK, NoTimer
<1>6. \A c \in Checks : timer'[c] # NoTimer <=> timer[c] # NoTimer
  BY <1>2, <1>3 DEF NoTimer
<1>7. GroupOK'
  BY <1>1, <1>6 DEF HealthIInv, GroupOK, Registered
<1> QED BY <1>4, <1>5, <1>7 DEF HealthIInv

-----------------------------------------------------------------------------
(* What an application does to its checks                                    *)

ContextResults == {"OK", "NOT_READY", "WARNING"}

HealthStep ==
  \/ UNCHANGED healthVars
  \/ \E as \in {"started", "late"} : managerStarts(as)
  \/ managerStops
  \/ \E c \in Checks : (\E result \in ContextResults : fires(c, result)) \/ doCheckSettles(c)
  \/ \E c \in Added, p \in AddedPaths : addCheck(c, p)
  \/ tick

LEMMA AppHealthSteps == [AppNext]_appVars => HealthStep
<1> SUFFICES ASSUME AppNext PROVE HealthStep
  BY DEF appVars, HealthStep
<1>1. CASE managerStart
  BY <1>1 DEF managerStart, HealthStep
<1>2. CASE managerStop
  BY <1>2 DEF managerStop, HealthStep
<1>3. CASE health
  <2>1. ContextResult(ContextStarted, ContextStopping) \in ContextResults
    BY DEF ContextResult, ContextResults
  <2> QED BY <1>3, <2>1 DEF health, HealthStep
<1>4. CASE time
  BY <1>4 DEF time, HealthStep
<1>5. ASSUME startNext, ~managerStart PROVE UNCHANGED healthVars
  BY <1>5 DEF startNext, startApp, register, willStartResolves, willStartRejects, contextStarts,
              objectFails, startFails, didStartResolves, didStartRejects
<1>6. ASSUME NEW s \in Signals, signal(s) \/ stopNext(s) PROVE UNCHANGED healthVars
  BY <1>6 DEF signal, stopNext, willStopResolves, willStopRejects, didStopResolves, didStopRejects
<1>7. ASSUME shutdownFunction \/ \E c \in Stoppers : contextStops(c) \/ contextStopFails(c)
      PROVE  UNCHANGED healthVars
  BY <1>7 DEF shutdownFunction, contextStops, contextStopFails
<1> QED BY <1>1, <1>2, <1>3, <1>4, <1>5, <1>6, <1>7 DEF AppNext, contextStopNext, HealthStep

LEMMA HealthNext == HealthIInv /\ [AppNext]_appVars => HealthIInv'
<1> SUFFICES ASSUME HealthIInv, [AppNext]_appVars PROVE HealthIInv'
  OBVIOUS
<1>1. HealthStep
  BY AppHealthSteps
<1>2. CASE UNCHANGED healthVars
  <2>1. UNCHANGED <<healthChecks, manager, started, timer, checkRunning, doingCheck, lastResult, age>>
    BY <1>2 DEF healthVars, groupVars, runVars
  <2> QED BY <2>1 DEF HealthIInv, HealthTypeOK, CheckOK, GroupOK, Registered
<1>3. ASSUME NEW as \in {"started", "late"}, managerStarts(as) PROVE HealthIInv'
  BY <1>3, ManagerStartsChecks
<1>4. ASSUME NEW c \in Checks, (\E result \in ContextResults : fires(c, result)) \/ doCheckSettles(c)
      PROVE  HealthIInv'
  BY <1>4, CheckFires, CheckSettles DEF ContextResults
<1>5. ASSUME NEW c \in Added, NEW p \in AddedPaths, addCheck(c, p) PROVE HealthIInv'
  BY <1>5, ApplicationAdds DEF Checks
<1> QED BY <1>1, <1>2, <1>3, <1>4, <1>5, ManagerStopsChecks, TimePasses DEF HealthStep

LEMMA HealthInvariant == AppSpec => []HealthIInv
<1>1. AppInit => HealthIInv
  BY HealthInitImplies DEF AppInit
<1> QED BY <1>1, HealthNext, PTL DEF AppSpec

(* Every registered check has a timer from the start of the manager to its   *)
(* stop, and after that only what it does not know any more, or was added    *)
(* too late, keeps one (HealthCheckGroup.start(), stop() and addCheck()).    *)
THEOREM TimersFollow == AppSpec => []TimersFollowManager
<1>1. HealthIInv => TimersFollowManager
  BY DEF HealthIInv, GroupOK, TimersFollowManager
<1> QED BY <1>1, HealthInvariant, PTL

LEMMA OnePeriodIsNotStale ==
  ASSUME staleNumFails # 0, NEW c \in Checks
  PROVE  Threshold(c) \in Nat /\ Threshold(c) >= sleepMillis[c]
<1>1. PICK n \in Nat : n = staleNumFails /\ n >= 1
  BY HealthAssumption
<1>2. PICK m \in Nat : m = sleepMillis[c] /\ m >= 1
  BY HealthAssumption
<1>3. n * m \in Nat /\ n * m = (n - 1) * m + m /\ (n - 1) * m >= 0
  BY <1>1, <1>2
<1> QED BY <1>1, <1>2, <1>3 DEF Threshold

(* With staleNumFails of one or more (the code's default is 2), a check whose *)
(* timer runs turns stale only while one run of it hangs or before its first *)
(* (HealthCheck.getLastResult() and runCheck()).                             *)
THEOREM StaleChecksHang ==
  ASSUME staleNumFails # 0
  PROVE  AppSpec => []StaleMeansHanging
<1>1. HealthIInv => StaleMeansHanging
  <2> SUFFICES ASSUME HealthIInv, NEW c \in Checks, timer[c] # NoTimer, ~doingCheck[c],
                      lastResult[c] # "NOT_READY"
               PROVE  ~Stale(c)
    BY DEF StaleMeansHanging
  <2>1. age[c] + timer[c] <= sleepMillis[c] /\ timer[c] \in 0..sleepMillis[c]
    BY DEF HealthIInv, CheckOK
  <2>2. age[c] \in Nat /\ sleepMillis[c] \in Nat
    BY HealthAssumption DEF HealthIInv, HealthTypeOK
  <2>3. Threshold(c) \in Nat /\ Threshold(c) >= sleepMillis[c]
    BY OnePeriodIsNotStale
  <2> QED BY <2>1, <2>2, <2>3 DEF Stale
<1> QED BY <1>1, HealthInvariant, PTL

-----------------------------------------------------------------------------
(* start(), stop() and the servers                                           *)

LEMMA AppIsLifecycle == [AppNext]_appVars => [Next]_vars
  BY ContextSteps DEF appVars, contextVars

(* The status of the context only climbs, and the manager starts once.       *)
LEMMA ContextClimbs ==
  ASSUME IInv, [Next]_vars, NEW r \in LifecycleState, IsAtOrAfter(status, r)
  PROVE  IsAtOrAfter(status', r)
<1>1. status \in LifecycleState
  BY DEF IInv, TypeOK
<1>2. ASSUME NEW s \in LifecycleState, setStatus(s) PROVE IsAtOrAfter(status', r)
  BY <1>1, <1>2, ValueOf DEF setStatus, Accepts, IsAtOrAfter, IsBefore
<1>3. CASE UNCHANGED status
  BY <1>3
<1> QED BY <1>2, <1>3, ValueOf DEF Next, vars, lcStart, doStartResolves, doStartRejects, lcStop,
                                   doStopResolves, doStopRejects

LEMMA ManagerStartsOnce ==
  ASSUME [AppNext]_appVars, manager # "new"
  PROVE  manager' # "new"
<1>1. HealthStep
  BY AppHealthSteps
<1> QED BY <1>1 DEF HealthStep, healthVars, groupVars, managerStarts, managerStops, fires,
                    doCheckSettles, addCheck, tick

(* What a step that does not touch start() or the servers keeps.             *)
LEMMA StartKept ==
  ASSUME StartOK, UNCHANGED <<phase, server, plugins>>, listening' \subseteq listening,
         start'[app] = "running" => start[app] = "running",
         IsAtOrAfter(status, "STARTED") => IsAtOrAfter(status', "STARTED"),
         manager # "new" => manager' # "new"
  PROVE  StartOK'
<1>1. Before' = Before /\ After' = After
  BY DEF Before, After
<1> QED BY <1>1 DEF StartOK

(* What a step keeps that is not one of stop().                              *)
LEMMA StopKept ==
  ASSUME StopOK, UNCHANGED <<stopping, orderly, exited>>,
         \A s \in Signals : stop'[s] = stop[s],
         orderly # {} => UNCHANGED <<plugins, phase, listening>>
  PROVE  StopOK'
<1>1. orderly # {} => Before' = Before
  BY DEF Before
<1>2. \A s \in orderly' : orderly # {}
  OBVIOUS
<1> QED BY <1>1, <1>2 DEF StopOK

(* Of the callers of lcStop(), only the one that calls sees a change.        *)
LEMMA StopOfOthers ==
  ASSUME IInv, NEW c \in Stoppers, lcStop(c) \/ doStopResolves(c) \/ doStopRejects(c)
  PROVE  start' = start /\ \A d \in Stoppers : d # c => stop'[d] = stop[d]
  BY DEF lcStop, doStopResolves, doStopRejects, IInv, TypeOK

LEMMA StartSteps ==
  ASSUME ProcessIInv, startNext
  PROVE  StartOK' /\ StopOK'
<1> DEFINE Climbs == /\ IsAtOrAfter(status, "STARTED") => IsAtOrAfter(status', "STARTED")
                     /\ manager # "new" => manager' # "new"
<1>1. Climbs
  <2>1. [AppNext]_appVars
    BY DEF AppNext
  <2> QED BY <2>1, AppIsLifecycle, ContextClimbs, ManagerStartsOnce, ValueOf DEF ProcessIInv
<1>2. start \in [Starters -> CallState] /\ app \in Starters
  BY AppCallers DEF ProcessIInv, IInv, TypeOK
<1>3. CASE startApp
  <2>1. StartOK'
    <3>1. Before' = Before /\ After' = After
      BY <1>3 DEF startApp, Before, After
    <3> QED BY <1>1, <1>3, <3>1 DEF startApp, contextVars, vars, ProcessIInv, StartOK
  <2>2. StopOK'
    BY <1>3, StopKept DEF startApp, contextVars, vars, ProcessIInv, StopOK
  <2> QED BY <2>1, <2>2
<1>4. ASSUME NEW p \in Late, register(p) PROVE StartOK' /\ StopOK'
  <2>1. orderly = {} /\ server = {} /\ listening = {}
    BY <1>4 DEF register, ProcessIInv, StopOK, StartOK
  <2>2. StartOK'
    BY <1>1, <1>4, <2>1 DEF register, contextVars, vars, ProcessIInv, StartOK
  <2>3. StopOK'
    BY <1>4, <2>1, StopKept DEF register, contextVars, vars, ProcessIInv
  <2> QED BY <2>2, <2>3
<1>5. CASE willStartResolves
  <2>1. orderly = {} /\ server = {} /\ listening = {}
    BY <1>5 DEF willStartResolves, ProcessIInv, StopOK, StartOK
  <2>2. StartOK'
    BY <1>1, <1>5, <2>1 DEF willStartResolves, ProcessIInv, StartOK
  <2>3. StopOK'
    BY <1>5, <2>1, StopKept DEF willStartResolves, lcStart, ProcessIInv
  <2> QED BY <2>2, <2>3
<1>6. CASE willStartRejects \/ didStartRejects
  <2>1. phase \in {"willStart", "didStart"} /\ phase' = "failed"
        /\ UNCHANGED <<status, start, stop, plugins, server, listening, stopping, orderly, exited>>
    BY <1>6 DEF willStartRejects, didStartRejects, contextVars, vars
  <2>2. orderly = {} /\ start'[app] # "running"
    BY <2>1 DEF ProcessIInv, StopOK, StartOK
  <2>3. StartOK'
    <3>1. Before' = Before /\ After' = After
      BY <2>1 DEF Before, After
    <3> QED BY <1>1, <2>1, <2>2, <3>1 DEF ProcessIInv, StartOK
  <2>4. StopOK'
    BY <2>1, <2>2, StopKept DEF ProcessIInv
  <2> QED BY <2>3, <2>4
<1>7. CASE managerStart
  <2>1. UNCHANGED <<status, start, stop, plugins, phase, server, listening, stopping, orderly, exited>>
    BY <1>7 DEF managerStart, contextVars, vars, processVars
  <2> QED BY <1>1, <2>1, StartKept, StopKept DEF ProcessIInv
<1>8. CASE contextStarts
  <2>1. /\ phase = "context" /\ manager # "new" /\ doStartResolves(app)
        /\ UNCHANGED <<plugins, stopping, exited, orderly>>
        /\ phase' \in {"failed", "didStart"} /\ (phase' = "didStart" => Closed("STARTED") = "resolved")
        /\ \/ didStart(Before)
           \/ UNCHANGED <<server, listening>> /\ phase' = "failed"
    BY <1>8 DEF contextStarts
  <2>2. orderly = {}
    BY <2>1 DEF ProcessIInv, StopOK
  <2>3. IsAtOrAfter(status', "STARTED")
    BY <2>1, SetStatusClimbs, ValueOf DEF doStartResolves, ProcessIInv, IInv
  <2>4. start'[app] # "running"
    BY <1>2, <2>1 DEF doStartResolves, Closed
  <2>5. StartOK'
    <3>1. Before' = Before /\ After' = After
      BY <2>1 DEF Before, After
    <3>2. listening' \subseteq server' /\ server' \subseteq Before \cup After
      BY <2>1 DEF didStart, ProcessIInv, StartOK
    <3> QED BY <1>1, <2>1, <2>3, <2>4, <3>1, <3>2 DEF StartOK
  <2>6. StopOK'
    BY <2>1, <2>2, StopKept DEF doStartResolves, ProcessIInv
  <2> QED BY <2>5, <2>6
<1>9. CASE objectFails
  <2>1. /\ lcStop(failure)
        /\ UNCHANGED <<plugins, phase, server, listening, stopping, orderly, exited>>
    BY <1>9 DEF objectFails, processVars
  <2>2. start' = start /\ \A s \in Signals : stop'[s] = stop[s]
    BY <2>1, StopOfOthers, AppCallers DEF ProcessIInv
  <2> QED BY <1>1, <2>1, <2>2, StartKept, StopKept DEF ProcessIInv
<1>10. CASE startFails
  <2>1. /\ doStartRejects(app) /\ phase' = "failed" /\ phase = "context"
        /\ UNCHANGED <<plugins, server, listening, stopping, orderly, exited>>
    BY <1>10 DEF startFails, doStartRejects, ProcessIInv, StartOK
  <2>2. orderly = {} /\ start'[app] # "running"
    BY <1>2, <2>1 DEF doStartRejects, ProcessIInv, StopOK
  <2>3. StartOK'
    <3>1. Before' = Before /\ After' = After
      BY <2>1 DEF Before, After
    <3> QED BY <1>1, <2>1, <2>2, <3>1 DEF ProcessIInv, StartOK
  <2>4. StopOK'
    BY <2>1, <2>2, StopKept DEF doStartRejects, ProcessIInv
  <2> QED BY <2>3, <2>4
<1>11. CASE didStartResolves
  <2>1. /\ phase = "didStart" /\ phase' \in {"failed", "started"} /\ didStart(After)
        /\ UNCHANGED <<status, start, stop, plugins, stopping, orderly, exited>>
    BY <1>11 DEF didStartResolves, contextVars, vars
  <2>2. orderly = {} /\ start[app] # "running"
    BY <2>1 DEF ProcessIInv, StopOK, StartOK
  <2>3. StartOK'
    <3>1. Before' = Before /\ After' = After
      BY <2>1 DEF Before, After
    <3>2. listening' \subseteq server' /\ server' \subseteq Before \cup After
      BY <2>1 DEF didStart, ProcessIInv, StartOK
    <3>3. IsAtOrAfter(status', "STARTED") /\ manager' # "new"
      BY <1>1, <2>1 DEF ProcessIInv, StartOK
    <3> QED BY <2>1, <2>2, <3>1, <3>2, <3>3 DEF StartOK
  <2>4. StopOK'
    BY <2>1, <2>2, StopKept DEF ProcessIInv
  <2> QED BY <2>3, <2>4
<1> QED BY <1>3, <1>4, <1>5, <1>6, <1>7, <1>8, <1>9, <1>10, <1>11 DEF startNext

LEMMA SignalSteps ==
  ASSUME ProcessIInv, NEW s \in Signals, signal(s) \/ stopNext(s)
  PROVE  StartOK' /\ StopOK'
<1>1. /\ IsAtOrAfter(status, "STARTED") => IsAtOrAfter(status', "STARTED")
      /\ manager # "new" => manager' # "new"
  <2>1. [AppNext]_appVars
    BY DEF AppNext
  <2> QED BY <2>1, AppIsLifecycle, ContextClimbs, ManagerStartsOnce, ValueOf DEF ProcessIInv
<1>2. s \in Stoppers /\ Signals \subseteq Stoppers /\ stop \in [Stoppers -> CallState]
      /\ DOMAIN stopping = Signals
  BY AppCallers DEF ProcessIInv, IInv, TypeOK, StopOK
<1>3. CASE signal(s)
  <2>1. /\ stopping[s] = "idle" /\ orderly' = orderly \cup {t \in {s} : phase = "started"}
        /\ UNCHANGED <<status, start, stop, plugins, phase, server, exited>>
        /\ \/ stopping' = [stopping EXCEPT ![s] = "rejected"] /\ listening' = listening
           \/ stopping' = [stopping EXCEPT ![s] = "willStop"] /\ listening' = listening \ (Before \cap server)
    BY <1>3 DEF signal, willStop, contextVars, vars
  <2>2. Before' = Before
    BY <2>1 DEF Before
  <2>3. listening \subseteq server /\ listening' \subseteq listening
    BY <2>1 DEF ProcessIInv, StartOK
  <2>4. StartOK'
    BY <1>1, <2>1, <2>3, StartKept DEF ProcessIInv
  <2>5. stop[s] = "idle"
    BY <2>1 DEF ProcessIInv, StopOK
  <2>6. \A t \in Signals : stopping'[t] = IF t = s THEN stopping'[s] ELSE stopping[t]
    BY <1>2, <2>1
  <2>7. stopping'[s] = "rejected" \/ (stopping'[s] = "willStop" /\ listening' \cap Before = {})
    BY <1>2, <2>1, <2>3
  <2>8. DOMAIN stopping' = Signals
    BY <1>2, <2>1
  <2>9. orderly' \subseteq Signals /\ (orderly' # {} => phase' = "started")
    BY <2>1 DEF ProcessIInv, StopOK
  <2>10. \A t \in orderly' : stopping'[t] = "willStop" => listening' \cap Before' = {}
    BY <2>1, <2>2, <2>3, <2>6, <2>7 DEF ProcessIInv, StopOK
  <2>11. \A t \in orderly' : stop'[t] \in {"running", "resolved"} => listening' = {}
    BY <2>1, <2>3, <2>5 DEF ProcessIInv, StopOK
  <2>12. StopOK'
    BY <2>1, <2>5, <2>6, <2>7, <2>8, <2>9, <2>10, <2>11 DEF ProcessIInv, StopOK
  <2> QED BY <2>4, <2>12
<1>4. CASE willStopResolves(s)
  <2>1. /\ stopping[s] = "willStop"
        /\ UNCHANGED <<plugins, phase, server, exited, orderly>>
        /\ \/ /\ stopping' = [stopping EXCEPT ![s] = "rejected"]
              /\ UNCHANGED <<start, stop, listening>>
           \/ /\ stopping' = [stopping EXCEPT ![s] =
                                IF Opened("STOPPING") = "running" THEN "context" ELSE "rejected"]
              /\ listening' = listening \ (After \cap server)
              /\ lcStop(s)
    BY <1>4 DEF willStopResolves, willStop, contextVars, vars
  <2>2. Before' = Before
    BY <2>1 DEF Before
  <2>3. listening \subseteq server /\ listening' \subseteq listening /\ server \subseteq Before \cup After
    BY <2>1 DEF ProcessIInv, StartOK
  <2>4. start' = start /\ \A t \in Signals : t # s => stop'[t] = stop[t]
    BY <1>2, <2>1, StopOfOthers DEF ProcessIInv
  <2>5. StartOK'
    BY <1>1, <2>1, <2>3, <2>4, StartKept DEF ProcessIInv
  <2>6. \A t \in Signals : stopping'[t] = IF t = s THEN stopping'[s] ELSE stopping[t]
    BY <1>2, <2>1
  <2>7. stopping'[s] \in {"rejected", "context"} /\ DOMAIN stopping' = Signals
    BY <1>2, <2>1
  <2>8. s \in orderly => stop'[s] = stop[s] \/ listening' = {}
    <3> SUFFICES ASSUME s \in orderly, stop'[s] # stop[s] PROVE listening' = {}
      OBVIOUS
    <3>1. listening' = listening \ (After \cap server)
      BY <2>1
    <3>2. listening \cap Before = {}
      BY <2>1 DEF ProcessIInv, StopOK
    <3> QED BY <2>3, <3>1, <3>2
  <2>9. stop[s] = stop'[s] \/ stop[s] = "idle"
    BY <2>1 DEF lcStop
  <2>10. \A t \in orderly : stop'[t] \in {"running", "resolved"} => listening' = {}
    BY <2>3, <2>4, <2>8 DEF ProcessIInv, StopOK
  <2>11. exited' => \E t \in Signals : stop'[t] = "resolved"
    BY <2>1, <2>4, <2>9 DEF ProcessIInv, StopOK
  <2>12. StopOK'
    BY <2>1, <2>2, <2>3, <2>4, <2>6, <2>7, <2>10, <2>11 DEF ProcessIInv, StopOK
  <2> QED BY <2>5, <2>12
<1>5. CASE willStopRejects(s) \/ didStopResolves(s) \/ didStopRejects(s)
  <2>1. /\ stopping[s] \in {"willStop", "didStop"}
        /\ UNCHANGED <<status, start, stop, plugins, phase, server, listening, orderly>>
        /\ \/ stopping' = [stopping EXCEPT ![s] = "rejected"] /\ exited' = exited
           \/ /\ stopping' = [stopping EXCEPT ![s] = "resolved"]
              /\ stopping[s] = "didStop" /\ exited' = TRUE
    BY <1>5 DEF willStopRejects, didStopResolves, didStopRejects, contextVars, vars
  <2>2. StartOK'
    BY <1>1, <2>1, StartKept DEF ProcessIInv
  <2>3. Before' = Before
    BY <2>1 DEF Before
  <2>4. \A t \in Signals : stopping'[t] = IF t = s THEN stopping'[s] ELSE stopping[t]
    BY <1>2, <2>1
  <2>5. stopping'[s] \in {"rejected", "resolved"} /\ DOMAIN stopping' = Signals
    BY <1>2, <2>1
  <2>6. exited' => \E t \in Signals : stop'[t] = "resolved"
    BY <2>1 DEF ProcessIInv, StopOK
  <2>7. StopOK'
    BY <2>1, <2>3, <2>4, <2>5, <2>6 DEF ProcessIInv, StopOK
  <2> QED BY <2>2, <2>7
<1> QED BY <1>3, <1>4, <1>5 DEF stopNext

LEMMA ContextStopSteps ==
  ASSUME ProcessIInv, shutdownFunction \/ contextStopNext
  PROVE  StartOK' /\ StopOK'
<1>1. /\ IsAtOrAfter(status, "STARTED") => IsAtOrAfter(status', "STARTED")
      /\ manager # "new" => manager' # "new"
  <2>1. [AppNext]_appVars
    BY DEF AppNext
  <2> QED BY <2>1, AppIsLifecycle, ContextClimbs, ManagerStartsOnce, ValueOf DEF ProcessIInv
<1>2. Signals \subseteq Stoppers /\ stop \in [Stoppers -> CallState] /\ DOMAIN stopping = Signals
  BY AppCallers DEF ProcessIInv, IInv, TypeOK, StopOK
<1>3. CASE shutdownFunction
  <2>1. /\ lcStop(giveUp)
        /\ UNCHANGED <<plugins, phase, server, listening, stopping, orderly, exited>>
    BY <1>3 DEF shutdownFunction, processVars
  <2>2. start' = start /\ \A s \in Signals : stop'[s] = stop[s]
    BY <2>1, StopOfOthers, AppCallers DEF ProcessIInv
  <2> QED BY <1>1, <2>1, <2>2, StartKept, StopKept DEF ProcessIInv
<1>4. CASE managerStop
  <2>1. UNCHANGED <<status, start, stop, plugins, phase, server, listening, stopping, orderly, exited>>
    BY <1>4 DEF managerStop, contextVars, vars, processVars
  <2> QED BY <1>1, <2>1, StartKept, StopKept DEF ProcessIInv
<1>5. ASSUME NEW c \in Stoppers, contextStops(c) \/ contextStopFails(c) PROVE StartOK' /\ StopOK'
  <2>1. /\ doStopResolves(c) \/ doStopRejects(c)
        /\ UNCHANGED <<plugins, phase, server, listening, orderly, exited>>
    BY <1>5 DEF contextStops, contextStopFails
  <2>2. start' = start /\ \A t \in Signals : t # c => stop'[t] = stop[t]
    BY <1>2, <2>1, StopOfOthers DEF ProcessIInv
  <2>3. StartOK'
    BY <1>1, <2>1, <2>2, StartKept DEF ProcessIInv
  <2>4. Before' = Before
    BY <2>1 DEF Before
  <2>5. stop[c] = "running"
    BY <2>1 DEF doStopResolves, doStopRejects
  <2>6. \A t \in Signals : t # c => stopping'[t] = stopping[t]
    BY <1>2, <1>5 DEF contextStops, contextStopFails
  <2>7. DOMAIN stopping' = Signals
    BY <1>2, <1>5 DEF contextStops, contextStopFails
  <2>8. c \in Signals => stopping'[c] = "rejected" \/ (stopping'[c] = "didStop" /\ stop'[c] = "resolved")
    <3>1. CASE contextStops(c)
      <4>1. Closed("STOPPED") = "resolved"
        BY ValueOf DEF Closed, IsBefore, ProcessIInv, IInv, TypeOK, LifecycleState, Value
      <4> QED BY <1>2, <3>1, <4>1 DEF contextStops, doStopResolves
    <3>2. CASE contextStopFails(c)
      BY <3>2 DEF contextStopFails
    <3> QED BY <1>5, <3>1, <3>2
  <2>9. \A t \in orderly : stop'[t] \in {"running", "resolved"} => listening' = {}
    BY <2>1, <2>2, <2>5 DEF ProcessIInv, StopOK
  <2>10. exited' => \E t \in Signals : stop'[t] = "resolved"
    BY <2>1, <2>2, <2>5 DEF ProcessIInv, StopOK
  <2>11. StopOK'
    BY <2>1, <2>2, <2>4, <2>6, <2>7, <2>8, <2>9, <2>10 DEF ProcessIInv, StopOK
  <2> QED BY <2>3, <2>11
<1> QED BY <1>3, <1>4, <1>5 DEF contextStopNext

LEMMA ProcessNext == ProcessIInv /\ [AppNext]_appVars => ProcessIInv'
<1> SUFFICES ASSUME ProcessIInv, [AppNext]_appVars PROVE ProcessIInv'
  OBVIOUS
<1>1. IInv'
  BY AppIsLifecycle, NextInvariant DEF ProcessIInv
<1>2. CASE health \/ time \/ UNCHANGED appVars
  <2>1. UNCHANGED <<status, start, stop, plugins, phase, server, listening, stopping, orderly, exited>>
    BY <1>2 DEF health, time, appVars, contextVars, vars, processVars
  <2>2. manager # "new" => manager' # "new"
    BY ManagerStartsOnce
  <2>3. StartOK' /\ StopOK'
    BY <2>1, <2>2, StartKept, StopKept DEF ProcessIInv
  <2> QED BY <1>1, <2>3 DEF ProcessIInv
<1> QED BY <1>1, <1>2, StartSteps, SignalSteps, ContextStopSteps DEF AppNext, ProcessIInv

LEMMA ProcessInvariant == AppSpec => []ProcessIInv
<1>1. AppInit => ProcessIInv
  <2> SUFFICES ASSUME AppInit PROVE StartOK /\ StopOK
    BY InitInvariant DEF AppInit, ProcessIInv
  <2>1. start[app] = "idle" /\ \A s \in Signals : stop[s] = "idle"
    BY AppCallers DEF AppInit, Init
  <2> QED BY <2>1 DEF AppInit, StartOK, StopOK
<1> QED BY <1>1, ProcessNext, PTL DEF AppSpec

(* A started application that is told to stop closes its servers before its  *)
(* context begins to stop, and a process exits only behind a context that is *)
(* STOPPED, whatever other signals, objects and clients stop it, and however *)
(* its plugins are ordered (BaseApp.stop()).                                 *)
THEOREM ShutdownIsOrderly == AppSpec => []OrderlyShutdown
<1>1. ProcessIInv => OrderlyShutdown
  BY AppCallers DEF ProcessIInv, StopOK, IInv, ResolvedMeansReached, OrderlyShutdown
<1> QED BY <1>1, ProcessInvariant, PTL

-----------------------------------------------------------------------------
(* What /health tells of the context                                         *)

(* The status of the group is that of its worst check that counts.           *)
LEMMA AWarningCounts ==
  ASSUME "WARNING" \in Counted \/ "CRITICAL" \in Counted
  PROVE  ~Healthy
<1> DEFINE Worst(i) == /\ i = 1 \/ Status[i] \in Counted
                       /\ \A j \in (i + 1) .. 4 : Status[j] \notin Counted
<1>1. Status[3] = "WARNING" /\ Status[4] = "CRITICAL"
  BY DEF Status
<1>2. \E i \in 1 .. 4 : Worst(i)
  <2>1. CASE "CRITICAL" \in Counted
    <3>1. Worst(4)
      BY <1>1, <2>1
    <3> QED BY <3>1
  <2>2. CASE "CRITICAL" \notin Counted
    <3>1. \A j \in (3 + 1) .. 4 : j = 4
      OBVIOUS
    <3>2. Worst(3)
      BY <1>1, <2>2, <3>1
    <3> QED BY <3>2
  <2> QED BY <2>1, <2>2
<1>3. PICK i \in 1 .. 4 : i = (CHOOSE k \in 1 .. 4 : Worst(k)) /\ Worst(i)
  BY <1>2
<1>4. i \in {3, 4}
  <2>1. ASSUME i \in {1, 2} PROVE FALSE
    <3>1. 3 \in (i + 1) .. 4 /\ 4 \in (i + 1) .. 4
      BY <2>1
    <3> QED BY <1>1, <1>3, <3>1
  <2> QED BY <2>1
<1>5. getStatus = Status[i]
  BY <1>3 DEF getStatus
<1> QED BY <1>1, <1>4, <1>5 DEF Healthy

LEMMA ContextCheckStays ==
  ASSUME ContextCheckIsKept, ContextCheckRegistered, [AppNext]_appVars
  PROVE  ContextCheckRegistered'
<1> DEFINE name == Autowired[contextCheck]
<1>1. HealthStep
  BY AppHealthSteps
<1>2. ASSUME NEW as \in {"started", "late"}, managerStarts(as) PROVE ContextCheckRegistered'
  <2>1. healthChecks' = [p \in Range(Autowired) |-> CHOOSE c \in DOMAIN Autowired : Autowired[c] = p]
    BY <1>2 DEF managerStarts
  <2>2. name \in Range(Autowired)
    BY DEF ContextCheckIsKept, Range
  <2>3. (CHOOSE c \in DOMAIN Autowired : Autowired[c] = name) = contextCheck
    BY DEF ContextCheckIsKept
  <2> QED BY <2>1, <2>2, <2>3 DEF ContextCheckRegistered
<1>3. ASSUME NEW c \in Added, NEW p \in AddedPaths, addCheck(c, p) PROVE ContextCheckRegistered'
  <2>1. p # name /\ ~IsPrefix(p, name)
    BY DEF ContextCheckIsKept, IsStrictPrefix
  <2>2. /\ manager # "new"
        /\ healthChecks' = [q \in {p} \cup {q \in DOMAIN healthChecks : ~IsPrefix(p, q)} |->
                              IF q = p THEN c ELSE healthChecks[q]]
    BY <1>3 DEF addCheck
  <2>3. name \in DOMAIN healthChecks /\ healthChecks[name] = contextCheck
    BY <2>2 DEF ContextCheckRegistered
  <2> QED BY <2>1, <2>2, <2>3 DEF ContextCheckRegistered
<1>4. ASSUME UNCHANGED healthChecks, manager' # "new" => manager # "new"
      PROVE  ContextCheckRegistered'
  BY <1>4 DEF ContextCheckRegistered
<1> QED BY <1>1, <1>2, <1>3, <1>4 DEF HealthStep, healthVars, groupVars, managerStops, fires,
                                      doCheckSettles, tick

LEMMA ReportNext ==
  ASSUME HealthIInv, ReportOK, IInv, [AppNext]_appVars
  PROVE  ReportOK'
<1> DEFINE last == lastResult[contextCheck]
           old == age[contextCheck]
<1>1. contextCheck \in Checks
  BY HealthAssumption
<1>2. RecentStop \in Nat /\ AgeBound(contextCheck) = RecentStop + 1
  <2>1. staleNumFails \in Nat /\ sleepMillis[contextCheck] \in Nat
    BY <1>1, HealthAssumption
  <2> QED BY <2>1 DEF RecentStop, AgeBound, Threshold
<1>3. ContextStopping => ContextStopping'
  BY AppIsLifecycle, ContextClimbs, ValueOf DEF ContextStopping
<1>4. lastResult \in [Checks -> {"OK", "NOT_READY", "WARNING", "CRITICAL"}] /\ age \in [Checks -> Nat]
      /\ old \in Nat /\ HealthIInv'
  BY <1>1, HealthNext DEF HealthIInv, HealthTypeOK
<1>5. ASSUME sinceStop' = sinceStop, last' = last, old' = old PROVE ReportOK'
  BY <1>2, <1>3, <1>4, <1>5 DEF ReportOK
<1>6. CASE time
  <2>1. /\ sinceStop' = IF ContextStopping /\ sinceStop <= RecentStop THEN sinceStop + 1 ELSE sinceStop
        /\ last' = last /\ status' = status
        /\ old' = IF old < AgeBound(contextCheck) THEN old + 1 ELSE old
    BY <1>1, <1>6 DEF time, tick, runVars, contextVars, vars
  <2>2. ContextStopping' = ContextStopping
    BY <2>1 DEF ContextStopping
  <2> QED BY <1>2, <1>4, <2>1, <2>2 DEF ReportOK
<1>7. CASE health
  <2>1. sinceStop' = sinceStop /\ status' = status
    BY <1>7 DEF health, contextVars, vars
  <2>2. CASE fires(contextCheck, ContextResult(ContextStarted, ContextStopping))
    <3>1. last' = ContextResult(ContextStarted, ContextStopping)
      BY <1>1, <1>4, <2>2 DEF fires
    <3>2. ContextStopping' = ContextStopping
      BY <2>1 DEF ContextStopping
    <3>3. ContextStopping => last' = "WARNING"
      BY <3>1 DEF ContextResult
    <3> QED BY <2>1, <3>2, <3>3 DEF ReportOK, RecentStop
  <2>3. ASSUME NEW c \in Checks, c # contextCheck, NEW result, fires(c, result)
        PROVE  last' = last /\ old' = old
    BY <2>3 DEF fires
  <2>4. ASSUME NEW c \in Checks, doCheckSettles(c) PROVE last' = last /\ old' = old
    <3>1. c # contextCheck
      BY <2>4, CheckSettles
    <3> QED BY <1>1, <1>4, <2>4, <3>1 DEF doCheckSettles
  <2>5. ASSUME NEW c \in Added, NEW p \in AddedPaths, addCheck(c, p) PROVE last' = last /\ old' = old
    BY <2>5 DEF addCheck, starts
  <2> QED BY <1>5, <1>7, <2>1, <2>2, <2>3, <2>4, <2>5 DEF health
<1>8. ASSUME ~time, ~health PROVE ReportOK'
  <2>1. sinceStop' = sinceStop
    BY <1>8 DEF AppNext, appVars, startNext, startApp, register, willStartResolves, willStartRejects,
                managerStart, contextStarts, objectFails, startFails, didStartResolves, didStartRejects,
                signal, stopNext, willStopResolves, willStopRejects, didStopResolves, didStopRejects,
                shutdownFunction, contextStopNext, managerStop, contextStops, contextStopFails
  <2>2. lastResult' = lastResult /\ age' = age
    BY <1>8 DEF AppNext, appVars, startNext, startApp, register, willStartResolves, willStartRejects,
                managerStart, contextStarts, objectFails, startFails, didStartResolves, didStartRejects,
                signal, stopNext, willStopResolves, willStopRejects, didStopResolves, didStopRejects,
                shutdownFunction, contextStopNext, managerStop, contextStops, contextStopFails,
                managerStarts, starts, managerStops, healthVars, runVars
  <2> QED BY <1>5, <2>1, <2>2
<1> QED BY <1>6, <1>7, <1>8

(* If the context's check keeps its name, the admin port does not answer     *)
(* "healthy" for more than staleNumFails periods after the context began to  *)
(* stop: the check says WARNING from its next run on, and is stale if it     *)
(* does not run (ContextReadyHealthCheck, HealthCheck.getLastResult() and    *)
(* HealthCheckGroup.getResult()).                                            *)
THEOREM HealthTells ==
  ASSUME ContextCheckIsKept
  PROVE  AppSpec => []HealthTellsOfStop
<1>1. AppInit => ReportOK /\ ContextCheckRegistered
  <2> SUFFICES ASSUME AppInit PROVE ReportOK /\ ContextCheckRegistered
    OBVIOUS
  <2>1. staleNumFails \in Nat /\ sleepMillis[contextCheck] \in Nat
    BY HealthAssumption
  <2>2. RecentStop \in Nat
    BY <2>1 DEF RecentStop, Threshold
  <2>3. ~ContextStopping
    BY ValueOf DEF AppInit, Init, ContextStopping, IsAtOrAfter, IsBefore
  <2> QED BY <2>2, <2>3 DEF AppInit, HealthInit, ReportOK, ContextCheckRegistered
<1>2. HealthIInv /\ ProcessIInv /\ ReportOK /\ ContextCheckRegistered /\ [AppNext]_appVars
        => ReportOK' /\ ContextCheckRegistered'
  BY ReportNext, ContextCheckStays DEF ProcessIInv
<1>3. HealthIInv /\ ProcessIInv /\ ReportOK /\ ContextCheckRegistered => HealthTellsOfStop
  <2>1. RecentStop \in Nat
    <3>1. staleNumFails \in Nat /\ sleepMillis[contextCheck] \in Nat
      BY HealthAssumption
    <3> QED BY <3>1 DEF RecentStop, Threshold
  <2>2. ReportOK /\ ~(sinceStop <= RecentStop) => sinceStop > RecentStop
    BY <2>1 DEF ReportOK
  <2> SUFFICES ASSUME HealthIInv, ProcessIInv, ReportOK, ContextCheckRegistered,
                      "admin" \in listening, status # "STARTED", sinceStop > RecentStop
               PROVE  ~Healthy
    BY <2>2 DEF HealthTellsOfStop
  <2>3. IsAtOrAfter(status, "STARTED") /\ manager # "new" /\ status \in LifecycleState
    BY DEF ProcessIInv, StartOK, IInv, TypeOK
  <2>4. ContextStopping
    BY <2>3 DEF ContextStopping, IsAtOrAfter, IsBefore, Value, LifecycleState
  <2>5. getLastResult(contextCheck) \in {"WARNING", "CRITICAL"}
    <3>1. lastResult[contextCheck] = "WARNING" \/ age[contextCheck] >= sinceStop
      BY <2>4 DEF ReportOK
    <3>2. age[contextCheck] \in Nat /\ sinceStop \in Int
      BY <2>1, HealthAssumption DEF ReportOK, HealthIInv, HealthTypeOK
    <3> QED BY <2>1, <3>1, <3>2 DEF getLastResult, Stale, RecentStop
  <2>6. contextCheck \in Registered /\ contextCheck \notin Dependencies
    BY <2>3, HealthAssumption DEF ContextCheckRegistered, Registered
  <2>7. getLastResult(contextCheck) \in Counted
    BY <2>6 DEF Counted
  <2> QED BY <2>5, <2>7, AWarningCounts
<1> QED BY <1>1, <1>2, <1>3, HealthInvariant, ProcessInvariant, PTL DEF AppSpec

=============================================================================
