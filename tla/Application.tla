---------------------------- MODULE Application ----------------------------
(* start(), stop() and the signal handlers of an application                 *)
(* (src/src/app/BaseApp.ts), its plugins, and the health of its context.     *)
(*                                                                           *)
(* The context is a Lifecycle object; what it is made of is left to          *)
(* ContextWiring, except the HealthCheckManager, which is an object of it.   *)
(* Plugins run one after the other, and the methods of most of them in one   *)
(* go.  One plugin is asynchronous (a swagger file is read, New Relic is     *)
(* shut down, or a plugin of the application waits): the others come before  *)
(* or after it.                                                              *)
EXTENDS Lifecycle, HealthCheck

CONSTANTS
  Signals,       \* the signals: each calls stop()
  app,           \* start() as a caller of lcStart()
  failure,       \* the callers of lcStop() beside the signals: a failed start
  giveUp,        \*   and the shutdownFunction of a RabbitMQ client
  Setups,        \* bound: the options and the plugins of the application, and
                 \* what may come: signals, time, or checks that are added
  Late           \* bound: the plugins that may be registered during the start

ASSUME ApplicationAssumption ==
  /\ Starters = {app} /\ Stoppers = Signals \cup {failure, giveUp}
  /\ failure \notin Signals /\ giveUp \notin Signals /\ failure # giveUp

VARIABLES
  plugins,    \* this.plugins
  comes,      \* what comes in this setup
  prepared,   \* the plugins whose willStart has run
  phase,      \* how far start() is
  stopping,   \* stopping[s]: how far the stop() that s called is
  server,     \* the servers that were made: SERVER_KEY in the pluginContext
  listening,  \* those that accept connections
  metrics,    \* whether the timers of the MetricsPlugin run
  exited,     \* process.exit()
  orderly,    \* for the invariants: the signals that found the start over,
  sinceStop   \* and the ticks since the context began to stop

contextVars == vars
processVars == <<plugins, comes, prepared, phase, stopping, server, listening, metrics, exited, orderly>>
appVars == <<contextVars, healthVars, processVars, sinceStop>>

Servers == {"admin", "web"}
RecentStop == Threshold(contextCheck)
ContextStopping == IsAtOrAfter(status, "STOPPING")
ContextStarted == IsAtOrAfter(status, "STARTED")

(* The plugins of an InceptumApp that matter here, by its options; those of   *)
(* the application follow.                                                   *)
InceptumPlugins(options) ==
  SelectSeq(<<"admin", "metrics">>, LAMBDA p : p \in options)

AppInit ==
  /\ Init /\ HealthInit
  /\ \E u \in Setups : plugins = InceptumPlugins(u.options) \o u.use /\ comes = u.comes
  /\ prepared = {}
  /\ phase = "idle"
  /\ stopping = [s \in Signals |-> "idle"]
  /\ server = {} /\ listening = {} /\ metrics = FALSE /\ exited = FALSE
  /\ orderly = {} /\ sinceStop = 0

-----------------------------------------------------------------------------
(* register() after the constructor: refused once the context has been told  *)
(* to start.  During willStart it comes too late and is not refused.         *)
register(p) ==
  /\ status = "NOT_STARTED" /\ phase = "willStart"
  /\ p \in Late \ Range(plugins)
  /\ plugins' = Append(plugins, p)
  /\ UNCHANGED <<contextVars, healthVars, comes, prepared, phase, stopping, server, listening,
                 metrics, exited, orderly, sinceStop>>

Before == {plugins[i] : i \in {j \in DOMAIN plugins : \E k \in DOMAIN plugins :
                                                      j < k /\ plugins[k] = "async"}}
After == Range(plugins) \ (Before \cup {"async"})

(* didStart, willStop and didStop of the plugins P.  A server whose willStart *)
(* has not run cannot start; and the AdminPortPlugin, which comes first of P, *)
(* does not look whether it has a server before it closes it.                *)
DidStartThrows(P) == ~(P \cap Servers \subseteq prepared)

didStart(P) ==
  /\ server' = server \cup (P \cap Servers \cap prepared)
  /\ listening' = listening \cup (P \cap Servers \cap prepared)
  /\ metrics' = (metrics \/ "metrics" \in P)

WillStopThrows(P) == "admin" \in P /\ "admin" \notin server

willStop(P) == listening' = listening \ (P \cap server)

didStop(P) == metrics' = (metrics /\ "metrics" \notin P)
-----------------------------------------------------------------------------
(* start(), up to the promise of the asynchronous plugin.                    *)
startApp ==
  /\ phase = "idle"
  /\ phase' = "willStart"
  /\ prepared' = Range(plugins)
  /\ UNCHANGED <<contextVars, healthVars, plugins, comes, stopping, server, listening,
                 metrics, exited, orderly, sinceStop>>

(* The handlers are installed, and the context starts.                       *)
willStartResolves ==
  /\ phase = "willStart"
  /\ phase' = "context"
  /\ lcStart(app)
  /\ UNCHANGED <<healthVars, plugins, comes, prepared, stopping, server, listening, metrics,
                 exited, orderly, sinceStop>>

willStartRejects ==
  /\ phase = "willStart"
  /\ phase' = "failed"
  /\ UNCHANGED <<contextVars, healthVars, plugins, comes, prepared, stopping, server,
                 listening, metrics, exited, orderly, sinceStop>>

(* The HealthCheckManager starts, also in a context that is being stopped.   *)
(* doStop() stops it only if it has started by then.                         *)
managerStart ==
  /\ ~exited /\ start[app] # "idle"
  /\ managerStarts(IF ContextStopping THEN "late" ELSE "started")
  /\ UNCHANGED <<contextVars, processVars, sinceStop>>

managerStop ==
  /\ ~exited /\ \E c \in Stoppers : stop[c] = "running"
  /\ managerStops
  /\ UNCHANGED <<contextVars, processVars, sinceStop>>

(* lcStart() ends: didStart begins, unless a stop has overtaken the start.   *)
contextStarts ==
  /\ ~exited /\ phase = "context"
  /\ stop[failure] = "idle" /\ manager # "new"
  /\ doStartResolves(app)
  /\ IF Closed("STARTED") = "resolved"
     THEN /\ phase' = IF DidStartThrows(Before) THEN "failed" ELSE "didStart"
          /\ didStart(Before)
     ELSE phase' = "failed" /\ UNCHANGED <<server, listening, metrics>>
  /\ UNCHANGED <<healthVars, plugins, comes, prepared, stopping, exited, orderly, sinceStop>>

(* An object of the context fails: the context stops itself before lcStart() *)
(* rejects.                                                                  *)
objectFails ==
  /\ ~exited /\ start[app] = "running"
  /\ lcStop(failure)
  /\ UNCHANGED <<healthVars, processVars, sinceStop>>

startFails ==
  /\ ~exited /\ stop[failure] \in Settled
  /\ doStartRejects(app)
  /\ phase' = "failed"
  /\ UNCHANGED <<healthVars, plugins, comes, prepared, stopping, server, listening, metrics,
                 exited, orderly, sinceStop>>

didStartResolves ==
  /\ ~exited /\ phase = "didStart"
  /\ phase' = IF DidStartThrows(After) THEN "failed" ELSE "started"
  /\ didStart(After)
  /\ UNCHANGED <<contextVars, healthVars, plugins, comes, prepared, stopping, exited, orderly,
                 sinceStop>>

didStartRejects ==
  /\ ~exited /\ phase = "didStart"
  /\ phase' = "failed"
  /\ UNCHANGED <<contextVars, healthVars, plugins, comes, prepared, stopping, server,
                 listening, metrics, exited, orderly, sinceStop>>
-----------------------------------------------------------------------------
(* A signal calls stop(), up to the promise of the asynchronous willStop.    *)
signal(s) ==
  /\ ~exited /\ comes = "signals" /\ stopping[s] = "idle"
  /\ start[app] # "idle"
  /\ orderly' = orderly \cup {t \in {s} : phase = "started"}
  /\ IF WillStopThrows(Before)
     THEN stopping' = [stopping EXCEPT ![s] = "rejected"] /\ UNCHANGED listening
     ELSE stopping' = [stopping EXCEPT ![s] = "willStop"] /\ willStop(Before)
  /\ UNCHANGED <<contextVars, healthVars, plugins, comes, prepared, phase, server, metrics,
                 exited, sinceStop>>

(* Mutant: the context is stopped while a plugin still prepares for it.      *)
willStopUnawaited(s) ==
  /\ ~exited /\ stopping[s] = "willStop"
  /\ lcStop(s)
  /\ stopping' = [stopping EXCEPT ![s] =
                    IF Opened("STOPPING") = "running" THEN "context" ELSE "rejected"]
  /\ UNCHANGED <<healthVars, plugins, comes, prepared, phase, server, listening, metrics,
                 exited, orderly, sinceStop>>

(* The rest of willStop, and the context begins to stop: at most one caller  *)
(* of lcStop() is let through.                                               *)
willStopResolves(s) ==
  /\ ~exited /\ stopping[s] = "willStop"
  /\ IF WillStopThrows(After)
     THEN /\ stopping' = [stopping EXCEPT ![s] = "rejected"]
          /\ UNCHANGED <<contextVars, listening>>
     ELSE /\ willStop(After)
          /\ lcStop(s)
          /\ stopping' = [stopping EXCEPT ![s] =
                            IF Opened("STOPPING") = "running" THEN "context" ELSE "rejected"]
  /\ UNCHANGED <<healthVars, plugins, comes, prepared, phase, server, metrics, exited,
                 orderly, sinceStop>>

willStopRejects(s) ==
  /\ ~exited /\ stopping[s] = "willStop"
  /\ stopping' = [stopping EXCEPT ![s] = "rejected"]
  /\ UNCHANGED <<contextVars, healthVars, plugins, comes, prepared, phase, server, listening,
                 metrics, exited, orderly, sinceStop>>

(* A client has used up its attempts and calls the shutdownFunction, as it   *)
(* does unless exitOnIrrecoverableReconnect is false.                        *)
shutdownFunction ==
  /\ ~exited /\ start[app] # "idle"
  /\ lcStop(giveUp)
  /\ UNCHANGED <<healthVars, processVars, sinceStop>>

(* doStop() resolves: the manager has stopped by then.                       *)
contextStops(c) ==
  /\ ~exited /\ manager # "started"
  /\ doStopResolves(c)
  /\ IF c \in Signals
     THEN stopping' = [stopping EXCEPT ![c] = "didStop"] /\ didStop(Before)
     ELSE UNCHANGED <<stopping, metrics>>
  /\ UNCHANGED <<healthVars, plugins, comes, prepared, phase, server, listening, exited,
                 orderly, sinceStop>>

contextStopFails(c) ==
  /\ ~exited
  /\ doStopRejects(c)
  /\ stopping' = [s \in Signals |-> IF s = c THEN "rejected" ELSE stopping[s]]
  /\ UNCHANGED <<healthVars, plugins, comes, prepared, phase, server, listening, metrics,
                 exited, orderly, sinceStop>>

(* Mutant: stop() resolves and nobody exits.                                 *)
didStopResolvesOnly(s) ==
  /\ ~exited /\ stopping[s] = "didStop"
  /\ didStop(After)
  /\ stopping' = [stopping EXCEPT ![s] = "resolved"]
  /\ UNCHANGED <<contextVars, healthVars, plugins, comes, prepared, phase, server, listening,
                 exited, orderly, sinceStop>>

(* The end of stop(), and of the process.                                    *)
didStopResolves(s) ==
  /\ ~exited /\ stopping[s] = "didStop"
  /\ didStop(After)
  /\ stopping' = [stopping EXCEPT ![s] = "resolved"]
  /\ exited' = TRUE
  /\ UNCHANGED <<contextVars, healthVars, plugins, comes, prepared, phase, server, listening,
                 orderly, sinceStop>>

didStopRejects(s) ==
  /\ ~exited /\ stopping[s] = "didStop"
  /\ stopping' = [stopping EXCEPT ![s] = "rejected"]
  /\ UNCHANGED <<contextVars, healthVars, plugins, comes, prepared, phase, server, listening,
                 metrics, exited, orderly, sinceStop>>
-----------------------------------------------------------------------------
health ==
  /\ ~exited
  /\ \/ \E c \in Checks : fires(c, ContextResult(ContextStarted, ContextStopping))
     \/ \E c \in Checks : doCheckSettles(c)
     \/ \E c \in Added, p \in AddedPaths : comes = "checks" /\ addCheck(c, p)
  /\ UNCHANGED <<contextVars, processVars, sinceStop>>

time ==
  /\ ~exited /\ comes = "time"
  /\ tick
  /\ sinceStop' = IF ContextStopping /\ sinceStop <= RecentStop THEN sinceStop + 1 ELSE sinceStop
  /\ UNCHANGED <<contextVars, processVars>>

startNext ==
  \/ startApp \/ (\E p \in Late : register(p)) \/ willStartResolves \/ willStartRejects
  \/ managerStart \/ contextStarts \/ objectFails \/ startFails
  \/ didStartResolves \/ didStartRejects

stopNext(s) ==
  \/ willStopResolves(s) \/ willStopRejects(s)
  \/ didStopResolves(s) \/ didStopRejects(s)

contextStopNext == managerStop \/ \E c \in Stoppers : contextStops(c) \/ contextStopFails(c)

AppNext ==
  \/ startNext
  \/ \E s \in Signals : signal(s) \/ stopNext(s)
  \/ shutdownFunction \/ contextStopNext
  \/ health \/ time

(* What plugins and objects are asked for settles.                           *)
AppFairness ==
  /\ \A s \in Signals : WF_appVars(stopNext(s))
  /\ WF_appVars(contextStopNext)

AppSpec == AppInit /\ [][AppNext]_appVars /\ AppFairness
-----------------------------------------------------------------------------
(* A started application that is told to stop closes its servers before its  *)
(* context begins to stop, and exits only when the context has STOPPED.  (A  *)
(* signal during the start can do neither: didStart opens a server behind    *)
(* its back, and an admin port without a server makes stop() throw.)         *)
OrderlyShutdown ==
  /\ \A s \in orderly : stop[s] \in {"running", "resolved"} => listening = {}
  /\ exited => status = "STOPPED" /\ \E s \in Signals : stop[s] = "resolved"

(* /health tells of the context: as long as the admin port answers that the  *)
(* application is healthy, the context is STARTED, or was so at most         *)
(* staleNumFails periods ago, whoever has stopped it.                        *)
HealthTellsOfStop ==
  "admin" \in listening /\ Healthy => status = "STARTED" \/ sinceStop <= RecentStop

(* A signal to a started application ends the process, if nothing fails that *)
(* stop() waits for and the context was not stopped from within.             *)
SignalExits ==
  \A s \in Signals :
    s \in orderly ~>
      \/ exited
      \/ \E t \in Signals : stopping[t] = "rejected" /\ stop[t] \in {"idle", "failed", "resolved"}
      \/ stop[giveUp] # "idle" \/ stop[failure] # "idle"
=============================================================================
