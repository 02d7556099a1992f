----------------------------- MODULE Lifecycle -----------------------------
(* One Lifecycle object (src/src/ioc/Lifecycle.ts) used by several callers   *)
(* at once: a context, a signal handler and a test may all hold the same     *)
(* object and call lcStart() and lcStop() in any order, also while an        *)
(* earlier call is waiting for the doStart() or doStop() of the subclass.    *)
(* A call is three steps: the synchronous setStatus, the promise returned by *)
(* doStart/doStop (the subclass may resolve it, reject it, or take as long   *)
(* as it likes), and the second setStatus.                                   *)
EXTENDS LifecycleStates, Sequences, FiniteSets

CONSTANTS Starters,    \* the callers of lcStart
          Stoppers     \* the callers of lcStop

VARIABLES
  status,     \* this.status
  start,      \* start[c]: the promise lcStart returned to c
  stop,       \* stop[c]: the promise lcStop returned to c
  emitted     \* the lifecycle events emitted so far, in order

vars == <<status, start, stop, emitted>>

(* "running": past the first setStatus, waiting for doStart or doStop.  A    *)
(* rejected call was "refused" by its first setStatus, or "failed" later.    *)
CallState == {"idle", "running", "resolved", "refused", "failed"}
Settled   == {"resolved", "refused", "failed"}

TypeOK ==
  /\ status \in LifecycleState
  /\ start \in [Starters -> CallState]
  /\ stop \in [Stoppers -> CallState]
  /\ emitted \in Seq(LifecycleState)

Init ==
  /\ status = "NOT_STARTED"
  /\ start = [c \in Starters |-> "idle"]
  /\ stop = [c \in Stoppers |-> "idle"]
  /\ emitted = <<>>

-----------------------------------------------------------------------------
(* setStatus: one step up the chain and one event, or no change at all.      *)
(* Removing the listeners of the earlier states is left out: no emit can     *)
(* reach them any more.                                                      *)
setStatus(s) ==
  IF Accepts(status, s)
  THEN status' = s /\ emitted' = Append(emitted, s)
  ELSE UNCHANGED <<status, emitted>>

(* The first setStatus of a call: false and an exception both reject.        *)
Opened(s) == IF Accepts(status, s) THEN "running" ELSE "refused"

(* Mutant: the exception of the second setStatus is swallowed.               *)
ClosedQuietly(s) == "resolved"

(* The second one: its result is ignored, only an exception rejects.         *)
Closed(s) == IF IsBefore(s, status) THEN "failed" ELSE "resolved"

lcStart(c) ==
  /\ start[c] = "idle"
  /\ setStatus("STARTING")
  /\ start' = [start EXCEPT ![c] = Opened("STARTING")]
  /\ UNCHANGED stop

doStartResolves(c) ==
  /\ start[c] = "running"
  /\ setStatus("STARTED")
  /\ start' = [start EXCEPT ![c] = Closed("STARTED")]
  /\ UNCHANGED stop

doStartRejects(c) ==
  /\ start[c] = "running"
  /\ start' = [start EXCEPT ![c] = "failed"]
  /\ UNCHANGED <<status, stop, emitted>>

lcStop(c) ==
  /\ stop[c] = "idle"
  /\ setStatus("STOPPING")
  /\ stop' = [stop EXCEPT ![c] = Opened("STOPPING")]
  /\ UNCHANGED start

doStopResolves(c) ==
  /\ stop[c] = "running"
  /\ setStatus("STOPPED")
  /\ stop' = [stop EXCEPT ![c] = Closed("STOPPED")]
  /\ UNCHANGED start

doStopRejects(c) ==
  /\ stop[c] = "running"
  /\ stop' = [stop EXCEPT ![c] = "failed"]
  /\ UNCHANGED <<status, start, emitted>>

Next ==
  \/ \E c \in Starters : lcStart(c) \/ doStartResolves(c) \/ doStartRejects(c)
  \/ \E c \in Stoppers : lcStop(c) \/ doStopResolves(c) \/ doStopRejects(c)

Spec == Init /\ [][Next]_vars
-----------------------------------------------------------------------------
(* The doStart and the doStop of the subclass each run at most once in the   *)
(* life of the object, whatever the callers do, even after a first run that  *)
(* failed: at most one call ever gets past its first setStatus.              *)
Launched(calls) ==
  {c \in DOMAIN calls : calls[c] \in {"running", "resolved", "failed"}}

AtMostOnce ==
  /\ \A c, d \in Launched(start) : c = d
  /\ \A c, d \in Launched(stop) : c = d

(* lcStart resolves only for an object that has really been STARTED, and     *)
(* lcStop only for one that is STOPPED: the doc of lcStart (Lifecycle.ts:86) *)
(* even when a stop overtakes a start that is still waiting for doStart.     *)
ResolvedMeansReached ==
  /\ \A c \in Starters :
       start[c] = "resolved" => \E i \in DOMAIN emitted : emitted[i] = "STARTED"
  /\ \A c \in Stoppers : stop[c] = "resolved" => status = "STOPPED"

(* Listeners see the states in the order of the chain and none of them       *)
(* twice; the last event is the current status.                              *)
EventsClimb ==
  /\ \A i, j \in DOMAIN emitted : i < j => IsBefore(emitted[i], emitted[j])
  /\ status = IF emitted = <<>> THEN "NOT_STARTED" ELSE emitted[Len(emitted)]

(* A start that a stop has overtaken never finishes as a success: once the   *)
(* object is STOPPING, no lcStart that is still waiting can resolve.         *)
OvertakenStartFails ==
  [][\A c \in Starters :
       start[c] = "running" /\ IsAtOrAfter(status, "STOPPING")
         => start'[c] # "resolved"]_vars

(* The abstract promise: a Lifecycle is a status chain.                      *)
Chain == INSTANCE StatusChain
ImplementsChain == Chain!Spec
=============================================================================
