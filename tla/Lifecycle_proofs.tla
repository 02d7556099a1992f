-------------------------- MODULE Lifecycle_proofs --------------------------
(* The safety of a Lifecycle object for any number of callers.               *)
(*                                                                           *)
(* The invariants are almost inductive together.  What has to be added is    *)
(* that a call past its first setStatus leaves a trace in the status: this   *)
(* is what refuses every later call of the same kind.                        *)
EXTENDS Lifecycle, TLAPS

LaunchedMeansStatus ==
  /\ \A c \in Launched(start) : IsAtOrAfter(status, "STARTING")
  /\ \A c \in Launched(stop) : IsAtOrAfter(status, "STOPPING")

IInv ==
  /\ TypeOK
  /\ AtMostOnce
  /\ ResolvedMeansReached
  /\ EventsClimb
  /\ LaunchedMeansStatus

-----------------------------------------------------------------------------
(* The numbers of the states.                                                *)
LEMMA ValueOf ==
  /\ \A s \in LifecycleState : Value[s] \in Int
  /\ Value["NOT_STARTED"] = 0
  /\ Value["STARTING"] = 1000
  /\ Value["STARTED"] = 2000
  /\ Value["STOPPING"] = 10000
  /\ Value["STOPPED"] = 10001
  /\ \A s, t \in LifecycleState : Value[s] = Value[t] => s = t
  /\ {"NOT_STARTED", "STARTING", "STARTED", "STOPPING", "STOPPED"}
       \subseteq LifecycleState
BY DEF Value, LifecycleState

(* setStatus keeps the events climbing, and reaches s or stays beyond it.    *)
LEMMA SetStatusClimbs ==
  ASSUME TypeOK, EventsClimb, NEW s \in LifecycleState, s # "NOT_STARTED",
         setStatus(s)
  PROVE  /\ status' \in LifecycleState
         /\ emitted' \in Seq(LifecycleState)
         /\ EventsClimb'
         /\ IsAtOrAfter(status', s)
         /\ IsAtOrAfter(status', status)
         /\ \A i \in DOMAIN emitted : i \in DOMAIN emitted' /\ emitted'[i] = emitted[i]
<1>1. CASE Accepts(status, s)
  <2>1. status' = s /\ emitted' = Append(emitted, s)
    BY <1>1 DEF setStatus
  <2>2. /\ Len(emitted') = Len(emitted) + 1
        /\ emitted'[Len(emitted) + 1] = s
        /\ \A i \in 1 .. Len(emitted) : emitted'[i] = emitted[i]
        /\ DOMAIN emitted = 1 .. Len(emitted)
        /\ DOMAIN emitted' = 1 .. Len(emitted) + 1
        /\ Len(emitted) \in Nat
        /\ emitted' \in Seq(LifecycleState)
    BY <2>1 DEF TypeOK
  <2>3. \A i \in 1 .. Len(emitted) : IsBefore(emitted[i], s)
    <3>1. SUFFICES ASSUME NEW i \in 1 .. Len(emitted)
                   PROVE  IsBefore(emitted[i], s)
      OBVIOUS
    <3>2. emitted # <<>> /\ status = emitted[Len(emitted)]
      BY <2>2, <3>1 DEF EventsClimb, TypeOK
    <3>3. emitted[i] \in LifecycleState /\ status \in LifecycleState
      BY <2>2 DEF TypeOK
    <3>4. CASE i = Len(emitted)
      BY <1>1, <3>2, <3>4 DEF Accepts
    <3>5. CASE i < Len(emitted)
      <4>1. IsBefore(emitted[i], status)
        BY <2>2, <3>2, <3>5 DEF EventsClimb
      <4>. QED BY <1>1, <3>3, <4>1, ValueOf DEF Accepts, IsBefore
    <3>6. i = Len(emitted) \/ i < Len(emitted)
      <4>1. Len(emitted) \in Int
        BY <2>2
      <4>. QED BY <4>1
    <3>. QED BY <3>4, <3>5, <3>6
  <2>4. \A i, j \in DOMAIN emitted' : i < j => IsBefore(emitted'[i], emitted'[j])
    <3>1. SUFFICES ASSUME NEW i \in 1 .. Len(emitted) + 1,
                          NEW j \in 1 .. Len(emitted) + 1, i < j
                   PROVE  IsBefore(emitted'[i], emitted'[j])
      BY <2>2
    <3>2. CASE j = Len(emitted) + 1
      BY <2>2, <2>3, <3>1, <3>2
    <3>3. CASE j <= Len(emitted)
      <4>1. IsBefore(emitted[i], emitted[j])
        BY <2>2, <3>1, <3>3 DEF EventsClimb
      <4>. QED BY <2>2, <3>1, <3>3, <4>1
    <3>. QED BY <2>2, <3>2, <3>3
  <2>5. emitted' # <<>> /\ status' = emitted'[Len(emitted')]
    BY <2>1, <2>2
  <2>6. IsAtOrAfter(status', s) /\ IsAtOrAfter(status', status)
    BY <1>1, <2>1, ValueOf DEF Accepts, IsAtOrAfter, IsBefore, TypeOK
  <2>. QED BY <2>1, <2>2, <2>4, <2>5, <2>6 DEF EventsClimb
<1>2. CASE ~Accepts(status, s)
  <2>1. UNCHANGED <<status, emitted>>
    BY <1>2 DEF setStatus
  <2>2. IsAtOrAfter(status', s) /\ IsAtOrAfter(status', status)
    BY <1>2, <2>1, ValueOf DEF Accepts, IsAtOrAfter, IsBefore, TypeOK
  <2>. QED BY <2>1, <2>2 DEF EventsClimb, TypeOK
<1>. QED BY <1>1, <1>2

LEMMA InitInvariant == Init => IInv
<1>. SUFFICES ASSUME Init PROVE IInv
  OBVIOUS
<1>1. TypeOK
  BY ValueOf DEF Init, TypeOK, CallState
<1>2. emitted = <<>> /\ DOMAIN emitted = {}
  BY DEF Init
<1>3. Launched(start) = {} /\ Launched(stop) = {}
  BY DEF Init, Launched
<1>. QED
  BY <1>1, <1>2, <1>3
     DEF IInv, Init, AtMostOnce, ResolvedMeansReached, EventsClimb, LaunchedMeansStatus

(* Climbing keeps what has been reached.                                     *)
LEMMA StillReached ==
  ASSUME NEW r \in LifecycleState, NEW s \in LifecycleState, NEW t \in LifecycleState,
         IsAtOrAfter(s, r), IsAtOrAfter(t, s)
  PROVE  IsAtOrAfter(t, r)
BY ValueOf DEF IsAtOrAfter, IsBefore

LEMMA NothingAfterStopped ==
  ASSUME NEW s \in LifecycleState, IsAtOrAfter(s, "STOPPED")
  PROVE  s = "STOPPED"
BY DEF IsAtOrAfter, IsBefore, Value, LifecycleState

(* One step of one call, seen from the four parts of the invariant.          *)
LEMMA StartStep ==
  ASSUME IInv, NEW c \in Starters, lcStart(c)
  PROVE  IInv'
<1>1. /\ status' \in LifecycleState
      /\ emitted' \in Seq(LifecycleState)
      /\ EventsClimb'
      /\ IsAtOrAfter(status', "STARTING")
      /\ IsAtOrAfter(status', status)
      /\ \A i \in DOMAIN emitted : i \in DOMAIN emitted' /\ emitted'[i] = emitted[i]
  BY SetStatusClimbs, ValueOf DEF IInv, lcStart
<1>2. CASE Accepts(status, "STARTING")
  <2>1. start' = [start EXCEPT ![c] = "running"] /\ stop' = stop
    BY <1>2 DEF lcStart, Opened
  <2>2. Launched(start) = {}
    BY <1>2, ValueOf DEF IInv, LaunchedMeansStatus, Accepts, IsAtOrAfter
  <2>3. Launched(start') = {c}
    BY <2>1, <2>2 DEF Launched, IInv, TypeOK
  <2>4. Launched(stop) = {}
    <3>1. ~IsAtOrAfter(status, "STOPPING")
      BY <1>2, ValueOf DEF IInv, TypeOK, Accepts, IsAtOrAfter, IsBefore
    <3>. QED BY <3>1 DEF IInv, LaunchedMeansStatus
  <2>5. TypeOK'
    BY <1>1, <2>1 DEF IInv, TypeOK, CallState
  <2>6. AtMostOnce' /\ LaunchedMeansStatus'
    BY <1>1, <2>1, <2>3, <2>4 DEF AtMostOnce, LaunchedMeansStatus
  <2>7. ResolvedMeansReached'
    BY <1>1, <2>1, <2>2, <2>4 DEF IInv, TypeOK, ResolvedMeansReached, Launched
  <2>. QED BY <1>1, <2>5, <2>6, <2>7 DEF IInv
<1>3. CASE ~Accepts(status, "STARTING")
  <2>1. /\ start' = [start EXCEPT ![c] = "refused"]
        /\ UNCHANGED <<status, stop, emitted>>
    BY <1>3 DEF lcStart, Opened, setStatus
  <2>2. Launched(start') = Launched(start)
    BY <2>1 DEF Launched, IInv, TypeOK, lcStart
  <2>. QED
    BY <1>1, <2>1, <2>2
       DEF IInv, TypeOK, CallState, AtMostOnce, LaunchedMeansStatus, ResolvedMeansReached
<1>. QED BY <1>2, <1>3

LEMMA StopStep ==
  ASSUME IInv, NEW c \in Stoppers, lcStop(c)
  PROVE  IInv'
<1>1. /\ status' \in LifecycleState
      /\ emitted' \in Seq(LifecycleState)
      /\ EventsClimb'
      /\ IsAtOrAfter(status', "STOPPING")
      /\ IsAtOrAfter(status', status)
      /\ \A i \in DOMAIN emitted : i \in DOMAIN emitted' /\ emitted'[i] = emitted[i]
  BY SetStatusClimbs, ValueOf DEF IInv, lcStop
<1>2. IsAtOrAfter(status', "STARTING")
  BY <1>1, ValueOf DEF IsAtOrAfter, IsBefore
<1>3. CASE Accepts(status, "STOPPING")
  <2>1. stop' = [stop EXCEPT ![c] = "running"] /\ start' = start
    BY <1>3 DEF lcStop, Opened
  <2>2. Launched(stop) = {}
    BY <1>3, ValueOf DEF IInv, LaunchedMeansStatus, Accepts, IsAtOrAfter
  <2>3. Launched(stop') = {c}
    BY <2>1, <2>2 DEF Launched, IInv, TypeOK
  <2>4. TypeOK'
    BY <1>1, <2>1 DEF IInv, TypeOK, CallState
  <2>5. AtMostOnce' /\ LaunchedMeansStatus'
    BY <1>1, <1>2, <2>1, <2>3 DEF IInv, AtMostOnce, LaunchedMeansStatus
  <2>6. ResolvedMeansReached'
    BY <1>1, <2>1, <2>2 DEF IInv, TypeOK, ResolvedMeansReached, Launched
  <2>. QED BY <1>1, <2>4, <2>5, <2>6 DEF IInv
<1>4. CASE ~Accepts(status, "STOPPING")
  <2>1. /\ stop' = [stop EXCEPT ![c] = "refused"]
        /\ UNCHANGED <<status, start, emitted>>
    BY <1>4 DEF lcStop, Opened, setStatus
  <2>2. Launched(stop') = Launched(stop)
    BY <2>1 DEF Launched, IInv, TypeOK, lcStop
  <2>. QED
    BY <1>1, <2>1, <2>2
       DEF IInv, TypeOK, CallState, AtMostOnce, LaunchedMeansStatus, ResolvedMeansReached
<1>. QED BY <1>3, <1>4

LEMMA StartEnds ==
  ASSUME IInv, NEW c \in Starters, doStartResolves(c) \/ doStartRejects(c)
  PROVE  IInv'
<1>1. CASE doStartResolves(c)
  <2>1. /\ status' \in LifecycleState
        /\ emitted' \in Seq(LifecycleState)
        /\ EventsClimb'
        /\ IsAtOrAfter(status', status)
        /\ \A i \in DOMAIN emitted : i \in DOMAIN emitted' /\ emitted'[i] = emitted[i]
    BY <1>1, SetStatusClimbs, ValueOf DEF IInv, doStartResolves
  <2>2. start' = [start EXCEPT ![c] = Closed("STARTED")] /\ stop' = stop
    BY <1>1 DEF doStartResolves
  <2>3. Closed("STARTED") \in {"resolved", "failed"}
    BY DEF Closed
  <2>4. Launched(start') = Launched(start)
    BY <1>1, <2>2, <2>3 DEF Launched, IInv, TypeOK, CallState, doStartResolves
  <2>5. TypeOK'
    BY <2>1, <2>2, <2>3 DEF IInv, TypeOK, CallState
  <2>6. AtMostOnce' /\ LaunchedMeansStatus'
    <3>1. \A s \in {"STARTING", "STOPPING"} :
            IsAtOrAfter(status, s) => IsAtOrAfter(status', s)
      BY <2>1, StillReached, ValueOf DEF IInv, TypeOK
    <3>. QED BY <2>2, <2>4, <3>1 DEF IInv, AtMostOnce, LaunchedMeansStatus
  <2>7. Closed("STARTED") = "resolved" => status' = "STARTED"
    BY <1>1, ValueOf
       DEF IInv, TypeOK, doStartResolves, setStatus, Closed, Accepts, IsBefore
  <2>8. status' = "STARTED" => \E i \in DOMAIN emitted' : emitted'[i] = "STARTED"
    BY <2>1 DEF EventsClimb
  <2>9. \A d \in Stoppers : stop[d] = "resolved" => status' = "STOPPED"
    <3>1. status = "STOPPED" => status' = "STOPPED"
      BY <2>1, NothingAfterStopped DEF IInv, TypeOK
    <3>. QED BY <3>1 DEF IInv, ResolvedMeansReached
  <2>10. ResolvedMeansReached'
    BY <2>1, <2>2, <2>7, <2>8, <2>9 DEF IInv, TypeOK, ResolvedMeansReached
  <2>. QED BY <2>1, <2>5, <2>6, <2>10 DEF IInv
<1>2. CASE doStartRejects(c)
  <2>1. /\ start' = [start EXCEPT ![c] = "failed"]
        /\ UNCHANGED <<status, stop, emitted>>
    BY <1>2 DEF doStartRejects
  <2>2. Launched(start') = Launched(start)
    BY <1>2, <2>1 DEF Launched, IInv, TypeOK, CallState, doStartRejects
  <2>. QED
    BY <2>1, <2>2
       DEF IInv, TypeOK, CallState, AtMostOnce, LaunchedMeansStatus,
           ResolvedMeansReached, EventsClimb
<1>. QED BY <1>1, <1>2

LEMMA StopEnds ==
  ASSUME IInv, NEW c \in Stoppers, doStopResolves(c) \/ doStopRejects(c)
  PROVE  IInv'
<1>1. CASE doStopResolves(c)
  <2>1. /\ status' \in LifecycleState
        /\ emitted' \in Seq(LifecycleState)
        /\ EventsClimb'
        /\ IsAtOrAfter(status', "STOPPED")
        /\ IsAtOrAfter(status', status)
        /\ \A i \in DOMAIN emitted : i \in DOMAIN emitted' /\ emitted'[i] = emitted[i]
    BY <1>1, SetStatusClimbs, ValueOf DEF IInv, doStopResolves
  <2>2. stop' = [stop EXCEPT ![c] = Closed("STOPPED")] /\ start' = start
    BY <1>1 DEF doStopResolves
  <2>3. Closed("STOPPED") \in {"resolved", "failed"}
    BY DEF Closed
  <2>4. Launched(stop') = Launched(stop)
    BY <1>1, <2>2, <2>3 DEF Launched, IInv, TypeOK, CallState, doStopResolves
  <2>5. TypeOK'
    BY <2>1, <2>2, <2>3 DEF IInv, TypeOK, CallState
  <2>6. AtMostOnce' /\ LaunchedMeansStatus'
    <3>1. \A s \in {"STARTING", "STOPPING"} :
            IsAtOrAfter(status, s) => IsAtOrAfter(status', s)
      BY <2>1, StillReached, ValueOf DEF IInv, TypeOK
    <3>. QED BY <2>2, <2>4, <3>1 DEF IInv, AtMostOnce, LaunchedMeansStatus
  <2>7. status' = "STOPPED"
    BY <2>1, NothingAfterStopped
  <2>8. ResolvedMeansReached'
    BY <2>1, <2>2, <2>7 DEF IInv, TypeOK, ResolvedMeansReached
  <2>. QED BY <2>1, <2>5, <2>6, <2>8 DEF IInv
<1>2. CASE doStopRejects(c)
  <2>1. /\ stop' = [stop EXCEPT ![c] = "failed"]
        /\ UNCHANGED <<status, start, emitted>>
    BY <1>2 DEF doStopRejects
  <2>2. Launched(stop') = Launched(stop)
    BY <1>2, <2>1 DEF Launched, IInv, TypeOK, CallState, doStopRejects
  <2>. QED
    BY <2>1, <2>2
       DEF IInv, TypeOK, CallState, AtMostOnce, LaunchedMeansStatus,
           ResolvedMeansReached, EventsClimb
<1>. QED BY <1>1, <1>2

LEMMA NextInvariant == IInv /\ [Next]_vars => IInv'
<1>. SUFFICES ASSUME IInv, [Next]_vars PROVE IInv'
  OBVIOUS
<1>1. CASE UNCHANGED vars
  BY <1>1 DEF vars, IInv, TypeOK, AtMostOnce, ResolvedMeansReached, EventsClimb,
              LaunchedMeansStatus
<1>. QED BY <1>1, StartStep, StopStep, StartEnds, StopEnds DEF Next

-----------------------------------------------------------------------------
(* However many callers there are and however their calls interleave, doStart*)
(* and doStop run at most once, a resolved lcStart or lcStop has done what it *)
(* says, and listeners see each state once and in the order of the chain.    *)
THEOREM LifecycleSafety ==
  Spec => [](TypeOK /\ AtMostOnce /\ ResolvedMeansReached /\ EventsClimb)
<1>1. IInv => TypeOK /\ AtMostOnce /\ ResolvedMeansReached /\ EventsClimb
  BY DEF IInv
<1>. QED BY <1>1, InitInvariant, NextInvariant, PTL DEF Spec

(* A start that a stop has overtaken never resolves: its second setStatus    *)
(* throws, in every later state.                                             *)
THEOREM OvertakenStartsFail == Spec => OvertakenStartFails
<1>1. IInv /\ [Next]_vars =>
        [\A c \in Starters :
           start[c] = "running" /\ IsAtOrAfter(status, "STOPPING")
             => start'[c] # "resolved"]_vars
  <2>. SUFFICES ASSUME IInv, Next, NEW c \in Starters,
                       start[c] = "running", IsAtOrAfter(status, "STOPPING")
                PROVE  start'[c] # "resolved"
    OBVIOUS
  <2>1. Closed("STARTED") = "failed"
    BY ValueOf DEF Closed, IsAtOrAfter, IsBefore, IInv, TypeOK
  <2>2. ASSUME NEW d \in Starters, lcStart(d) PROVE start'[c] # "resolved"
    BY <2>2 DEF lcStart, Opened, IInv, TypeOK
  <2>3. ASSUME NEW d \in Starters, doStartResolves(d) PROVE start'[c] # "resolved"
    BY <2>1, <2>3 DEF doStartResolves, IInv, TypeOK
  <2>4. ASSUME NEW d \in Starters, doStartRejects(d) PROVE start'[c] # "resolved"
    BY <2>4 DEF doStartRejects, IInv, TypeOK
  <2>5. ASSUME NEW d \in Stoppers, lcStop(d) \/ doStopResolves(d) \/ doStopRejects(d)
        PROVE start'[c] # "resolved"
    BY <2>5 DEF lcStop, doStopResolves, doStopRejects
  <2>. QED BY <2>2, <2>3, <2>4, <2>5 DEF Next
<1>. QED BY <1>1, InitInvariant, NextInvariant, PTL DEF Spec, OvertakenStartFails

(* A Lifecycle implements the abstract status chain: every step moves the    *)
(* status up or leaves it alone.                                             *)
THEOREM LifecycleImplementsChain == Spec => ImplementsChain
<1>1. Init => Chain!Init
  BY DEF Init, Chain!Init
<1>2. [Next]_vars => [Chain!Next]_status
  <2>. SUFFICES ASSUME Next PROVE [Chain!Next]_status
    BY DEF vars
  <2>1. ASSUME NEW s \in LifecycleState, setStatus(s) PROVE [Chain!Next]_status
    BY <2>1 DEF setStatus, Accepts, Chain!Next, Chain!Advance, Chain!IsBefore,
                IsBefore, Chain!LifecycleState, LifecycleState, Chain!Value, Value
  <2>. QED
    BY <2>1, ValueOf DEF Next, lcStart, doStartResolves, doStartRejects,
                         lcStop, doStopResolves, doStopRejects
<1>. QED BY <1>1, <1>2, PTL DEF Spec, ImplementsChain, Chain!Spec
=============================================================================
