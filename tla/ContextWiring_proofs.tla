------------------------ MODULE ContextWiring_proofs ------------------------
(* The safety of ContextWiring for any number of definitions and any graph.  *)
EXTENDS ContextWiring, TLAPS

(* How the promises of a definition follow its status.                       *)
Built   == {"INSTANTIATED", "STARTING", "STARTED", "STOPPING", "STOPPED"}
Begun   == {"STARTING", "STARTED", "STOPPING", "STOPPED"}
HasRun  == {"STARTED", "STOPPING", "STOPPED"}

PromisesMatchStatus ==
  \A d \in Defs :
    /\ inst[d] = "none" => status[d] = "NOT_STARTED" /\ wired[d] = "none"
    /\ inst[d] = "pending" => status[d] = "INSTANTIATING" /\ wired[d] = "pending"
    /\ inst[d] = "err" => status[d] \in {"NOT_STARTED", "INSTANTIATING"} /\ wired[d] = "err"
    /\ inst[d] = "ok" <=> status[d] \in Built
    /\ wired[d] = "ok" <=> status[d] \in HasRun
    /\ d \in injecting => inst[d] = "ok"
    /\ status[d] \in Begun => d \in injecting
    /\ stopped[d] = "pending" => status[d] = "STOPPING"
    /\ stopped[d] = "ok" <=> status[d] = "STOPPED"
    /\ status[d] = "STOPPING" => stopped[d] \in {"pending", "err"}
    /\ stopped[d] # "none" => stopCall \in {"waiting", "ok", "err"}

(* How the calls of the context follow its status.                           *)
CallsMatchStatus ==
  /\ ctx \in {"NOT_STARTED", "STARTING", "STARTED", "STOPPING", "STOPPED"}
  /\ ctx = "STARTED" => startCall = "ok"
  /\ ctx \in {"NOT_STARTED", "STARTING", "STARTED"} => stopCall = "none"
  /\ ctx = "STOPPING" => stopCall # "none"
  /\ ctx = "STOPPED" => stopCall = "ok"
  /\ stopCall = "ok" => \A d \in Defs : stopped[d] \in {"none", "ok"}
  /\ startCall = "ok" /\ stopCall \in {"waiting", "ok", "err"}
       => \A d \in cfg.eager : ~Circular(d) => stopped[d] # "none"

NoCtorCycleBegun == \A d \in Defs : CtorCircular(d) => status[d] = "NOT_STARTED"

ResolvedStartIsReady == startCall = "ok" => \A d \in cfg.eager : Ready(d)

IInv ==
  /\ TypeOK
  /\ PromisesMatchStatus
  /\ CallsMatchStatus
  /\ StartedObjectsExact
  /\ WiringOrder
  /\ NoCtorCycleBegun
  /\ ResolvedStartIsReady

-----------------------------------------------------------------------------
(* Graphs.                                                                   *)

(* From where no cycle can be reached, one edge leads to such a place again. *)
LEMMA AcyclicBelow ==
  ASSUME NEW G \in Graph, NEW d \in Defs, ~ReachesCycle(G, d), NEW e \in G[d]
  PROVE  e \in Defs /\ ~ReachesCycle(G, e)
<1>1. e \in Defs
  BY DEF Graph
<1>. SUFFICES ASSUME NEW X \in SUBSET Defs, e \in X, \A x \in X : G[x] \cap X # {}
              PROVE  FALSE
  BY <1>1 DEF ReachesCycle
<1>. DEFINE Y == X \cup {d}
<1>2. Y \in SUBSET Defs /\ d \in Y
  OBVIOUS
<1>3. \A x \in Y : G[x] \cap Y # {}
  OBVIOUS
<1>. QED BY <1>2, <1>3 DEF ReachesCycle

(* The closure is in every set that holds D and is closed under the edges.   *)
LEMMA ClosureLeast ==
  ASSUME NEW G, NEW D, NEW X \in SUBSET Defs,
         D \subseteq X, \A y \in X : G[y] \subseteq X
  PROVE  Closure(G, D) \subseteq X
BY DEF Closure

LEMMA ClosureHasNoCycle ==
  ASSUME NEW G \in Graph, NEW D \in SUBSET Defs, \A x \in D : ~ReachesCycle(G, x)
  PROVE  \A x \in Closure(G, D) : x \in Defs /\ ~ReachesCycle(G, x)
<1>. DEFINE X == {x \in Defs : ~ReachesCycle(G, x)}
<1>1. D \subseteq X
  OBVIOUS
<1>2. \A y \in X : G[y] \subseteq X
  BY AcyclicBelow
<1>3. Closure(G, D) \subseteq X
  <2>. HIDE DEF X
  <2>. QED BY <1>1, <1>2, ClosureLeast DEF X
<1>. QED BY <1>3

LEMMA CfgType ==
  ASSUME TypeOK
  PROVE  cfg.ctor \in Graph /\ cfg.prop \in Graph /\ cfg.eager \in SUBSET Defs
         /\ Uses \in Graph
BY ConfigsAssumption DEF TypeOK, Uses, Graph

(* The registrations are frozen, and so is all that is read off them.        *)
LEMMA SameGraph ==
  ASSUME cfg' = cfg
  PROVE  /\ \A d : Circular(d)' <=> Circular(d)
         /\ \A d : CtorCircular(d)' <=> CtorCircular(d)
         /\ Uses' = Uses
BY DEF Circular, CtorCircular, Uses

-----------------------------------------------------------------------------
(* Statuses and promises.                                                    *)

LEMMA StatusOrder ==
  ASSUME NEW s \in LifecycleState, s # "PROPERTIES_SET"
  PROVE  /\ IsAtOrAfter(s, "INSTANTIATED") <=> s \in Built
         /\ IsAtOrAfter(s, "STARTING") <=> s \in Begun
         /\ IsAtOrAfter(s, "STARTED") <=> s \in HasRun
BY DEF IsAtOrAfter, IsBefore, Value, LifecycleState, Built, Begun, HasRun

LEMMA AcceptedStatus ==
  ASSUME CallsMatchStatus
  PROVE  /\ Accepts(ctx, "STARTING") <=> ctx = "NOT_STARTED"
         /\ Accepts(ctx, "STARTED") <=> ctx \in {"NOT_STARTED", "STARTING"}
         /\ Accepts(ctx, "STOPPING") <=> ctx \in {"NOT_STARTED", "STARTING", "STARTED"}
BY DEF CallsMatchStatus, Accepts, IsBefore, Value

LEMMA NoPropertiesSet ==
  ASSUME TypeOK, PromisesMatchStatus
  PROVE  \A d \in Defs : status[d] \in LifecycleState /\ status[d] # "PROPERTIES_SET"
BY DEF TypeOK, PromisesMatchStatus, Promise, Built

(* A definition is ready exactly when the promise its dependants hold has    *)
(* resolved; the invariant WiringOrder in terms of promises.                 *)
LEMMA ReadyIsResolved ==
  ASSUME TypeOK, PromisesMatchStatus
  PROVE  \A e \in Defs : Ready(e) <=> Awaited(e) = "ok"
<1>. SUFFICES ASSUME NEW e \in Defs PROVE Ready(e) <=> Awaited(e) = "ok"
  OBVIOUS
<1>1. status[e] \in LifecycleState /\ status[e] # "PROPERTIES_SET"
  BY NoPropertiesSet
<1>2. CASE Circular(e)
  BY <1>1, <1>2, StatusOrder DEF Ready, Awaited, PromisesMatchStatus
<1>3. CASE ~Circular(e)
  BY <1>1, <1>3, StatusOrder DEF Ready, Awaited, PromisesMatchStatus
<1>. QED BY <1>2, <1>3

OrderOfPromises ==
  \A d \in Defs :
    /\ inst[d] = "ok" => AllResolved(cfg.ctor[d])
    /\ status[d] \in Begun => AllResolved(cfg.prop[d])

LEMMA OrderAsPromises ==
  ASSUME TypeOK, PromisesMatchStatus
  PROVE  WiringOrder <=> OrderOfPromises
<1>1. \A d \in Defs : /\ cfg.ctor[d] \subseteq Defs
                      /\ cfg.prop[d] \subseteq Defs
                      /\ Uses[d] = cfg.ctor[d] \cup cfg.prop[d]
  BY CfgType DEF Graph, Uses
<1>2. \A d \in Defs : /\ IsAtOrAfter(status[d], "INSTANTIATED") <=> inst[d] = "ok"
                      /\ IsAtOrAfter(status[d], "STARTING") <=> status[d] \in Begun
                      /\ status[d] \in Begun => inst[d] = "ok"
  BY NoPropertiesSet, StatusOrder DEF PromisesMatchStatus, Built, Begun
<1>3. \A e \in Defs : Ready(e) <=> Awaited(e) = "ok"
  BY ReadyIsResolved
<1>. QED BY <1>1, <1>2, <1>3 DEF WiringOrder, OrderOfPromises, AllResolved

-----------------------------------------------------------------------------
(* What one step may do to the promises: the part of the invariant about     *)
(* order is carried over by any step that keeps promises settled and builds  *)
(* or starts only over resolved ones.                                        *)
Carries ==
  /\ cfg' = cfg
  /\ \A d \in Defs :
       /\ inst[d] = "ok" => inst'[d] = "ok"
       /\ wired[d] = "ok" => wired'[d] = "ok"
       /\ inst'[d] = "ok" => inst[d] = "ok" \/ AllResolved(cfg.ctor[d])
       /\ status'[d] \in Begun => status[d] \in Begun \/ AllResolved(cfg.prop[d])
       /\ CtorCircular(d) => status'[d] = status[d]
  /\ startCall' = "ok" => startCall = "ok" \/ AllResolved(cfg.eager)

LEMMA OrderCarried ==
  ASSUME IInv, TypeOK', PromisesMatchStatus', Carries
  PROVE  WiringOrder' /\ NoCtorCycleBegun' /\ ResolvedStartIsReady'
<1>1. \A e \in Defs : Awaited(e) = "ok" => Awaited(e)' = "ok"
  BY SameGraph DEF Awaited, Carries
<1>2. \A D \in SUBSET Defs : AllResolved(D) => \A e \in D : Awaited(e)' = "ok"
  BY <1>1 DEF AllResolved
<1>3. /\ \A d \in Defs : cfg.ctor[d] \in SUBSET Defs /\ cfg.prop[d] \in SUBSET Defs
      /\ cfg.eager \in SUBSET Defs
  BY CfgType DEF IInv, Graph
<1>4. OrderOfPromises
  BY OrderAsPromises DEF IInv
<1>5. OrderOfPromises'
  BY <1>2, <1>3, <1>4 DEF OrderOfPromises, Carries, AllResolved
<1>6. WiringOrder'
  BY <1>5, OrderAsPromises, PTL
<1>7. NoCtorCycleBegun'
  BY SameGraph DEF IInv, NoCtorCycleBegun, Carries
<1>8. ResolvedStartIsReady'
  <2>. SUFFICES ASSUME startCall' = "ok", NEW d \in cfg.eager PROVE Ready(d)'
    BY DEF ResolvedStartIsReady, Carries
  <2>1. d \in Defs
    BY <1>3
  <2>2. Awaited(d) = "ok"
    BY <2>1, ReadyIsResolved DEF IInv, ResolvedStartIsReady, Carries, AllResolved
  <2>3. Awaited(d)' = "ok"
    BY <1>1, <2>1, <2>2
  <2>4. (\A e \in Defs : Ready(e) <=> Awaited(e) = "ok")'
    BY ReadyIsResolved, PTL
  <2>. QED BY <2>1, <2>3, <2>4
<1>. QED BY <1>6, <1>7, <1>8

-----------------------------------------------------------------------------
(* getInstance() touches only definitions never asked for before, and begins *)
(* none from which a constructor cycle can be reached.                       *)
Untouched(d) == inst'[d] = inst[d] /\ wired'[d] = wired[d] /\ status'[d] = status[d]
Refused(d) ==
  /\ inst[d] = "none"
  /\ inst'[d] = "err" /\ wired'[d] = "err" /\ status'[d] = status[d]
Begins(d) ==
  /\ inst[d] = "none" /\ ~CtorCircular(d)
  /\ inst'[d] = "pending" /\ wired'[d] = "pending" /\ status'[d] = "INSTANTIATING"

LEMMA GetInstanceEffect ==
  ASSUME TypeOK, NEW D \in SUBSET Defs, getInstance(D)
  PROVE  /\ status' \in [Defs -> LifecycleState]
         /\ inst' \in [Defs -> Promise]
         /\ wired' \in [Defs -> Promise]
         /\ \A d \in Defs : Untouched(d) \/ Refused(d) \/ Begins(d)
<1>. DEFINE asked   == {x \in D : ~CtorCircular(x)}
            refused == {d \in D : inst[d] = "none" /\ CtorCircular(d)}
            begun   == {d \in Closure(cfg.ctor, asked) : inst[d] = "none"}
<1>1. \A d \in begun : d \in Defs /\ ~CtorCircular(d)
  BY ClosureHasNoCycle, CfgType DEF CtorCircular
<1>2. \A d \in refused : d \in Defs /\ inst[d] = "none" /\ CtorCircular(d)
  OBVIOUS
<1>3. \A d \in begun : inst[d] = "none"
  OBVIOUS
<1>4. /\ inst' = [d \in Defs |-> IF d \in refused THEN "err"
                                 ELSE IF d \in begun THEN "pending" ELSE inst[d]]
      /\ wired' = [d \in Defs |-> IF d \in refused THEN "err"
                                  ELSE IF d \in begun THEN "pending" ELSE wired[d]]
      /\ status' = [d \in Defs |-> IF d \in begun THEN "INSTANTIATING" ELSE status[d]]
  BY DEF getInstance
<1>. HIDE DEF asked, refused, begun
<1>5. /\ status' \in [Defs -> LifecycleState]
      /\ inst' \in [Defs -> Promise]
      /\ wired' \in [Defs -> Promise]
  BY <1>4 DEF TypeOK, Promise, LifecycleState
<1>6. \A d \in Defs : Untouched(d) \/ Refused(d) \/ Begins(d)
  BY <1>1, <1>2, <1>3, <1>4 DEF Untouched, Refused, Begins
<1>. QED BY <1>5, <1>6

-----------------------------------------------------------------------------
(* One lemma per action; each shows the five parts of the next invariant.    *)

LEMMA InitInvariant == Init => IInv
<1>. SUFFICES ASSUME Init PROVE IInv
  OBVIOUS
<1>1. TypeOK
  BY DEF Init, TypeOK, Promise, StartCall, StopCall, LifecycleState
<1>2. PromisesMatchStatus /\ CallsMatchStatus /\ StartedObjectsExact
  BY DEF Init, PromisesMatchStatus, CallsMatchStatus, StartedObjectsExact,
         Built, Begun, HasRun
<1>3. NoCtorCycleBegun /\ ResolvedStartIsReady
  BY DEF Init, NoCtorCycleBegun, ResolvedStartIsReady
<1>4. OrderOfPromises
  BY DEF Init, OrderOfPromises, Begun
<1>. QED BY <1>1, <1>2, <1>3, <1>4, OrderAsPromises DEF IInv

LEMMA GetObjectByNameStep ==
  ASSUME IInv, NEW d \in Defs, getObjectByName(d)
  PROVE  IInv'
<1>. /\ status' \in [Defs -> LifecycleState]
     /\ inst' \in [Defs -> Promise]
     /\ wired' \in [Defs -> Promise]
     /\ \A x \in Defs : Untouched(x) \/ Refused(x) \/ Begins(x)
  <2>1. {d} \in SUBSET Defs /\ getInstance({d})
    BY CfgType DEF IInv, Graph, getObjectByName
  <2>. QED BY <2>1, GetInstanceEffect DEF IInv
<1>1. TypeOK'
  BY DEF IInv, TypeOK, getObjectByName, ctxVars, stopVars, StartCall
<1>2. PromisesMatchStatus'
  BY DEF IInv, PromisesMatchStatus, Untouched, Refused, Begins, Built, Begun, HasRun,
         getObjectByName, ctxVars, stopVars
<1>3. CallsMatchStatus'
  BY SameGraph DEF IInv, CallsMatchStatus, getObjectByName, ctxVars, stopVars
<1>4. StartedObjectsExact'
  BY DEF IInv, PromisesMatchStatus, StartedObjectsExact, Untouched, Refused, Begins,
         getObjectByName, ctxVars, stopVars
<1>5. Carries
  BY DEF IInv, PromisesMatchStatus, Carries, Untouched, Refused, Begins, Begun,
         getObjectByName, ctxVars, stopVars
<1>. QED BY <1>1, <1>2, <1>3, <1>4, <1>5, OrderCarried DEF IInv

LEMMA SetAllPropertiesStep ==
  ASSUME IInv, NEW d \in Defs, setAllProperties(d)
  PROVE  IInv'
<1>. /\ status' \in [Defs -> LifecycleState]
     /\ inst' \in [Defs -> Promise]
     /\ wired' \in [Defs -> Promise]
     /\ \A x \in Defs : Untouched(x) \/ Refused(x) \/ Begins(x)
  <2>1. cfg.prop[d] \in SUBSET Defs /\ getInstance(cfg.prop[d])
    BY CfgType DEF IInv, Graph, setAllProperties
  <2>. QED BY <2>1, GetInstanceEffect DEF IInv
<1>1. TypeOK'
  BY DEF IInv, TypeOK, setAllProperties, ctxVars, stopVars, StartCall
<1>2. PromisesMatchStatus'
  BY DEF IInv, PromisesMatchStatus, Untouched, Refused, Begins, Built, Begun, HasRun,
         setAllProperties, ctxVars, stopVars
<1>3. CallsMatchStatus'
  BY SameGraph DEF IInv, CallsMatchStatus, setAllProperties, ctxVars, stopVars
<1>4. StartedObjectsExact'
  BY DEF IInv, PromisesMatchStatus, StartedObjectsExact, Untouched, Refused, Begins,
         setAllProperties, ctxVars, stopVars
<1>5. Carries
  BY DEF IInv, PromisesMatchStatus, Carries, Untouched, Refused, Begins, Begun,
         setAllProperties, ctxVars, stopVars
<1>. QED BY <1>1, <1>2, <1>3, <1>4, <1>5, OrderCarried DEF IInv

LEMMA ContextDoStartStep ==
  ASSUME IInv, contextDoStart
  PROVE  IInv'
<1>. /\ status' \in [Defs -> LifecycleState]
     /\ inst' \in [Defs -> Promise]
     /\ wired' \in [Defs -> Promise]
     /\ \A x \in Defs : Untouched(x) \/ Refused(x) \/ Begins(x)
  <2>1. cfg.eager \in SUBSET Defs /\ getInstance(cfg.eager)
    BY CfgType DEF IInv, Graph, contextDoStart
  <2>. QED BY <2>1, GetInstanceEffect DEF IInv
<1>1. TypeOK'
  BY DEF IInv, TypeOK, contextDoStart, ctxVars, stopVars, StartCall
<1>2. PromisesMatchStatus'
  BY DEF IInv, PromisesMatchStatus, Untouched, Refused, Begins, Built, Begun, HasRun,
         contextDoStart, ctxVars, stopVars
<1>3. CallsMatchStatus'
  BY SameGraph DEF IInv, CallsMatchStatus, contextDoStart, ctxVars, stopVars
<1>4. StartedObjectsExact'
  BY DEF IInv, PromisesMatchStatus, StartedObjectsExact, Untouched, Refused, Begins,
         contextDoStart, ctxVars, stopVars
<1>5. Carries
  BY DEF IInv, PromisesMatchStatus, Carries, Untouched, Refused, Begins, Begun,
         contextDoStart, ctxVars, stopVars
<1>. QED BY <1>1, <1>2, <1>3, <1>4, <1>5, OrderCarried DEF IInv

LEMMA ConstructsStep ==
  ASSUME IInv, NEW d \in Defs, constructs(d)
  PROVE  IInv'
<1>1. TypeOK'
  BY DEF IInv, TypeOK, Promise, LifecycleState, defStatus, constructs, ctxVars, stopVars
<1>2. PromisesMatchStatus'
  BY <1>1 DEF IInv, TypeOK, PromisesMatchStatus, Built, Begun, HasRun,
         defStatus, constructs, ctxVars, stopVars
<1>3. CallsMatchStatus'
  BY SameGraph DEF IInv, TypeOK, CallsMatchStatus, PromisesMatchStatus, defStatus, constructs, ctxVars, stopVars
<1>4. StartedObjectsExact'
  BY DEF IInv, TypeOK, PromisesMatchStatus, StartedObjectsExact, defStatus, constructs, ctxVars, stopVars
<1>5. Carries
  BY DEF IInv, TypeOK, PromisesMatchStatus, NoCtorCycleBegun, Carries, Built, Begun,
         defStatus, constructs, ctxVars, stopVars
<1>. QED BY <1>1, <1>2, <1>3, <1>4, <1>5, OrderCarried DEF IInv

LEMMA InstantiateRejectsStep ==
  ASSUME IInv, NEW d \in Defs, instantiateRejects(d)
  PROVE  IInv'
<1>1. TypeOK'
  BY DEF IInv, TypeOK, Promise, LifecycleState, instantiateRejects, ctxVars, stopVars
<1>2. PromisesMatchStatus'
  BY <1>1 DEF IInv, TypeOK, PromisesMatchStatus, Built, Begun, HasRun,
         instantiateRejects, ctxVars, stopVars
<1>3. CallsMatchStatus'
  BY SameGraph DEF IInv, TypeOK, CallsMatchStatus, PromisesMatchStatus, instantiateRejects, ctxVars, stopVars
<1>4. StartedObjectsExact'
  BY DEF IInv, TypeOK, PromisesMatchStatus, StartedObjectsExact, instantiateRejects, ctxVars, stopVars
<1>5. Carries
  BY DEF IInv, TypeOK, PromisesMatchStatus, NoCtorCycleBegun, Carries, Built, Begun,
         instantiateRejects, ctxVars, stopVars
<1>. QED BY <1>1, <1>2, <1>3, <1>4, <1>5, OrderCarried DEF IInv

LEMMA PropertyRejectsStep ==
  ASSUME IInv, NEW d \in Defs, propertyRejects(d)
  PROVE  IInv'
<1>1. TypeOK'
  BY DEF IInv, TypeOK, Promise, LifecycleState, Injecting, propertyRejects, ctxVars, stopVars
<1>2. PromisesMatchStatus'
  BY <1>1 DEF IInv, TypeOK, PromisesMatchStatus, Built, Begun, HasRun,
         Injecting, propertyRejects, ctxVars, stopVars
<1>3. CallsMatchStatus'
  BY SameGraph DEF IInv, TypeOK, CallsMatchStatus, PromisesMatchStatus, Injecting, propertyRejects, ctxVars, stopVars
<1>4. StartedObjectsExact'
  BY DEF IInv, TypeOK, PromisesMatchStatus, StartedObjectsExact, Injecting, propertyRejects, ctxVars, stopVars
<1>5. Carries
  BY DEF IInv, TypeOK, PromisesMatchStatus, NoCtorCycleBegun, Carries, Built, Begun,
         Injecting, propertyRejects, ctxVars, stopVars
<1>. QED BY <1>1, <1>2, <1>3, <1>4, <1>5, OrderCarried DEF IInv

LEMMA LcStartStep ==
  ASSUME IInv, NEW d \in Defs, lcStart(d)
  PROVE  IInv'
<1>1. TypeOK'
  BY DEF IInv, TypeOK, Promise, LifecycleState, Injecting, defStatus, lcStart, ctxVars, stopVars
<1>2. PromisesMatchStatus'
  BY <1>1 DEF IInv, TypeOK, PromisesMatchStatus, Built, Begun, HasRun,
         Injecting, defStatus, lcStart, ctxVars, stopVars
<1>3. CallsMatchStatus'
  BY SameGraph DEF IInv, TypeOK, CallsMatchStatus, PromisesMatchStatus, Injecting, defStatus, lcStart, ctxVars, stopVars
<1>4. StartedObjectsExact'
  BY DEF IInv, TypeOK, PromisesMatchStatus, StartedObjectsExact, Injecting, defStatus, lcStart, ctxVars, stopVars
<1>5. Carries
  BY DEF IInv, TypeOK, PromisesMatchStatus, NoCtorCycleBegun, Carries, Built, Begun,
         Injecting, defStatus, lcStart, ctxVars, stopVars
<1>. QED BY <1>1, <1>2, <1>3, <1>4, <1>5, OrderCarried DEF IInv

LEMMA DoStartResolvesStep ==
  ASSUME IInv, NEW d \in Defs, doStartResolves(d)
  PROVE  IInv'
<1>1. TypeOK'
  BY DEF IInv, TypeOK, Promise, LifecycleState, Starting, defStatus, doStartResolves, ctxVars, stopVars
<1>2. PromisesMatchStatus'
  BY <1>1 DEF IInv, TypeOK, PromisesMatchStatus, Built, Begun, HasRun,
         Starting, defStatus, doStartResolves, ctxVars, stopVars
<1>3. CallsMatchStatus'
  BY SameGraph DEF IInv, TypeOK, CallsMatchStatus, PromisesMatchStatus, Starting, defStatus, doStartResolves, ctxVars, stopVars
<1>4. StartedObjectsExact'
  BY DEF IInv, TypeOK, PromisesMatchStatus, StartedObjectsExact, Starting, defStatus, doStartResolves, ctxVars, stopVars
<1>5. Carries
  BY DEF IInv, TypeOK, PromisesMatchStatus, NoCtorCycleBegun, Carries, Built, Begun,
         Starting, defStatus, doStartResolves, ctxVars, stopVars
<1>. QED BY <1>1, <1>2, <1>3, <1>4, <1>5, OrderCarried DEF IInv

LEMMA DoStartRejectsStep ==
  ASSUME IInv, NEW d \in Defs, doStartRejects(d)
  PROVE  IInv'
<1>1. TypeOK'
  BY DEF IInv, TypeOK, Promise, LifecycleState, Starting, doStartRejects, ctxVars, stopVars
<1>2. PromisesMatchStatus'
  BY <1>1 DEF IInv, TypeOK, PromisesMatchStatus, Built, Begun, HasRun,
         Starting, doStartRejects, ctxVars, stopVars
<1>3. CallsMatchStatus'
  BY SameGraph DEF IInv, TypeOK, CallsMatchStatus, PromisesMatchStatus, Starting, doStartRejects, ctxVars, stopVars
<1>4. StartedObjectsExact'
  BY DEF IInv, TypeOK, PromisesMatchStatus, StartedObjectsExact, Starting, doStartRejects, ctxVars, stopVars
<1>5. Carries
  BY DEF IInv, TypeOK, PromisesMatchStatus, NoCtorCycleBegun, Carries, Built, Begun,
         Starting, doStartRejects, ctxVars, stopVars
<1>. QED BY <1>1, <1>2, <1>3, <1>4, <1>5, OrderCarried DEF IInv

LEMMA DoStopResolvesStep ==
  ASSUME IInv, NEW d \in Defs, doStopResolves(d)
  PROVE  IInv'
<1>1. TypeOK'
  BY DEF IInv, TypeOK, Promise, LifecycleState, defStatus, doStopResolves, ctxVars, stopVars
<1>2. PromisesMatchStatus'
  BY <1>1 DEF IInv, TypeOK, PromisesMatchStatus, Built, Begun, HasRun,
         defStatus, doStopResolves, ctxVars, stopVars
<1>3. CallsMatchStatus'
  BY SameGraph DEF IInv, TypeOK, CallsMatchStatus, PromisesMatchStatus, defStatus, doStopResolves, ctxVars, stopVars
<1>4. StartedObjectsExact'
  BY DEF IInv, TypeOK, PromisesMatchStatus, StartedObjectsExact, defStatus, doStopResolves, ctxVars, stopVars
<1>5. Carries
  BY DEF IInv, TypeOK, PromisesMatchStatus, NoCtorCycleBegun, Carries, Built, Begun,
         defStatus, doStopResolves, ctxVars, stopVars
<1>. QED BY <1>1, <1>2, <1>3, <1>4, <1>5, OrderCarried DEF IInv

LEMMA DoStopRejectsStep ==
  ASSUME IInv, NEW d \in Defs, doStopRejects(d)
  PROVE  IInv'
<1>1. TypeOK'
  BY DEF IInv, TypeOK, Promise, LifecycleState, defVars, doStopRejects, ctxVars, stopVars
<1>2. PromisesMatchStatus'
  BY <1>1 DEF IInv, TypeOK, PromisesMatchStatus, Built, Begun, HasRun,
         defVars, doStopRejects, ctxVars, stopVars
<1>3. CallsMatchStatus'
  BY SameGraph DEF IInv, TypeOK, CallsMatchStatus, PromisesMatchStatus, defVars, doStopRejects, ctxVars, stopVars
<1>4. StartedObjectsExact'
  BY DEF IInv, TypeOK, PromisesMatchStatus, StartedObjectsExact, defVars, doStopRejects, ctxVars, stopVars
<1>5. Carries
  BY DEF IInv, TypeOK, PromisesMatchStatus, NoCtorCycleBegun, Carries, Built, Begun,
         defVars, doStopRejects, ctxVars, stopVars
<1>. QED BY <1>1, <1>2, <1>3, <1>4, <1>5, OrderCarried DEF IInv

LEMMA ContextStartStep ==
  ASSUME IInv, contextStart
  PROVE  IInv'
<1>1. TypeOK'
  BY DEF IInv, TypeOK, Promise, LifecycleState, StartCall, StopCall,
         contextStart, defVars, stopVars
<1>2. PromisesMatchStatus'
  BY AcceptedStatus DEF IInv, TypeOK, PromisesMatchStatus, StartedObjectsExact, Built, Begun, HasRun, StopCall,
         CallsMatchStatus, contextStart, defVars, stopVars
<1>3. CallsMatchStatus'
  BY SameGraph, AcceptedStatus DEF IInv, TypeOK, CallsMatchStatus, PromisesMatchStatus, StartedObjectsExact,
         ResolvedStartIsReady, contextStart, defVars, stopVars
<1>4. StartedObjectsExact'
  BY DEF IInv, TypeOK, PromisesMatchStatus, StartedObjectsExact, contextStart, defVars, stopVars
<1>5. Carries
  BY DEF IInv, TypeOK, PromisesMatchStatus, NoCtorCycleBegun, StartedObjectsExact, Carries,
         Built, Begun, contextStart, defVars, stopVars
<1>. QED BY <1>1, <1>2, <1>3, <1>4, <1>5, OrderCarried DEF IInv

LEMMA ContextStartResolvesStep ==
  ASSUME IInv, contextStartResolves
  PROVE  IInv'
<1>1. TypeOK'
  BY DEF IInv, TypeOK, Promise, LifecycleState, StartCall, StopCall,
         contextStartResolves, defVars, stopVars
<1>2. PromisesMatchStatus'
  BY AcceptedStatus DEF IInv, TypeOK, PromisesMatchStatus, StartedObjectsExact, Built, Begun, HasRun, StopCall,
         CallsMatchStatus, contextStartResolves, defVars, stopVars
<1>3. CallsMatchStatus'
  BY SameGraph, AcceptedStatus DEF IInv, TypeOK, CallsMatchStatus, PromisesMatchStatus, StartedObjectsExact,
         ResolvedStartIsReady, contextStartResolves, defVars, stopVars
<1>4. StartedObjectsExact'
  BY DEF IInv, TypeOK, PromisesMatchStatus, StartedObjectsExact, contextStartResolves, defVars, stopVars
<1>5. Carries
  BY DEF IInv, TypeOK, PromisesMatchStatus, NoCtorCycleBegun, StartedObjectsExact, Carries,
         Built, Begun, contextStartResolves, defVars, stopVars
<1>. QED BY <1>1, <1>2, <1>3, <1>4, <1>5, OrderCarried DEF IInv

LEMMA ContextStartRejectsStep ==
  ASSUME IInv, contextStartRejects
  PROVE  IInv'
<1>1. TypeOK'
  BY DEF IInv, TypeOK, Promise, LifecycleState, StartCall, StopCall,
         contextStartRejects, defVars, stopVars
<1>2. PromisesMatchStatus'
  BY AcceptedStatus DEF IInv, TypeOK, PromisesMatchStatus, StartedObjectsExact, Built, Begun, HasRun, StopCall,
         CallsMatchStatus, contextStartRejects, defVars, stopVars
<1>3. CallsMatchStatus'
  BY SameGraph, AcceptedStatus DEF IInv, TypeOK, CallsMatchStatus, PromisesMatchStatus, StartedObjectsExact,
         ResolvedStartIsReady, contextStartRejects, defVars, stopVars
<1>4. StartedObjectsExact'
  BY DEF IInv, TypeOK, PromisesMatchStatus, StartedObjectsExact, contextStartRejects, defVars, stopVars
<1>5. Carries
  BY DEF IInv, TypeOK, PromisesMatchStatus, NoCtorCycleBegun, StartedObjectsExact, Carries,
         Built, Begun, contextStartRejects, defVars, stopVars
<1>. QED BY <1>1, <1>2, <1>3, <1>4, <1>5, OrderCarried DEF IInv

LEMMA ContextStopStep ==
  ASSUME IInv, contextStop
  PROVE  IInv'
<1>1. TypeOK'
  BY DEF IInv, TypeOK, Promise, LifecycleState, StartCall, StopCall,
         contextStop, defVars, stopVars
<1>2. PromisesMatchStatus'
  BY AcceptedStatus DEF IInv, TypeOK, PromisesMatchStatus, StartedObjectsExact, Built, Begun, HasRun, StopCall,
         CallsMatchStatus, contextStop, defVars, stopVars
<1>3. CallsMatchStatus'
  BY SameGraph, AcceptedStatus DEF IInv, TypeOK, CallsMatchStatus, PromisesMatchStatus, StartedObjectsExact,
         ResolvedStartIsReady, contextStop, defVars, stopVars
<1>4. StartedObjectsExact'
  BY DEF IInv, TypeOK, PromisesMatchStatus, StartedObjectsExact, contextStop, defVars, stopVars
<1>5. Carries
  BY DEF IInv, TypeOK, PromisesMatchStatus, NoCtorCycleBegun, StartedObjectsExact, Carries,
         Built, Begun, contextStop, defVars, stopVars
<1>. QED BY <1>1, <1>2, <1>3, <1>4, <1>5, OrderCarried DEF IInv

LEMMA ContextDoStopStep ==
  ASSUME IInv, contextDoStop
  PROVE  IInv'
<1>1. TypeOK'
  BY DEF IInv, TypeOK, Promise, LifecycleState, StartCall, StopCall,
         contextDoStop, defVars, stopVars
<1>2. PromisesMatchStatus'
  BY DEF IInv, TypeOK, PromisesMatchStatus, StartedObjectsExact, Built, Begun, HasRun, StopCall,
         CallsMatchStatus, contextDoStop, defVars, stopVars
<1>3. CallsMatchStatus'
  <2>1. ASSUME startCall = "ok", NEW d \in cfg.eager, ~Circular(d)
        PROVE  d \in Defs /\ d \in started
    <3>1. d \in Defs
      BY CfgType DEF IInv
    <3>2. status[d] \in HasRun
      BY <2>1, <3>1, ReadyIsResolved
         DEF IInv, ResolvedStartIsReady, Awaited, PromisesMatchStatus
    <3>3. status[d] # "STOPPED"
      BY <3>1 DEF IInv, PromisesMatchStatus, contextDoStop
    <3>. QED BY <3>1, <3>2, <3>3 DEF IInv, StartedObjectsExact, HasRun
  <2>2. startCall' = "ok" => \A d \in cfg'.eager : ~Circular(d)' => stopped'[d] # "none"
    BY <2>1, SameGraph DEF contextDoStop
  <2>. QED BY <2>2 DEF IInv, CallsMatchStatus, contextDoStop
<1>4. StartedObjectsExact'
  BY DEF IInv, TypeOK, PromisesMatchStatus, StartedObjectsExact, contextDoStop, defVars, stopVars
<1>5. Carries
  BY DEF IInv, TypeOK, PromisesMatchStatus, NoCtorCycleBegun, StartedObjectsExact, Carries,
         Built, Begun, contextDoStop, defVars, stopVars
<1>. QED BY <1>1, <1>2, <1>3, <1>4, <1>5, OrderCarried DEF IInv

LEMMA ContextStopResolvesStep ==
  ASSUME IInv, contextStopResolves
  PROVE  IInv'
<1>1. TypeOK'
  BY DEF IInv, TypeOK, Promise, LifecycleState, StartCall, StopCall,
         StopSettles, contextStopResolves, defVars, stopVars
<1>2. PromisesMatchStatus'
  BY DEF IInv, TypeOK, PromisesMatchStatus, StartedObjectsExact, Built, Begun, HasRun, StopCall,
         CallsMatchStatus, StopSettles, contextStopResolves, defVars, stopVars
<1>3. CallsMatchStatus'
  BY SameGraph DEF IInv, TypeOK, CallsMatchStatus, PromisesMatchStatus, StartedObjectsExact,
         ResolvedStartIsReady, StopSettles, contextStopResolves, defVars, stopVars
<1>4. StartedObjectsExact'
  BY DEF IInv, TypeOK, PromisesMatchStatus, StartedObjectsExact, StopSettles, contextStopResolves, defVars, stopVars
<1>5. Carries
  BY DEF IInv, TypeOK, PromisesMatchStatus, NoCtorCycleBegun, StartedObjectsExact, Carries,
         Built, Begun, StopSettles, contextStopResolves, defVars, stopVars
<1>. QED BY <1>1, <1>2, <1>3, <1>4, <1>5, OrderCarried DEF IInv

LEMMA ContextStopRejectsStep ==
  ASSUME IInv, contextStopRejects
  PROVE  IInv'
<1>1. TypeOK'
  BY DEF IInv, TypeOK, Promise, LifecycleState, StartCall, StopCall,
         StopSettles, contextStopRejects, defVars, stopVars
<1>2. PromisesMatchStatus'
  BY DEF IInv, TypeOK, PromisesMatchStatus, StartedObjectsExact, Built, Begun, HasRun, StopCall,
         CallsMatchStatus, StopSettles, contextStopRejects, defVars, stopVars
<1>3. CallsMatchStatus'
  BY SameGraph DEF IInv, TypeOK, CallsMatchStatus, PromisesMatchStatus, StartedObjectsExact,
         ResolvedStartIsReady, StopSettles, contextStopRejects, defVars, stopVars
<1>4. StartedObjectsExact'
  BY DEF IInv, TypeOK, PromisesMatchStatus, StartedObjectsExact, StopSettles, contextStopRejects, defVars, stopVars
<1>5. Carries
  BY DEF IInv, TypeOK, PromisesMatchStatus, NoCtorCycleBegun, StartedObjectsExact, Carries,
         Built, Begun, StopSettles, contextStopRejects, defVars, stopVars
<1>. QED BY <1>1, <1>2, <1>3, <1>4, <1>5, OrderCarried DEF IInv

LEMMA NextInvariant == IInv /\ [Next]_vars => IInv'
<1>. SUFFICES ASSUME IInv, [Next]_vars PROVE IInv'
  OBVIOUS
<1>1. CASE UNCHANGED vars
  <2>1. /\ TypeOK'
        /\ PromisesMatchStatus'
        /\ StartedObjectsExact'
        /\ Carries
    BY <1>1 DEF IInv, TypeOK, PromisesMatchStatus, StartedObjectsExact, Carries,
                vars, defVars, ctxVars, stopVars
  <2>2. CallsMatchStatus'
    BY <1>1, SameGraph DEF IInv, CallsMatchStatus, vars, ctxVars, stopVars
  <2>. QED BY <2>1, <2>2, OrderCarried DEF IInv
<1>2. CASE \E d \in Defs : getObjectByName(d) \/ ObjectStep(d)
  BY <1>2, GetObjectByNameStep, ConstructsStep, InstantiateRejectsStep, SetAllPropertiesStep,
     PropertyRejectsStep, LcStartStep, DoStartResolvesStep, DoStartRejectsStep,
     DoStopResolvesStep, DoStopRejectsStep DEF ObjectStep
<1>3. CASE contextStart \/ contextStop \/ ContextStep
  BY <1>3, ContextStartStep, ContextStopStep, ContextDoStartStep, ContextStartResolvesStep,
     ContextStartRejectsStep, ContextDoStopStep, ContextStopResolvesStep,
     ContextStopRejectsStep DEF ContextStep
<1>. QED BY <1>1, <1>2, <1>3 DEF Next

LEMMA InvariantHolds == Spec => []IInv
BY InitInvariant, NextInvariant, PTL DEF Spec

-----------------------------------------------------------------------------
(* The theorems.                                                             *)

(* The model is well typed, whatever is registered.                          *)
THEOREM TypeCorrect == Spec => []TypeOK
<1>1. IInv => TypeOK
  BY DEF IInv
<1>. QED BY <1>1, InvariantHolds, PTL

(* Constructors run over ready arguments, and start functions over ready     *)
(* dependencies, for every dependency graph, cyclic or not.                  *)
THEOREM WiringIsOrdered == Spec => []WiringOrder
<1>1. IInv => WiringOrder
  BY DEF IInv
<1>. QED BY <1>1, InvariantHolds, PTL

(* Where no cycle can be reached, the whole graph below an object that       *)
(* starts has started: the set of acyclic started definitions is closed      *)
(* under Uses, so it holds the closure.                                      *)
THEOREM StartsBottomUp == Spec => []StartedBottomUp
<1>1. ASSUME IInv PROVE StartedBottomUp
  <2>. SUFFICES ASSUME NEW d \in Defs, ~Circular(d), IsAtOrAfter(status[d], "STARTING")
                PROVE  \A e \in Closure(Uses, Uses[d]) : IsAtOrAfter(status[e], "STARTED")
    BY DEF StartedBottomUp
  <2>. DEFINE X == {e \in Defs : ~Circular(e) /\ IsAtOrAfter(status[e], "STARTED")}
  <2>1. ASSUME NEW x \in Defs, ~Circular(x), IsAtOrAfter(status[x], "STARTING")
        PROVE  Uses[x] \subseteq X
    <3>1. \A e \in Uses[x] : e \in Defs /\ ~Circular(e)
      BY <1>1, <2>1, AcyclicBelow, CfgType DEF Circular, IInv
    <3>2. \A e \in Uses[x] : Ready(e)
      BY <1>1, <2>1 DEF IInv, WiringOrder
    <3>. QED BY <3>1, <3>2 DEF Ready
  <2>2. \A e \in Defs : IsAtOrAfter(status[e], "STARTED") => IsAtOrAfter(status[e], "STARTING")
    BY <1>1, NoPropertiesSet, StatusOrder DEF IInv, Begun, HasRun
  <2>3. Uses[d] \subseteq X /\ \A y \in X : Uses[y] \subseteq X
    BY <2>1, <2>2
  <2>4. Closure(Uses, Uses[d]) \subseteq X
    <3>. HIDE DEF X
    <3>. QED BY <2>3, ClosureLeast DEF X
  <2>. QED BY <2>4
<1>. QED BY <1>1, InvariantHolds, PTL

(* A constructor cycle is never built, and never part of a started context.  *)
THEOREM CtorCyclesAreRefused == Spec => []CtorCyclesRefused
<1>1. ASSUME IInv PROVE CtorCyclesRefused
  <2>. SUFFICES ASSUME NEW d \in Defs, CtorCircular(d), d \in cfg.eager, startCall = "ok"
                PROVE  FALSE
    BY <1>1 DEF CtorCyclesRefused, IInv, NoCtorCycleBegun
  <2>1. status[d] = "NOT_STARTED"
    BY <1>1 DEF IInv, NoCtorCycleBegun
  <2>2. Ready(d)
    BY <1>1 DEF IInv, ResolvedStartIsReady
  <2>. QED BY <2>1, <2>2 DEF Ready, IsAtOrAfter, IsBefore, Value
<1>. QED BY <1>1, InvariantHolds, PTL

(* A context whose start has resolved holds only ready non-lazy objects.     *)
THEOREM StartedContextsAreReady == Spec => []StartedContextIsReady
<1>1. IInv => StartedContextIsReady
  BY DEF IInv, ResolvedStartIsReady, CallsMatchStatus, StartedContextIsReady
<1>. QED BY <1>1, InvariantHolds, PTL

(* startedObjects is exact, so a stop reaches all that has started by then.  *)
THEOREM StartedObjectsAreExact == Spec => []StartedObjectsExact
<1>1. IInv => StartedObjectsExact
  BY DEF IInv
<1>. QED BY <1>1, InvariantHolds, PTL

(* A context that started and stopped has stopped its non-lazy objects.      *)
THEOREM ShutdownsAreClean == Spec => []CleanShutdown
<1>1. ASSUME IInv PROVE CleanShutdown
  <2>. SUFFICES ASSUME startCall = "ok", ctx = "STOPPED", NEW d \in cfg.eager, ~Circular(d)
                PROVE  status[d] = "STOPPED"
    BY DEF CleanShutdown
  <2>1. d \in Defs
    BY <1>1, CfgType DEF IInv
  <2>2. stopped[d] = "ok"
    BY <1>1, <2>1 DEF IInv, CallsMatchStatus
  <2>. QED BY <1>1, <2>1, <2>2 DEF IInv, PromisesMatchStatus
<1>. QED BY <1>1, InvariantHolds, PTL

(* The context and every definition implement the abstract status chain:     *)
(* each setStatus in this module is one that the code accepts.               *)
LEMMA ChainIsTheSame ==
  ASSUME NEW s \in LifecycleState, NEW t \in LifecycleState, IsBefore(s, t)
  PROVE  CtxChain!IsBefore(s, t) /\ t \in CtxChain!LifecycleState
BY DEF IsBefore, Value, LifecycleState,
       CtxChain!IsBefore, CtxChain!Value, CtxChain!LifecycleState

THEOREM ContextIsAChain == Spec => ContextImplementsChain
<1>1. Init => CtxChain!Init
  BY DEF Init, CtxChain!Init
<1>2. IInv /\ [Next]_vars => [CtxChain!Next]_ctx
  <2>. SUFFICES ASSUME IInv, Next, ctx' # ctx PROVE CtxChain!Next
    BY DEF vars, ctxVars
  <2>1. IsBefore(ctx, ctx') /\ ctx' \in LifecycleState /\ ctx \in LifecycleState
    <3>1. ctx \in LifecycleState
      BY DEF IInv, TypeOK
    <3>2. CASE contextStart \/ contextStop \/ ContextStep
      BY <3>1, <3>2 DEF contextStart, contextStop, ContextStep, contextDoStart,
         contextStartResolves, contextStartRejects, contextDoStop, contextStopResolves,
         contextStopRejects, StopSettles, Accepts, IInv, CallsMatchStatus,
         IsBefore, Value, LifecycleState
    <3>3. CASE \E d \in Defs : getObjectByName(d) \/ ObjectStep(d)
      BY <3>3 DEF ObjectStep, getObjectByName, constructs, instantiateRejects,
         setAllProperties, propertyRejects, lcStart, doStartResolves, doStartRejects,
         doStopResolves, doStopRejects, ctxVars
    <3>. QED BY <3>2, <3>3 DEF Next
  <2>. QED BY <2>1, ChainIsTheSame DEF CtxChain!Next, CtxChain!Advance
<1>. QED BY <1>1, <1>2, InvariantHolds, PTL DEF Spec, ContextImplementsChain, CtxChain!Spec

(* The statuses of one definition that follow each other in some step.       *)
Successors ==
  {<<"NOT_STARTED", "INSTANTIATING">>, <<"INSTANTIATING", "INSTANTIATED">>,
   <<"INSTANTIATED", "STARTING">>, <<"STARTING", "STARTED">>,
   <<"STARTED", "STOPPING">>, <<"STOPPING", "STOPPED">>}

LEMMA StatusSteps ==
  ASSUME IInv, Next, NEW d \in Defs
  PROVE  status'[d] = status[d] \/ <<status[d], status'[d]>> \in Successors
<1>1. ASSUME NEW D \in SUBSET Defs, getInstance(D)
      PROVE  status'[d] = status[d] \/ <<status[d], status'[d]>> \in Successors
  <2>1. Untouched(d) \/ Refused(d) \/ Begins(d)
    BY <1>1, GetInstanceEffect DEF IInv
  <2>. QED BY <2>1 DEF IInv, PromisesMatchStatus, Untouched, Refused, Begins, Successors
<1>2. ASSUME NEW x \in Defs, getObjectByName(x) \/ ObjectStep(x)
      PROVE  status'[d] = status[d] \/ <<status[d], status'[d]>> \in Successors
  <2>1. CASE getObjectByName(x) \/ setAllProperties(x)
    <3>1. {x} \in SUBSET Defs /\ cfg.prop[x] \in SUBSET Defs
      BY CfgType DEF IInv, Graph
    <3>. QED BY <1>1, <2>1, <3>1 DEF getObjectByName, setAllProperties
  <2>2. CASE constructs(x) \/ lcStart(x) \/ doStartResolves(x) \/ doStopResolves(x)
    BY <2>2 DEF IInv, TypeOK, PromisesMatchStatus, Successors, Injecting, Starting,
                defStatus, constructs, lcStart, doStartResolves, doStopResolves
  <2>3. CASE instantiateRejects(x) \/ propertyRejects(x) \/ doStartRejects(x) \/ doStopRejects(x)
    BY <2>3 DEF instantiateRejects, propertyRejects, doStartRejects, doStopRejects, defVars
  <2>. QED BY <1>2, <2>1, <2>2, <2>3 DEF ObjectStep
<1>3. CASE contextDoStart
  BY <1>1, <1>3, CfgType DEF contextDoStart, IInv
<1>4. CASE contextDoStop
  BY <1>4 DEF IInv, StartedObjectsExact, contextDoStop, Successors
<1>5. CASE \/ contextStart \/ contextStop \/ contextStartResolves \/ contextStartRejects
           \/ contextStopResolves \/ contextStopRejects
  BY <1>5 DEF contextStart, contextStop, contextStartResolves, contextStartRejects,
              contextStopResolves, contextStopRejects, StopSettles, defVars
<1>. QED BY <1>2, <1>3, <1>4, <1>5 DEF Next, ContextStep

LEMMA SuccessorsClimb ==
  ASSUME NEW d \in Defs, <<status[d], status'[d]>> \in Successors
  PROVE  DefChain(d)!Next
BY DEF Successors, DefChain!Next, DefChain!Advance, DefChain!IsBefore, DefChain!Value,
       DefChain!LifecycleState

THEOREM ObjectsAreChains == Spec => ObjectsImplementChain
<1>1. Init => \A d \in Defs : DefChain(d)!Init
  BY DEF Init, DefChain!Init
<1>2. IInv /\ [Next]_vars =>
        [\A d \in Defs : DefChain(d)!Next \/ UNCHANGED status[d]]_status
  <2>. SUFFICES ASSUME IInv, Next, NEW d \in Defs
                PROVE  DefChain(d)!Next \/ UNCHANGED status[d]
    BY DEF vars, defVars
  <2>. QED BY StatusSteps, SuccessorsClimb
<1>. QED BY <1>1, <1>2, InvariantHolds, PTL DEF Spec, ObjectsImplementChain

-----------------------------------------------------------------------------
(* Cycles do not deadlock.  Whatever somebody waits for has been asked for.  *)
AskedBelow ==
  /\ \A d \in Defs : wired[d] = "none" => inst[d] = "none"
  /\ \A d \in Defs : inst[d] \in {"pending", "ok"} => \A e \in cfg.ctor[d] : inst[e] # "none"
  /\ \A d \in injecting : \A e \in cfg.prop[d] : inst[e] # "none"
  /\ startCall \notin {"none", "called"} => \A e \in cfg.eager : inst[e] # "none"

LEMMA ClosureClosed ==
  ASSUME NEW G \in Graph, NEW D \in SUBSET Defs
  PROVE  /\ D \subseteq Closure(G, D)
         /\ \A x \in Closure(G, D) : G[x] \subseteq Closure(G, D)
BY DEF Closure, Graph

LEMMA GetInstanceAsks ==
  ASSUME TypeOK, NEW D \in SUBSET Defs, getInstance(D)
  PROVE  /\ \A d \in D : inst'[d] # "none"
         /\ \A d \in Defs : inst[d] # "none" => inst'[d] = inst[d]
         /\ \A d \in Defs : inst'[d] = inst[d] \/ inst'[d] = "err"
                            \/ \A e \in cfg.ctor[d] : inst'[e] # "none"
<1>. DEFINE asked   == {x \in D : ~CtorCircular(x)}
            refused == {d \in D : inst[d] = "none" /\ CtorCircular(d)}
            begun   == {d \in Closure(cfg.ctor, asked) : inst[d] = "none"}
<1>1. inst' = [d \in Defs |-> IF d \in refused THEN "err"
                              ELSE IF d \in begun THEN "pending" ELSE inst[d]]
  BY DEF getInstance
<1>2. /\ asked \subseteq Closure(cfg.ctor, asked)
      /\ \A x \in Closure(cfg.ctor, asked) : cfg.ctor[x] \subseteq Closure(cfg.ctor, asked)
  <2>1. asked \in SUBSET Defs
    OBVIOUS
  <2>. HIDE DEF asked
  <2>. QED BY <2>1, CfgType, ClosureClosed
<1>3. Closure(cfg.ctor, asked) \subseteq Defs
  BY DEF Closure
<1>4. \A d \in Closure(cfg.ctor, asked) : inst'[d] # "none"
  <2>. SUFFICES ASSUME NEW d \in Closure(cfg.ctor, asked) PROVE inst'[d] # "none"
    OBVIOUS
  <2>1. d \in Defs /\ (inst[d] = "none" => d \in begun)
    BY <1>3
  <2>. HIDE DEF asked, refused, begun
  <2>. QED BY <1>1, <2>1
<1>5. \A d \in D : d \in refused \/ d \in Closure(cfg.ctor, asked) \/ inst[d] # "none"
  <2>. SUFFICES ASSUME NEW d \in D, inst[d] = "none", ~CtorCircular(d)
                PROVE  d \in Closure(cfg.ctor, asked)
    OBVIOUS
  <2>1. d \in asked
    OBVIOUS
  <2>. QED BY <1>2, <2>1
<1>6. \A d \in Defs : /\ d \in refused \cup begun => inst[d] = "none"
                      /\ d \in begun => d \in Closure(cfg.ctor, asked)
  OBVIOUS
<1>. HIDE DEF asked, refused, begun
<1>7. \A d \in D : inst'[d] # "none"
  BY <1>1, <1>4, <1>5
<1>8. \A d \in Defs : inst[d] # "none" => inst'[d] = inst[d]
  BY <1>1, <1>6
<1>9. \A d \in Defs : inst'[d] = inst[d] \/ inst'[d] = "err"
                      \/ \A e \in cfg.ctor[d] : inst'[e] # "none"
  <2>. SUFFICES ASSUME NEW d \in Defs, inst'[d] # inst[d], inst'[d] # "err"
                PROVE  \A e \in cfg.ctor[d] : inst'[e] # "none"
    OBVIOUS
  <2>1. d \in Closure(cfg.ctor, asked)
    BY <1>1, <1>6
  <2>. QED BY <1>2, <1>4, <2>1
<1>. QED BY <1>7, <1>8, <1>9

LEMMA AskedCarried ==
  ASSUME TypeOK, AskedBelow, cfg' = cfg,
         \A d \in Defs : wired'[d] = "none" => inst'[d] = "none",
         \A d \in Defs : inst[d] # "none" => inst'[d] # "none",
         \A d \in Defs : \/ inst'[d] \in {"pending", "ok"} => inst[d] \in {"pending", "ok"}
                         \/ \A e \in cfg.ctor[d] : inst'[e] # "none",
         \A d \in injecting' : d \in injecting \/ \A e \in cfg.prop[d] : inst'[e] # "none",
         \/ startCall' \notin {"none", "called"} => startCall \notin {"none", "called"}
         \/ \A e \in cfg.eager : inst'[e] # "none"
  PROVE  AskedBelow'
<1>1. /\ \A d \in Defs : cfg.ctor[d] \subseteq Defs /\ cfg.prop[d] \subseteq Defs
      /\ cfg.eager \subseteq Defs /\ injecting \subseteq Defs
  BY CfgType DEF Graph, TypeOK
<1>. QED BY <1>1 DEF AskedBelow

LEMMA AskedStep ==
  ASSUME IInv, AskedBelow, [Next]_vars
  PROVE  AskedBelow'
<1>. USE DEF IInv
<1>1. CASE UNCHANGED vars
  BY <1>1 DEF vars, defVars, ctxVars, AskedBelow
<1>2. ASSUME NEW D \in SUBSET Defs, getInstance(D), cfg' = cfg,
             \A d \in injecting' : d \in injecting \/ cfg.prop[d] \subseteq D,
             \/ startCall' \notin {"none", "called"} => startCall \notin {"none", "called"}
             \/ cfg.eager \subseteq D
      PROVE  AskedBelow'
  <2>1. \A d \in Defs : wired'[d] = "none" => inst'[d] = "none"
    BY <1>2, GetInstanceEffect DEF AskedBelow, Untouched, Refused, Begins
  <2>. QED BY <1>2, <2>1, GetInstanceAsks, AskedCarried
<1>3. ASSUME NEW d \in Defs, getObjectByName(d)
      PROVE  AskedBelow'
  <2>1. {d} \in SUBSET Defs
    OBVIOUS
  <2>. QED BY <1>2, <1>3, <2>1 DEF getObjectByName, ctxVars
<1>4. ASSUME NEW d \in Defs, setAllProperties(d)
      PROVE  AskedBelow'
  <2>1. cfg.prop[d] \in SUBSET Defs
    BY CfgType DEF Graph
  <2>. QED BY <1>2, <1>4, <2>1 DEF setAllProperties, ctxVars
<1>5. CASE contextDoStart
  BY <1>2, <1>5, CfgType DEF contextDoStart
<1>6. ASSUME NEW d \in Defs, constructs(d) \/ instantiateRejects(d)
      PROVE  AskedBelow'
  <2>1. inst[d] = "pending" /\ \E v \in {"ok", "err"} : inst' = [inst EXCEPT ![d] = v]
    BY <1>6 DEF constructs, instantiateRejects
  <2>2. inst \in [Defs -> Promise] /\ wired \in [Defs -> Promise]
    BY DEF TypeOK
  <2>3. cfg' = cfg /\ injecting' = injecting /\ startCall' = startCall
    BY <1>6 DEF constructs, instantiateRejects, ctxVars
  <2>4. \A e \in Defs : wired'[e] = "none" => inst'[e] = "none"
    BY <1>6, <2>1, <2>2 DEF constructs, instantiateRejects, AskedBelow, PromisesMatchStatus
  <2>. QED BY <2>1, <2>2, <2>3, <2>4, AskedCarried
<1>7. ASSUME NEW d \in Defs,
             propertyRejects(d) \/ lcStart(d) \/ doStartResolves(d) \/ doStartRejects(d)
             \/ doStopResolves(d) \/ doStopRejects(d)
      PROVE  AskedBelow'
  BY <1>7 DEF propertyRejects, lcStart, doStartResolves, doStartRejects, doStopResolves,
     doStopRejects, defVars, ctxVars, AskedBelow, TypeOK
<1>8. CASE contextStart \/ contextStop \/ contextDoStop
  BY <1>8 DEF contextStart, contextStop, contextDoStop, defVars, AskedBelow
<1>9. CASE contextStartResolves \/ contextStartRejects \/ contextStopResolves \/ contextStopRejects
  <2>1. cfg' = cfg /\ inst' = inst /\ wired' = wired /\ injecting' = injecting
    BY <1>9 DEF contextStartResolves, contextStartRejects, contextStopResolves,
       contextStopRejects, StopSettles, defVars
  <2>2. startCall' \notin {"none", "called"} => startCall \notin {"none", "called"}
    BY <1>9 DEF contextStartResolves, contextStartRejects, contextStopResolves,
       contextStopRejects, StopSettles
  <2>. QED BY <2>1, <2>2, AskedCarried DEF AskedBelow
<1>. QED BY <1>1, <1>3, <1>4, <1>5, <1>6, <1>7, <1>8, <1>9 DEF Next, ObjectStep, ContextStep

(* What d waits for, it uses; it waits for the start of what reaches no      *)
(* cycle, and for the construction of the rest.                              *)
LEMMA WaitsAre ==
  ASSUME IInv, NEW d \in Defs, NEW e \in WaitsFor(d)
  PROVE  /\ e \in Uses[d] /\ wired[e] = "pending"
         /\ Circular(e) => inst[e] = "pending"
         /\ inst[d] = "pending" => e \in cfg.ctor[d]
<1>1. e \in Defs /\ Awaited(e) = "pending" /\ e \in Uses[d]
  BY DEF WaitsFor, Uses
<1>2. wired[e] = "pending" /\ (Circular(e) => inst[e] = "pending")
  BY <1>1 DEF Awaited, IInv, PromisesMatchStatus
<1>3. d \in injecting => inst[d] = "ok"
  BY DEF IInv, PromisesMatchStatus
<1>. QED BY <1>1, <1>2, <1>3 DEF WaitsFor, Injecting

(* In a circle of waits nobody is free of cycles, so all wait for            *)
(* constructions only, along constructor arguments.                          *)
LEMMA NoCircle ==
  ASSUME IInv, NEW D \in SUBSET Defs, \A d \in D : WaitsFor(d) \cap D # {}
  PROVE  D = {}
<1>1. \A d \in D : Circular(d)
  <2>. SUFFICES ASSUME NEW d \in D, ~Circular(d) PROVE FALSE
    OBVIOUS
  <2>. DEFINE X == {x \in D : ~Circular(x)}
  <2>1. \A x \in X : Uses[x] \cap X # {}
    <3>. SUFFICES ASSUME NEW x \in X PROVE Uses[x] \cap X # {}
      OBVIOUS
    <3>1. PICK e \in D : e \in WaitsFor(x)
      OBVIOUS
    <3>2. e \in Uses[x]
      BY <3>1, WaitsAre
    <3>3. ~Circular(e)
      BY <3>2, AcyclicBelow, CfgType DEF Circular, IInv
    <3>. QED BY <3>2, <3>3
  <2>2. X \in SUBSET Defs /\ d \in X
    OBVIOUS
  <2>. HIDE DEF X
  <2>3. Circular(d)
    BY <2>1, <2>2 DEF Circular, ReachesCycle
  <2>. QED BY <2>3
<1>. DEFINE Z == {z \in D : inst[z] = "pending"}
<1>2. \A d \in D : WaitsFor(d) \cap Z # {}
  BY <1>1, WaitsAre
<1>3. \A z \in Z : cfg.ctor[z] \cap Z # {}
  BY <1>2, WaitsAre
<1>4. ASSUME NEW z \in Z PROVE FALSE
  <2>1. Z \in SUBSET Defs /\ z \in Z /\ inst[z] = "pending" /\ z \in Defs
    OBVIOUS
  <2>2. CtorCircular(z)
    <3>. HIDE DEF Z
    <3>. QED BY <1>3, <2>1 DEF CtorCircular, ReachesCycle
  <2>. QED BY <2>1, <2>2 DEF IInv, NoCtorCycleBegun, PromisesMatchStatus
<1>. QED BY <1>2, <1>4

(* Who cannot move waits for somebody.                                       *)
LEMMA StuckWaits ==
  ASSUME IInv, AskedBelow, NEW d \in Defs, wired[d] = "pending", ~CanMove(d)
  PROVE  WaitsFor(d) # {}
<1>1. inst \in [Defs -> Promise] /\ wired \in [Defs -> Promise]
  BY DEF IInv, TypeOK
<1>2. \A e \in Defs : inst[e] # "none" => Awaited(e) \in {"pending", "ok", "err"}
  BY <1>1 DEF Awaited, Promise, AskedBelow
<1>3. cfg.ctor[d] \subseteq Defs /\ cfg.prop[d] \subseteq Defs
  BY CfgType DEF IInv, Graph
<1>4. CASE inst[d] = "pending"
  BY <1>2, <1>3, <1>4 DEF CanMove, AllResolved, SomeRejected, AskedBelow, WaitsFor
<1>5. CASE inst[d] = "ok"
  <2>1. Injecting(d)
    BY <1>5 DEF CanMove, Injecting, Starting, IInv, PromisesMatchStatus, Built, HasRun
  <2>2. d \in injecting
    BY <2>1 DEF Injecting
  <2>. QED BY <1>2, <1>3, <2>1, <2>2 DEF CanMove, AllResolved, SomeRejected, AskedBelow, WaitsFor
<1>6. inst[d] \in {"pending", "ok"}
  BY <1>1 DEF Promise, IInv, PromisesMatchStatus
<1>. QED BY <1>4, <1>5, <1>6

(* Whatever refers to what, and whatever fails or is stopped: no objects     *)
(* wait for each other in a circle, and while anybody waits there is an      *)
(* object that can move.  With finitely many definitions and the fairness of *)
(* the event loop that is what EveryPromiseSettles rests on.                 *)
THEOREM NobodyGetsStuck == Spec => []NobodyIsStuck
<1>1. Init => AskedBelow
  BY DEF Init, AskedBelow
<1>2. ASSUME IInv, AskedBelow PROVE NobodyIsStuck
  <2>. DEFINE P == {d \in Defs : wired[d] = "pending"}
  <2>1. ASSUME NEW d \in P PROVE \E e \in P : CanMove(e)
    <3>. SUFFICES ASSUME \A e \in P : ~CanMove(e) PROVE FALSE
      OBVIOUS
    <3>1. \A e \in P : WaitsFor(e) # {}
      BY <1>2, StuckWaits
    <3>2. \A e \in P : WaitsFor(e) \subseteq P
      BY <1>2, WaitsAre DEF WaitsFor
    <3>3. P = {}
      BY <1>2, <3>1, <3>2, NoCircle
    <3>. QED BY <3>3
  <2>2. startCall = "waiting" /\ ~AllResolved(cfg.eager) /\ ~SomeRejected(cfg.eager) => P # {}
    <3>. SUFFICES ASSUME startCall = "waiting", NEW e \in cfg.eager,
                         Awaited(e) \notin {"ok", "err"}
                  PROVE  P # {}
      BY DEF AllResolved, SomeRejected
    <3>1. e \in Defs /\ inst[e] # "none"
      BY <1>2, CfgType DEF IInv, AskedBelow
    <3>2. inst[e] \in Promise /\ wired[e] \in Promise /\ wired[e] # "none"
      BY <1>2, <3>1 DEF IInv, TypeOK, AskedBelow
    <3>3. wired[e] = "pending"
      BY <1>2, <3>1, <3>2 DEF IInv, PromisesMatchStatus, Awaited, Promise
    <3>. QED BY <3>1, <3>3
  <2>3. \A D \in SUBSET Defs : (\A d \in D : WaitsFor(d) \cap D # {}) => D = {}
    BY <1>2, NoCircle
  <2>. QED BY <2>1, <2>2, <2>3 DEF NobodyIsStuck
<1>. QED BY <1>1, <1>2, AskedStep, InitInvariant, NextInvariant, PTL DEF Spec
=============================================================================
