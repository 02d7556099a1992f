--------------------------- MODULE ContextWiring ---------------------------
(* A context without parent (src/src/ioc/Context.ts) that starts, wires and  *)
(* stops singletons (BaseSingletonDefinition.ts), while clients ask it for   *)
(* objects by name whenever they like.                                       *)
(*                                                                           *)
(* Each definition builds one object: constructor arguments first, then the  *)
(* properties, then the start function.  getInstance() hands out one of two  *)
(* promises: the wired one, that resolves when the object has started, or,   *)
(* for a definition from which a dependency cycle can be reached, the one    *)
(* that resolves as soon as the object is constructed.                       *)
(*                                                                           *)
(* Synchronous code is one step; every wait for a promise ends one.  The     *)
(* order of the microtasks in between is left open.  Values and config       *)
(* parameters are not modelled, they never wait.                             *)
EXTENDS LifecycleStates, DependencyGraph

CONSTANT Configs    \* what may have been registered before the start

ASSUME ConfigsAssumption ==
  Configs \subseteq [ctor : Graph,           \* by constructor argument
                     prop : Graph,           \* by property
                     eager : SUBSET Defs]    \* the definitions not lazy

VARIABLES
  cfg,        \* the registrations; frozen, as registering needs NOT_STARTED
  status,     \* status[d]: the lifecycle status of definition d
  inst,       \* inst[d]: the promise of instantiate()
  wired,      \* wired[d]: wiredInstancePromise
  injecting,  \* the definitions whose setAllProperties() has run
  ctx,        \* the lifecycle status of the context
  startCall,  \* the lcStart() of the context that passed its first setStatus
  stopCall,   \* the lcStop() of the context that passed its first setStatus
  started,    \* context.startedObjects
  stopped     \* stopped[d]: the promise of lcStop() on definition d

defVars == <<status, inst, wired, injecting>>
ctxVars == <<ctx, startCall, stopCall>>
stopVars == <<started, stopped>>
vars == <<cfg, defVars, ctxVars, stopVars>>

Promise == {"none", "pending", "ok", "err"}

(* "called": setStatus done, doStart/doStop not yet run; "failing": lcStart  *)
(* waits for the lcStop it called because an object failed.                  *)
StartCall == {"none", "called", "waiting", "failing", "ok", "err"}
StopCall  == {"none", "called", "waiting", "ok", "err"}

TypeOK ==
  /\ cfg \in Configs
  /\ status \in [Defs -> LifecycleState]
  /\ inst \in [Defs -> Promise]
  /\ wired \in [Defs -> Promise]
  /\ injecting \in SUBSET Defs
  /\ ctx \in LifecycleState
  /\ startCall \in StartCall
  /\ stopCall \in StopCall
  /\ started \in SUBSET Defs
  /\ stopped \in [Defs -> Promise]

Init ==
  /\ cfg \in Configs
  /\ status = [d \in Defs |-> "NOT_STARTED"]
  /\ inst = [d \in Defs |-> "none"]
  /\ wired = [d \in Defs |-> "none"]
  /\ injecting = {}
  /\ ctx = "NOT_STARTED"
  /\ startCall = "none"
  /\ stopCall = "none"
  /\ started = {}
  /\ stopped = [d \in Defs |-> "none"]

-----------------------------------------------------------------------------
(* The graphs.                                                               *)

Uses == [d \in Defs |-> cfg.ctor[d] \cup cfg.prop[d]]

(* checkConstructorCircularDependency throws.                                *)
CtorCircular(d) == ReachesCycle(cfg.ctor, d)

(* hasPropertiesCircularDependency: a cycle of any kind can be reached from  *)
(* d, even if d itself is on none.                                           *)
Circular(d) == ReachesCycle(Uses, d)

(* Mutants: everybody waits for the construction only; or for the start.     *)
AwaitedInstance(d) == inst[d]
AwaitedWired(d) == wired[d]

(* What waiting for the promise of getInstance() of d means: instancePromise *)
(* is the wired promise, unless d is circular; then it is replaced by the    *)
(* wired one only when that has resolved.                                    *)
Awaited(d) == IF Circular(d) THEN inst[d] ELSE wired[d]

(* Mutant: settled is good enough.                                           *)
AllSettled(D) == \A d \in D : Awaited(d) \in {"ok", "err"}

(* PromiseUtil.map, that is Promise.all, over the instances of D.            *)
AllResolved(D)  == \A d \in D : Awaited(d) = "ok"
SomeRejected(D) == \E d \in D : Awaited(d) = "err"

(* Mutant: constructor cycles are not looked for.                            *)
getInstanceUnchecked(D) ==
  LET begun == {d \in Closure(cfg.ctor, D) : inst[d] = "none"}
      set(f, v) == [d \in Defs |-> IF d \in begun THEN v ELSE f[d]]
  IN /\ inst' = set(inst, "pending") /\ wired' = set(wired, "pending")
     /\ status' = set(status, "INSTANTIATING")

(* Mutant: an object that failed is built again for the next who asks.       *)
getInstanceAgain(D) ==
  LET begun == {d \in Closure(cfg.ctor, {x \in D : ~CtorCircular(x)}) :
                  wired[d] \in {"none", "err"}}
      set(f, v) == [d \in Defs |-> IF d \in begun THEN v ELSE f[d]]
  IN /\ inst' = set(inst, "pending") /\ wired' = set(wired, "pending")
     /\ status' = set(status, "INSTANTIATING")

(* getInstance() on each of D.  A definition asked for the first time is     *)
(* refused for a constructor cycle, or else begins to instantiate, which     *)
(* calls getInstance() on its constructor arguments before it returns.       *)
getInstance(D) ==
  LET refused == {d \in D : inst[d] = "none" /\ CtorCircular(d)}
      begun   == {d \in Closure(cfg.ctor, {x \in D : ~CtorCircular(x)}) :
                    inst[d] = "none"}
      answer(p) == [d \in Defs |-> IF d \in refused THEN "err"
                                   ELSE IF d \in begun THEN "pending" ELSE p[d]]
  IN /\ inst' = answer(inst)
     /\ wired' = answer(wired)
     /\ status' = [d \in Defs |->
                     IF d \in begun THEN "INSTANTIATING" ELSE status[d]]

(* setStatus on definition d; every caller below finds it accepted.          *)
defStatus(d, s) == status' = [status EXCEPT ![d] = s]
-----------------------------------------------------------------------------
(* The life of one object.                                                   *)

(* context.getObjectByName(d); asking again hands out the same promise.      *)
getObjectByName(d) ==
  /\ inst[d] = "none"
  /\ getInstance({d})
  /\ UNCHANGED <<cfg, injecting, ctxVars, stopVars>>

constructs(d) ==
  /\ inst[d] = "pending"
  /\ AllResolved(cfg.ctor[d])
  /\ defStatus(d, "INSTANTIATED")
  /\ inst' = [inst EXCEPT ![d] = "ok"]
  /\ UNCHANGED <<cfg, wired, injecting, ctxVars, stopVars>>

(* An argument was rejected, or the constructor threw.                       *)
instantiateRejects(d) ==
  /\ inst[d] = "pending"
  /\ AllResolved(cfg.ctor[d]) \/ SomeRejected(cfg.ctor[d])
  /\ inst' = [inst EXCEPT ![d] = "err"]
  /\ wired' = [wired EXCEPT ![d] = "err"]
  /\ UNCHANGED <<cfg, status, injecting, ctxVars, stopVars>>

setAllProperties(d) ==
  /\ inst[d] = "ok" /\ d \notin injecting
  /\ injecting' = injecting \cup {d}
  /\ getInstance(cfg.prop[d])
  /\ UNCHANGED <<cfg, ctxVars, stopVars>>

Injecting(d) == d \in injecting /\ status[d] = "INSTANTIATED" /\ wired[d] = "pending"

propertyRejects(d) ==
  /\ Injecting(d)
  /\ SomeRejected(cfg.prop[d])
  /\ wired' = [wired EXCEPT ![d] = "err"]
  /\ UNCHANGED <<cfg, status, inst, injecting, ctxVars, stopVars>>

(* All properties are set: lcStart() of the definition, up to the call of    *)
(* the start function.                                                       *)
lcStart(d) ==
  /\ Injecting(d)
  /\ AllResolved(cfg.prop[d])
  /\ defStatus(d, "STARTING")
  /\ UNCHANGED <<cfg, inst, wired, injecting, ctxVars, stopVars>>

Starting(d) == status[d] = "STARTING" /\ wired[d] = "pending"

(* The start function is done; the STARTED listener is the context's.        *)
doStartResolves(d) ==
  /\ Starting(d)
  /\ defStatus(d, "STARTED")
  /\ wired' = [wired EXCEPT ![d] = "ok"]
  /\ started' = started \cup {d}
  /\ UNCHANGED <<cfg, inst, injecting, ctxVars, stopped>>

doStartRejects(d) ==
  /\ Starting(d)
  /\ wired' = [wired EXCEPT ![d] = "err"]
  /\ UNCHANGED <<cfg, status, inst, injecting, ctxVars, stopVars>>

(* The shutdown function is done; so is the STOPPED listener.                *)
doStopResolves(d) ==
  /\ stopped[d] = "pending"
  /\ defStatus(d, "STOPPED")
  /\ stopped' = [stopped EXCEPT ![d] = "ok"]
  /\ started' = started \ {d}
  /\ UNCHANGED <<cfg, inst, wired, injecting, ctxVars>>

doStopRejects(d) ==
  /\ stopped[d] = "pending"
  /\ stopped' = [stopped EXCEPT ![d] = "err"]
  /\ UNCHANGED <<cfg, defVars, ctxVars, started>>

ObjectStep(d) ==
  \/ constructs(d) \/ instantiateRejects(d)
  \/ setAllProperties(d) \/ propertyRejects(d)
  \/ lcStart(d) \/ doStartResolves(d) \/ doStartRejects(d)
  \/ doStopResolves(d) \/ doStopRejects(d)

-----------------------------------------------------------------------------
(* The life of the context.  A lcStart or lcStop refused by its first        *)
(* setStatus changes nothing (module Lifecycle) and is not a step here.      *)

contextStart ==
  /\ Accepts(ctx, "STARTING")
  /\ ctx' = "STARTING"
  /\ startCall' = "called"
  /\ UNCHANGED <<cfg, defVars, stopCall, stopVars>>

(* Runs even if a lcStop() came right after the lcStart().                   *)
contextDoStart ==
  /\ startCall = "called"
  /\ startCall' = "waiting"
  /\ getInstance(cfg.eager)
  /\ UNCHANGED <<cfg, injecting, ctx, stopCall, stopVars>>

(* The last setStatus throws when a stop has overtaken the start.            *)
contextStartResolves ==
  /\ startCall = "waiting"
  /\ AllResolved(cfg.eager)
  /\ IF Accepts(ctx, "STARTED")
     THEN ctx' = "STARTED" /\ startCall' = "ok"
     ELSE startCall' = "err" /\ UNCHANGED ctx
  /\ UNCHANGED <<cfg, defVars, stopCall, stopVars>>

(* The first failure stops the context at once, whatever the other objects   *)
(* are doing; if it is being stopped already, that lcStop() rejects.         *)
contextStartRejects ==
  /\ startCall = "waiting"
  /\ SomeRejected(cfg.eager)
  /\ IF Accepts(ctx, "STOPPING")
     THEN ctx' = "STOPPING" /\ startCall' = "failing" /\ stopCall' = "called"
     ELSE startCall' = "err" /\ UNCHANGED <<ctx, stopCall>>
  /\ UNCHANGED <<cfg, defVars, stopVars>>

contextStop ==
  /\ Accepts(ctx, "STOPPING")
  /\ ctx' = "STOPPING"
  /\ stopCall' = "called"
  /\ UNCHANGED <<cfg, defVars, startCall, stopVars>>

(* lcStop() on what has started by now, in no order.                         *)
contextDoStop ==
  /\ stopCall = "called"
  /\ stopCall' = "waiting"
  /\ stopped' = [d \in Defs |-> IF d \in started THEN "pending" ELSE stopped[d]]
  /\ status' = [d \in Defs |-> IF d \in started THEN "STOPPING" ELSE status[d]]
  /\ UNCHANGED <<cfg, inst, wired, injecting, ctx, startCall, started>>

StopSettles(result) ==
  /\ stopCall = "waiting"
  /\ stopCall' = result
  /\ startCall' = IF startCall = "failing" THEN "err" ELSE startCall
  /\ UNCHANGED <<cfg, defVars, stopVars>>

(* Mutant: the promises of the objects are not awaited.                      *)
contextStopUnawaited == ctx' = "STOPPED" /\ StopSettles("ok")

contextStopResolves ==
  /\ \A d \in Defs : stopped[d] \in {"none", "ok"}
  /\ ctx' = "STOPPED"
  /\ StopSettles("ok")

contextStopRejects ==
  /\ \E d \in Defs : stopped[d] = "err"
  /\ UNCHANGED ctx
  /\ StopSettles("err")

ContextStep ==
  \/ contextDoStart \/ contextStartResolves \/ contextStartRejects
  \/ contextDoStop \/ contextStopResolves \/ contextStopRejects

Next ==
  \/ contextStart \/ contextStop \/ ContextStep
  \/ \E d \in Defs : getObjectByName(d) \/ ObjectStep(d)

Spec == Init /\ [][Next]_vars

(* The event loop runs every reaction of a settled promise, and constructors,*)
(* start and shutdown functions are assumed to settle.  Nobody has to start  *)
(* or stop the context or ask for an object.                                 *)
Fairness ==
  /\ \A d \in Defs : WF_vars(ObjectStep(d))
  /\ WF_vars(contextDoStart \/ contextStartResolves \/ contextStartRejects)
  /\ WF_vars(contextDoStop \/ contextStopResolves \/ contextStopRejects)

FairSpec == Spec /\ Fairness
-----------------------------------------------------------------------------
(* A dependant may hold e: constructed if e is circular, else started.       *)
Ready(e) ==
  IsAtOrAfter(status[e], IF Circular(e) THEN "INSTANTIATED" ELSE "STARTED")

(* No constructor runs before its arguments are ready, and no start function *)
(* before everything the object was given is: cycles, failures, clients and  *)
(* a stop in the middle make no difference.                                  *)
WiringOrder ==
  \A d \in Defs :
    /\ IsAtOrAfter(status[d], "INSTANTIATED") => \A e \in cfg.ctor[d] : Ready(e)
    /\ IsAtOrAfter(status[d], "STARTING") => \A e \in Uses[d] : Ready(e)

(* An object without a cycle below it starts only over a fully started       *)
(* subgraph: all it uses, directly or through others, has started before.    *)
StartedBottomUp ==
  \A d \in Defs :
    ~Circular(d) /\ IsAtOrAfter(status[d], "STARTING")
      => \A e \in Closure(Uses, Uses[d]) : IsAtOrAfter(status[e], "STARTED")

(* A constructor cycle is refused: neither its members nor what needs them   *)
(* is ever instantiated, and no context that must start one gets STARTED.    *)
CtorCyclesRefused ==
  \A d \in Defs : CtorCircular(d) =>
    /\ status[d] = "NOT_STARTED"
    /\ ~(d \in cfg.eager /\ startCall = "ok")

(* The promise of the context's lcStart resolves only when every non-lazy    *)
(* object is ready; with no cycle around, when all of them have started.     *)
StartedContextIsReady ==
  startCall = "ok" \/ ctx = "STARTED" => \A d \in cfg.eager : Ready(d)

(* startedObjects, maintained by listeners, is exactly the objects that run. *)
StartedObjectsExact ==
  started = {d \in Defs : status[d] \in {"STARTED", "STOPPING"}}

(* A context that did start and then stopped has stopped every non-lazy      *)
(* object that no cycle touches: none was still starting at the snapshot.    *)
CleanShutdown ==
  startCall = "ok" /\ ctx = "STOPPED"
    => \A d \in cfg.eager : ~Circular(d) => status[d] = "STOPPED"

(* No graph, no failure and no stop leaves a promise unanswered.             *)
EveryPromiseSettles ==
  /\ startCall \in {"called", "waiting", "failing"} ~> startCall \in {"ok", "err"}
  /\ stopCall \in {"called", "waiting"} ~> stopCall \in {"ok", "err"}
  /\ \A d \in Defs : wired[d] = "pending" ~> wired[d] \in {"ok", "err"}

(* The definitions whose unsettled promises d is waiting for.                *)
WaitsFor(d) ==
  {e \in Defs : /\ Awaited(e) = "pending"
                /\ \/ inst[d] = "pending" /\ e \in cfg.ctor[d]
                   \/ Injecting(d) /\ e \in cfg.prop[d]}

(* A reaction of d can run, or its start function can settle.                *)
CanMove(d) ==
  \/ inst[d] = "pending" /\ (AllResolved(cfg.ctor[d]) \/ SomeRejected(cfg.ctor[d]))
  \/ inst[d] = "ok" /\ d \notin injecting
  \/ Injecting(d) /\ (AllResolved(cfg.prop[d]) \/ SomeRejected(cfg.prop[d]))
  \/ Starting(d)

(* Cycles do not deadlock, as getInstance() hands out the promise of the     *)
(* construction where one can be reached: whatever refers to what, no        *)
(* definitions wait for each other in a circle.  So as long as an object is  *)
(* not done, or the start of the context waits, some object can move.        *)
NobodyIsStuck ==
  /\ \A D \in SUBSET Defs : (\A d \in D : WaitsFor(d) \cap D # {}) => D = {}
  /\ (\E d \in Defs : wired[d] = "pending")
        => \E d \in Defs : wired[d] = "pending" /\ CanMove(d)
  /\ startCall = "waiting" /\ ~AllResolved(cfg.eager) /\ ~SomeRejected(cfg.eager)
        => \E d \in Defs : wired[d] = "pending" /\ CanMove(d)

(* The context, and every definition, implements the status chain.  The      *)
(* second is \A d \in Defs : DefChain(d)!Spec in the form TLC evaluates.     *)
CtxChain == INSTANCE StatusChain WITH status <- ctx
ContextImplementsChain == CtxChain!Spec

DefChain(d) == INSTANCE StatusChain WITH status <- status[d]
ObjectsImplementChain ==
  /\ \A d \in Defs : DefChain(d)!Init
  /\ [][\A d \in Defs : DefChain(d)!Next \/ UNCHANGED status[d]]_status

-----------------------------------------------------------------------------
(* An expectation the code does not meet.                                    *)

(* test/ioc/Context.ts:120, 'an exception during the initialisation of a     *)
(* non-lazy object cancels the context initialisation': it does not when the *)
(* object can reach a cycle, as nobody waits for its wired promise.          *)
EagerFailureCancels ==
  \A d \in cfg.eager : wired[d] = "err" => ctx # "STARTED"

=============================================================================
