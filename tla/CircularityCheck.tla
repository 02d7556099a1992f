-------------------------- MODULE CircularityCheck --------------------------
(* The part of BaseSingletonDefinition.getInstance() that runs before it     *)
(* returns: the walk that looks for a cycle of constructor arguments, then   *)
(* instantiate(), which calls getInstance() on every argument, then the walk *)
(* that looks for a cycle of any kind.  All three recurse, each through a    *)
(* list of definitions; here the recursion is a stack of calls, with what    *)
(* each call has still to go through.  The lists are taken in any order, and *)
(* without repetitions: a second visit finds what the first one found.       *)
EXTENDS DependencyGraph, Naturals, FiniteSets, SequencesExt

CONSTANT MaxReferences  \* bound: how many references are configured

VARIABLES
  ctor,    \* ctor[d]: what the constructor arguments of d refer to
  prop,    \* prop[d]: what the properties of d refer to
  promise, \* instancePromise: "none", "rejected", "instantiated" (that of
           \* instantiate(): dependants need not wait for the start), "wired"
  asked,   \* the definitions asked from outside, for the properties only
  calls,   \* the definitions whose getInstance() runs, the innermost last
  argsLeft,\* the constructor arguments each of them has still to ask
  doing,   \* what the innermost does: "constructor" or "properties", its
           \* walks, or "instantiate"; "idle" if there is none
  trace,   \* the definitions on the walk, the parameter of the same name
  toCheck  \* the definitions that each of these has still to call

circularityVars == <<ctor, prop, promise, asked, calls, argsLeft, doing, trace, toCheck>>

CircularityInit ==
  /\ ctor = [d \in Defs |-> {}] /\ prop = [d \in Defs |-> {}]
  /\ promise = [d \in Defs |-> "none"] /\ asked = {}
  /\ calls = <<>> /\ argsLeft = <<>> /\ doing = "idle" /\ trace = <<>> /\ toCheck = <<>>

-----------------------------------------------------------------------------
(* Configuring a definition, which asserts that its status is NOT_STARTED:   *)
(* instantiate() has not been called.  Others may have been asked for.       *)

References(G) == {r \in Defs \X Defs : r[2] \in G[r[1]]}
Configurable(d) ==
  /\ doing = "idle" /\ promise[d] \in {"none", "rejected"}
  /\ Cardinality(References(ctor)) + Cardinality(References(prop)) < MaxReferences
  /\ UNCHANGED <<promise, asked, calls, argsLeft, doing, trace, toCheck>>

constructorParamByRef(d, e) ==
  /\ Configurable(d) /\ e \notin ctor[d]
  /\ ctor' = [ctor EXCEPT ![d] = @ \cup {e}] /\ UNCHANGED prop

setPropertyByRef(d, e) ==
  /\ Configurable(d) /\ e \notin prop[d]
  /\ prop' = [prop EXCEPT ![d] = @ \cup {e}] /\ UNCHANGED ctor

-----------------------------------------------------------------------------
(* getInstance() and instantiate().                                          *)

Uses == [d \in Defs |-> ctor[d] \cup prop[d]]

(* Mutant: the second walk follows the properties only.                      *)
WalkedByKind(walk) == IF walk = "constructor" THEN ctor ELSE prop

(* What a walk goes along.                                                   *)
Walked(walk) == IF walk = "constructor" THEN ctor ELSE Uses

Walk(walk, d) == doing' = walk /\ trace' = <<d>> /\ toCheck' = <<Walked(walk)[d]>>

(* The innermost call takes e off the list it goes through.                  *)
Taken(lists, e) == [lists EXCEPT ![Len(lists)] = @ \ {e}]

(* getInstance() of d; its callers have "rest" still to ask.                 *)
Call(d, rest) ==
  /\ calls' = Append(calls, d) /\ argsLeft' = Append(rest, ctor[d])
  /\ Walk("constructor", d)

(* Where instancePromise is set it returns that, and nothing changes.        *)
getInstance(d) ==
  /\ doing = "idle" /\ promise[d] = "none"
  /\ asked' = asked \cup {d} /\ Call(d, argsLeft)
  /\ UNCHANGED <<ctor, prop, promise>>

(* instantiate() comes to an argument that refers to e.                      *)
getParamDefinitionValue(e) ==
  /\ doing = "instantiate" /\ e \in Last(argsLeft)
  /\ IF promise[e] = "none" THEN Call(e, Taken(argsLeft, e))
     ELSE argsLeft' = Taken(argsLeft, e) /\ UNCHANGED <<calls, doing, trace, toCheck>>
  /\ UNCHANGED <<ctor, prop, promise, asked>>

(* It returns: only now is instancePromise set.                              *)
instantiate ==
  /\ doing = "instantiate" /\ Last(argsLeft) = {}
  /\ promise' = [promise EXCEPT ![Last(calls)] = "instantiated"]
  /\ Walk("properties", Last(calls))
  /\ UNCHANGED <<ctor, prop, asked, calls, argsLeft>>

Return(p) ==
  /\ promise' = [promise EXCEPT ![Last(calls)] = p]
  /\ calls' = Front(calls) /\ argsLeft' = Front(argsLeft)
  /\ doing' = IF Len(calls) = 1 THEN "idle" ELSE "instantiate"
  /\ trace' = <<>> /\ toCheck' = <<>>
  /\ UNCHANGED <<ctor, prop, asked>>

-----------------------------------------------------------------------------
(* checkConstructorCircularDependency() and hasPropertiesCircularDependency().*)

Walking == doing \in {"constructor", "properties"}

(* A definition is called with the trace of its caller, and is not on it.    *)
descend(e) ==
  /\ Walking /\ e \in Last(toCheck) /\ e \notin Range(trace)
  /\ trace' = Append(trace, e)
  /\ toCheck' = Append(Taken(toCheck, e), Walked(doing)[e])
  /\ UNCHANGED <<ctor, prop, promise, asked, calls, argsLeft, doing>>

(* It is on it: the first walk throws, through all its calls, and            *)
(* getInstance() catches; the second one answers true through all of them.   *)
circular(e) ==
  /\ Walking /\ e \in Last(toCheck) /\ e \in Range(trace)
  /\ Return(IF doing = "constructor" THEN "rejected" ELSE "instantiated")

(* A call that has come to the end of its list returns to the one before.    *)
ascend ==
  /\ Walking /\ Last(toCheck) = {} /\ Len(trace) > 1
  /\ trace' = Front(trace) /\ toCheck' = Front(toCheck)
  /\ UNCHANGED <<ctor, prop, promise, asked, calls, argsLeft, doing>>

(* The first call returns: no cycle.                                         *)
noneFound ==
  /\ Walking /\ Last(toCheck) = {} /\ Len(trace) = 1
  /\ IF doing = "properties" THEN Return("wired")
     ELSE /\ doing' = "instantiate" /\ trace' = <<>> /\ toCheck' = <<>>
          /\ UNCHANGED <<ctor, prop, promise, asked, calls, argsLeft>>

CircularityNext ==
  \/ \E d, e \in Defs : constructorParamByRef(d, e) \/ setPropertyByRef(d, e)
  \/ \E d \in Defs : getInstance(d) \/ getParamDefinitionValue(d) \/ descend(d) \/ circular(d)
  \/ instantiate \/ ascend \/ noneFound

(* The definitions of which instantiate() has begun.                         *)
Begun == {d \in Defs : promise[d] \in {"instantiated", "wired"}}

(* When nothing runs, what has begun is the closure, along constructor       *)
(* arguments, of what was asked for and not refused.                         *)
BegunIsAsked ==
  doing = "idle" => Begun = Closure(ctor, {d \in asked : ~ReachesCycle(ctor, d)})

(* The recursion does what ContextWiring takes it for, which asks the graph  *)
(* in one step.  A definition is refused exactly when a cycle of constructor *)
(* arguments can be reached from it, also one that it is not on; its promise *)
(* waits for the start exactly when no cycle of any kind can be reached.  No *)
(* getInstance() is entered again while it runs, though instancePromise,     *)
(* which would stop it, is not yet set.                                      *)
WalksExact ==
  [][/\ Len(calls') > Len(calls) => Last(calls') \notin Range(calls)
     /\ Len(calls') < Len(calls) =>
          promise'[Last(calls)] = IF ReachesCycle(ctor, Last(calls)) THEN "rejected"
                                  ELSE IF ReachesCycle(Uses, Last(calls)) THEN "instantiated"
                                  ELSE "wired"
     /\ BegunIsAsked'
    ]_circularityVars
=============================================================================
