-------------------------- MODULE ContextRegistry --------------------------
(* What a Context knows and hands out (src/src/ioc/Context.ts): the          *)
(* registration of definitions, a parent and its children, clone(),          *)
(* importContext(), groups, the inspection at the start, the lookups and     *)
(* startedObjects.                                                           *)
(*                                                                           *)
(* How an object comes up by asynchronous steps is ContextWiring's subject:  *)
(* here a getInstance(), with all that it starts, is one step, references    *)
(* have no cycle and start functions do not fail.  A definition is <<b, t>>: *)
(* the code writes a blueprint b, and t tells the original from a copy.      *)
EXTENDS Naturals, Sequences, FiniteSets

CONSTANTS
  Blueprint,   \* Blueprint[b], a definition the application writes: its name,
               \* class, parameters and decorators
  twin,        \* the context that clone() adds
  Assemblies,  \* bound: the contexts there are, with their parents, the
               \* definitions there are, and whether one may be cloned or imported
  MaxGets      \* bound: the calls of getObject*

None == "none"

(* A parent has no parent itself: lcStart() of a context is two levels deep  *)
(* here.  The code has nothing against more.                                 *)
ASSUME RegistryAssumption ==
  /\ twin \notin {None, "new", "written"}
  /\ \A a \in Assemblies :
       /\ IsFiniteSet(a.blueprints)
       /\ \A b \in a.blueprints : LET n == Len(Blueprint[b].params)
                                 IN n \in Nat /\ DOMAIN Blueprint[b].params = 1..n
       /\ {twin, None} \cap DOMAIN a.parents = {}
       /\ \A c \in DOMAIN a.parents : a.parents[c] # None =>
            a.parents[c] \in DOMAIN a.parents /\ a.parents[a.parents[c]] = None

VARIABLES
  assembly,  \* the assembly this is
  parent,    \* parentContext
  lc,        \* status of the contexts
  starts,    \* starts[c]: the lcStart() call of c
  defs,      \* objectDefinitions: names to definitions
  groups,    \* objectGroups: names to sequences of names
  started,   \* startedObjects: names to definitions
  inspected, \* the context whose objects have been inspected, in mid-step
  def,       \* the definitions that exist
  resolved,  \* ParamDefinition.objectDefinitions, by parameter
  awaits,    \* awaits[c]: the objects whose lcStop() c waits for
  gets,      \* how often an object was asked for
  late,      \* for the invariants: the objects started for a context after its
             \* stop,
  replaced   \* and the names whose definition another took the place of

registryVars == <<assembly, parent, lc, starts, defs, groups, started, inspected, def, resolved, awaits, gets, late, replaced>>
history == <<late, replaced>>
contextMaps == <<assembly, parent, starts, groups, gets>>

Contexts == DOMAIN assembly.parents \cup {twin}
Live == DOMAIN parent
Missing == <<None, None>>
ContextDefinition(c) == <<"__CONTEXT__", c>>

NameOf(d) == IF d[1] = "__CONTEXT__" THEN d[1] ELSE Blueprint[d[1]].name
ClassOf(d) == IF d[1] = "__CONTEXT__" THEN "Context" ELSE Blueprint[d[1]].clazz
Preinstantiated(d) == d[1] = "__CONTEXT__"
Decorated(d) == ~Preinstantiated(d) /\ Blueprint[d[1]].decorated

Values(f) == {f[x] : x \in DOMAIN f}

(* f, and what g has besides.                                                *)
Over(f, g) == [x \in DOMAIN f \cup DOMAIN g |-> IF x \in DOMAIN f THEN f[x] ELSE g[x]]
Own(c) == {d \in Values(defs[c]) : NameOf(d) # "__CONTEXT__"}

(* A ParamDefinition: the i-th the application wrote for b, which copies     *)
(* share, or the i-th that an inspector made for the definition <<b, t>>.    *)
Written(b) == [i \in DOMAIN Blueprint[b].params |-> <<b, "written", i>>]
ParamAt(p) == IF p[2] = "written" THEN Blueprint[p[1]].params[p[3]] ELSE Blueprint[p[1]].wired

NewDefinition(b) ==
  [ctx |-> None, lazy |-> Blueprint[b].decorated \/ Blueprint[b].lazy,
   status |-> "NOT_STARTED", injected |-> {}, params |-> Written(b), hears |-> {}]
NewContextDefinition(c) ==
  [ctx |-> c, lazy |-> FALSE, status |-> "NOT_STARTED", injected |-> {},
   params |-> <<>>, hears |-> {c}]

RegistryInit ==
  /\ assembly \in Assemblies
  /\ parent = assembly.parents
  /\ lc = [c \in Contexts |-> "NOT_STARTED"]
  /\ starts = [c \in Contexts |-> "idle"]
  /\ defs = [c \in Contexts |->
               [n \in IF c \in Live THEN {"__CONTEXT__"} ELSE {} |-> ContextDefinition(c)]]
  /\ groups = [c \in Contexts |-> <<>>]
  /\ started = [c \in Contexts |-> <<>>]
  /\ inspected = None
  /\ def = Over([d \in {"__CONTEXT__"} \X Live |-> NewContextDefinition(d[2])],
                [d \in assembly.blueprints \X {"new"} |-> NewDefinition(d[1])])
  /\ resolved = <<>>
  /\ awaits = [c \in Contexts |-> {}]
  /\ gets = 0
  /\ late = {} /\ replaced = {}

-----------------------------------------------------------------------------
(* Registration                                                              *)

ByName(D) == [n \in {NameOf(d) : d \in D} |-> CHOOSE d \in D : NameOf(d) = n]

Refused(c, d, overwrite) ==
  \/ ~overwrite /\ NameOf(d) \in DOMAIN defs[c]
  \/ parent[c] # None /\ NameOf(d) \in DOMAIN defs[parent[c]]

(* Mutant: a definition that changes hands gets no listener of its new context. *)
EnterUnheard(c, D) ==
  /\ defs' = [defs EXCEPT ![c] = Over(ByName(D), @)]
  /\ def' = [d \in DOMAIN def |->
               IF d \in D /\ def[d].status = "NOT_STARTED"
               THEN [def[d] EXCEPT !.ctx = c, !.hears = IF @ = {} THEN {c} ELSE @]
               ELSE def[d]]
  /\ UNCHANGED replaced

(* The definitions D enter the map; setContext() then refuses one that is not *)
(* NOT_STARTED any more, which keeps its context and gets no listeners.       *)
Enter(c, D) ==
  /\ defs' = [defs EXCEPT ![c] = Over(ByName(D), @)]
  /\ def' = [d \in DOMAIN def |->
               IF d \in D /\ def[d].status = "NOT_STARTED"
               THEN [def[d] EXCEPT !.ctx = c, !.hears = @ \cup {c}] ELSE def[d]]
  /\ replaced' = replaced \cup {<<c, NameOf(d)>> : d \in {e \in D :
                     NameOf(e) \in DOMAIN defs[c] /\ defs[c][NameOf(e)] # e}}

registerDefinition(c, d, overwrite) ==
  /\ lc[c] = "NOT_STARTED" /\ def[d] = NewDefinition(d[1])
  /\ ~Refused(c, d, overwrite)
  /\ Enter(c, {d})
  /\ UNCHANGED <<contextMaps, lc, started, inspected, resolved, awaits, late>>

(* The definitions themselves change hands.  The first that is refused, or   *)
(* has started, ends the loop: some of the others may have been entered.     *)
importContext(c, other, overwrite) ==
  LET accepted == {d \in Own(other) : ~Refused(c, d, overwrite)}
      clean == {d \in accepted : def[d].status = "NOT_STARTED"}
  IN /\ "import" \in assembly.may /\ c # other /\ lc[c] = "NOT_STARTED" /\ lc[other] = "NOT_STARTED"
     /\ \E D \in SUBSET clean, last \in SUBSET (Own(other) \ clean) :
          /\ D \cup last # {}
          /\ IF clean = Own(other) THEN D = clean ELSE Cardinality(last) = 1
          /\ Enter(c, D \cup (last \cap accepted))
     /\ UNCHANGED <<contextMaps, lc, started, inspected, resolved, awaits, late>>

(* Every definition is copied with its parameters: the list is new, the      *)
(* ParamDefinitions in it are the same.                                      *)
copyOf(d) == <<d[1], twin>>
clone(c) ==
  LET copies == [e \in {copyOf(d) : d \in Own(c)} |->
                   LET d == CHOOSE x \in Own(c) : copyOf(x) = e
                   IN [NewDefinition(d[1]) EXCEPT !.ctx = twin, !.hears = {twin},
                         !.lazy = def[d].lazy, !.params = def[d].params]]
  IN /\ "clone" \in assembly.may /\ lc[c] = "NOT_STARTED" /\ twin \notin Live
     /\ \A d \in Own(c) : ~Refused(c, d, TRUE)
     /\ parent' = [x \in Live \cup {twin} |-> parent[IF x = twin THEN c ELSE x]]
     /\ defs' = [defs EXCEPT ![twin] = ByName(DOMAIN copies \cup {ContextDefinition(twin)})]
     /\ def' = Over(copies, Over(def, [d \in {ContextDefinition(twin)} |-> NewContextDefinition(twin)]))
     /\ UNCHANGED <<assembly, lc, starts, groups, started, inspected, resolved, awaits, gets, history>>

-----------------------------------------------------------------------------
(* Lookups.  Missing where the code throws.                                  *)

Visible == [c \in Live |-> IF parent[c] = None THEN defs[c] ELSE Over(defs[c], defs[parent[c]])]

getDefinitionByName(c, n) == IF n \in DOMAIN Visible[c] THEN Visible[c][n] ELSE Missing

Producing(c, t) == {d \in Values(defs[c]) : ClassOf(d) = t}

(* Those of the parent first; a definition of the context takes the place of *)
(* one with the same name, if it produces the class as well.                 *)
getDefinitionsByType(c, t) ==
  LET own == Producing(c, t)
      names == {NameOf(d) : d \in own}
      all == own \cup IF parent[c] = None THEN {}
                      ELSE {d \in Producing(parent[c], t) : NameOf(d) \notin names}
  IN IF all = {} THEN {Missing} ELSE all

getDefinitionByType(c, t) ==
  LET all == getDefinitionsByType(c, t)
  IN IF Cardinality(all) > 1 THEN Missing ELSE CHOOSE d \in all : TRUE

(* A context asks only its own groups; the names may be the parent's.        *)
getGroupObjectNames(c, g) == IF g \in DOMAIN groups[c] THEN groups[c][g] ELSE <<>>
getDefinitionsByGroup(c, g) ==
  LET names == getGroupObjectNames(c, g)
  IN [i \in DOMAIN names |-> getDefinitionByName(c, names[i])]

resolveParamObjectDefinition(p, c) ==
  LET param == ParamAt(p) IN
  CASE p \in DOMAIN resolved     -> resolved[p]
    [] param.type = "ref"        -> {getDefinitionByName(c, param.target)}
    [] param.type = "type"       -> {getDefinitionByType(c, param.target)}
    [] param.type = "typeArray"  -> getDefinitionsByType(c, param.target)
    [] param.type = "group"      -> Values(getDefinitionsByGroup(c, param.target))

(* The parameters are resolved in their order, up to the first that throws.  *)
Targets(d, i) == resolveParamObjectDefinition(def[d].params[i], def[d].ctx)
ResolvedParams(d) ==
  {i \in DOMAIN def[d].params : \A j \in 1..i : Missing \notin Targets(d, j)}
Given(d) == UNION {Targets(d, i) : i \in ResolvedParams(d)}

(* What getInstance() of the definitions D comes to, at most every           *)
(* definition: the parameters of what has not started, again and again.      *)
Reached(D) ==
  LET within[n \in Nat] ==
        IF n = 0 THEN D
        ELSE LET S == within[n - 1]
             IN S \cup UNION {Given(d) : d \in {e \in S : def[e].status = "NOT_STARTED"}}
  IN D \cup within[Cardinality(DOMAIN def)]

(* getInstance() of d rejects: something it reaches cannot be resolved, has  *)
(* failed before, or is a preinstantiated object that was stopped.           *)
Rejects(d) ==
  \E e \in Reached({d}) :
    \/ def[e].status = "BROKEN"
    \/ def[e].status = "NOT_STARTED" /\ ResolvedParams(e) # DOMAIN def[e].params
    \/ Preinstantiated(e) /\ def[e].status \in {"STOPPING", "STOPPED"}

Fresh(D) == {d \in Reached(D) : def[d].status = "NOT_STARTED"}

(* The objects that a step has settled, and those that it has started.       *)
Settled == {d \in DOMAIN def : def[d].status = "NOT_STARTED" /\ def'[d].status # "NOT_STARTED"}
Started == {d \in Settled : def'[d].status = "STARTED"}

(* getInstance() of the definitions D.                                       *)
Instantiate(D) ==
  /\ \E fresh \in {Fresh(D)} :
       def' = [d \in DOMAIN def |->
                 IF d \notin fresh THEN def[d]
                 ELSE [def[d] EXCEPT !.status = IF Rejects(d) THEN "BROKEN" ELSE "STARTED",
                                     !.injected = Given(d)]]
  /\ \E params \in {{x \in Settled \X (1..3) : x[2] \in ResolvedParams(x[1])}} :
       resolved' = Over([p \in {def[x[1]].params[x[2]] : x \in params} |->
                           LET x == CHOOSE y \in params : def[y[1]].params[y[2]] = p
                           IN Targets(x[1], x[2])], resolved)
  /\ started' = [c \in Contexts |->
                   Over(ByName({d \in Started : c \in def[d].hears}), started[c])]
  /\ late' = late \cup {d \in Started : lc[def[d].ctx] \in {"STOPPING", "STOPPED"}}

Get(D) ==
  /\ gets < MaxGets /\ gets' = gets + 1
  /\ D # {} /\ Missing \notin D
  /\ Instantiate(D)
  /\ UNCHANGED <<assembly, parent, lc, starts, defs, groups, inspected, awaits, replaced>>

getObjectByName(c, n) == Get({getDefinitionByName(c, n)})
getObjectByType(c, t) == Get({getDefinitionByType(c, t)})
getObjectsByType(c, t) == Get(getDefinitionsByType(c, t))

(* One after the other: the first that rejects is the last.                  *)
getObjectsByGroup(c, g) ==
  LET D == getDefinitionsByGroup(c, g)
  IN \E k \in DOMAIN D :
       /\ \A i \in 1..(k - 1) : ~Rejects(D[i])
       /\ (k < Len(D) => Rejects(D[k]))
       /\ Missing \notin Values(D)
       /\ Get({D[i] : i \in 1..k})

-----------------------------------------------------------------------------
(* Start                                                                     *)

(* Mutant: the context starts without its parent.                            *)
lcStartAlone(c) ==
  /\ starts[c] = "idle" /\ lc[c] = "NOT_STARTED"
  /\ lc' = [lc EXCEPT ![c] = "STARTING"]
  /\ starts' = [starts EXCEPT ![c] = "begun"]
  /\ UNCHANGED <<assembly, parent, defs, groups, started, inspected, def, resolved, awaits, gets, history>>

(* A parent that has been told to start refuses: of its children only one    *)
(* ever starts, and none once it was started itself.                         *)
lcStart(c) ==
  /\ starts[c] = "idle"
  /\ LET top == IF parent[c] = None THEN c ELSE parent[c]
     IN IF lc[top] = "NOT_STARTED"
        THEN /\ lc' = [lc EXCEPT ![top] = "STARTING"]
             /\ starts' = [starts EXCEPT ![c] = "waiting", ![top] = "begun"]
        ELSE starts' = [starts EXCEPT ![c] = "failed"] /\ UNCHANGED lc
  /\ UNCHANGED <<assembly, parent, defs, groups, started, inspected, def, resolved, awaits, gets, history>>

(* parentContext.lcStart() has settled.                                      *)
superLcStart(c) ==
  /\ starts[c] = "waiting" /\ starts[parent[c]] \in {"done", "failed"}
  /\ IF starts[parent[c]] = "done" /\ lc[c] = "NOT_STARTED"
     THEN /\ lc' = [lc EXCEPT ![c] = "STARTING"]
          /\ starts' = [starts EXCEPT ![c] = "begun"]
     ELSE starts' = [starts EXCEPT ![c] = "failed"] /\ UNCHANGED lc
  /\ UNCHANGED <<assembly, parent, defs, groups, started, inspected, def, resolved, awaits, gets, history>>

(* The inspector of decorators: laziness, groups of the definition's present *)
(* context and one more parameter.  It throws on an object that has started, *)
(* which ends the start in STARTING.                                         *)
Inspect(D) ==
  /\ def' = [d \in DOMAIN def |->
       IF d \notin D THEN def[d]
       ELSE [def[d] EXCEPT !.lazy = Blueprint[d[1]].lazy,
               !.params = @ \o IF Blueprint[d[1]].wired.type = "nothing" THEN <<>>
                               ELSE <<<<d[1], d[2], Len(@)>>>>]]
  /\ groups' = [c \in Contexts |->
       LET joins == {d \in D : def[d].ctx = c /\ Blueprint[d[1]].group # "nothing"}
       IN Over([g \in {Blueprint[d[1]].group : d \in joins} |->
                  getGroupObjectNames(c, g) \o
                  LET new == {NameOf(d) : d \in {e \in joins : Blueprint[e[1]].group = g}}
                  IN CHOOSE s \in [1..Cardinality(new) -> new] : Values(s) = new], groups[c])]

(* Mutant: what is not loaded at the start is not inspected.                 *)
inspectEagerOnly(c) ==
  LET D == {d \in Own(c) : Decorated(d) /\ ~Blueprint[d[1]].lazy}
  IN /\ starts[c] = "begun"
     /\ Inspect({d \in D : def[d].status = "NOT_STARTED"})
     /\ inspected' = c
     /\ UNCHANGED <<assembly, parent, lc, starts, defs, started, resolved, awaits, gets, history>>

applyObjectDefinitionModifiers(c) ==
  LET D == {d \in Own(c) : Decorated(d)}
      clean == {d \in D : def[d].status = "NOT_STARTED"}
  IN /\ starts[c] = "begun"
     /\ IF clean = D
        THEN Inspect(D) /\ inspected' = c /\ UNCHANGED starts
        ELSE /\ \E E \in SUBSET clean : Inspect(E)
             /\ starts' = [starts EXCEPT ![c] = "failed"]
             /\ UNCHANGED inspected
     /\ UNCHANGED <<assembly, parent, lc, defs, started, resolved, awaits, gets, history>>

(* The rest of doStart(), at once after the inspection.                      *)
doStart(c) ==
  LET eager == {d \in Values(defs[c]) : ~def[d].lazy}
      fails == \E d \in eager : Rejects(d)
  IN /\ inspected = c
     /\ inspected' = None
     /\ Instantiate(eager)
     /\ lc' = [lc EXCEPT ![c] = IF fails THEN "FAILING" ELSE "STARTED"]
     /\ starts' = [starts EXCEPT ![c] = IF fails THEN "failed" ELSE "done"]
     /\ UNCHANGED <<assembly, parent, defs, groups, awaits, gets, replaced>>

-----------------------------------------------------------------------------
(* Stop                                                                      *)

(* FAILING is a start that has failed: lcStop() follows it.                  *)
Stoppable == {"NOT_STARTED", "STARTING", "FAILING", "STARTED"}

(* Everything in startedObjects is told to stop.  An object that another     *)
(* context is stopping already refuses: None among those awaited.            *)
BeginStop(c) ==
  LET told == Values(started[c])
      refuse == {d \in told : def[d].status # "STARTED"}
  IN /\ lc[c] \in Stoppable
     /\ lc' = [lc EXCEPT ![c] = "STOPPING"]
     /\ awaits' = [awaits EXCEPT ![c] = told \cup IF refuse = {} THEN {} ELSE {Missing}]
     /\ def' = [d \in DOMAIN def |-> IF d \in told THEN [def[d] EXCEPT !.status = "STOPPING"]
                                     ELSE def[d]]

lcStop(c) ==
  /\ BeginStop(c)
  /\ UNCHANGED <<contextMaps, defs, started, inspected, resolved, history>>

(* STOPPED: every context that ever registered d drops what it holds under   *)
(* the name.                                                                 *)
objectStopped(d) ==
  /\ def[d].status = "STOPPING"
  /\ def' = [def EXCEPT ![d].status = "STOPPED"]
  /\ started' = [c \in Contexts |->
       IF c \in def[d].hears
       THEN [n \in DOMAIN started[c] \ {NameOf(d)} |-> started[c][n]] ELSE started[c]]
  /\ UNCHANGED <<contextMaps, lc, defs, inspected, resolved, awaits, history>>

(* The context has stopped; its parent is next, unless it stops already.     *)
contextStopped(c) ==
  /\ lc[c] = "STOPPING" /\ \A d \in awaits[c] : d # Missing /\ def[d].status = "STOPPED"
  /\ LET p == parent[c] IN
     IF p # None /\ lc[p] \in Stoppable
     THEN \E told \in {Values(started[p])} :
            /\ lc' = [lc EXCEPT ![c] = "STOPPED", ![p] = "STOPPING"]
            /\ awaits' = [awaits EXCEPT ![p] =
                 told \cup IF \A d \in told : def[d].status = "STARTED" THEN {} ELSE {Missing}]
            /\ def' = [d \in DOMAIN def |->
                 IF d \in told THEN [def[d] EXCEPT !.status = "STOPPING"] ELSE def[d]]
     ELSE lc' = [lc EXCEPT ![c] = "STOPPED"] /\ UNCHANGED <<awaits, def>>
  /\ UNCHANGED <<contextMaps, defs, started, inspected, resolved, history>>

(* From STARTING to the end of doStart() a context is alone: what overtakes a *)
(* start is left to Lifecycle and ContextWiring.                             *)
RegistryNext ==
  \/ inspected # None /\ doStart(inspected)
  \/ inspected = None /\ \E c \in Live : applyObjectDefinitionModifiers(c)
  \/ /\ \A c \in Live : starts[c] # "begun"
     /\ \/ \E c \in Live :
             \/ lcStart(c) \/ superLcStart(c)
             \/ lcStop(c) \/ contextStopped(c) \/ clone(c)
             \/ \E o \in Live, overwrite \in BOOLEAN : importContext(c, o, overwrite)
             \/ \E b \in assembly.blueprints, overwrite \in BOOLEAN :
                  registerDefinition(c, <<b, "new">>, overwrite)
             \/ \E n \in DOMAIN Visible[c] : getObjectByName(c, n)
             \/ \E d \in Values(Visible[c]) :
                  getObjectByType(c, ClassOf(d)) \/ getObjectsByType(c, ClassOf(d))
             \/ \E g \in DOMAIN groups[c] : getObjectsByGroup(c, g)
        \/ \E d \in DOMAIN def : objectStopped(d)

-----------------------------------------------------------------------------
(* What a started context resolves is settled: neither it nor its parent     *)
(* takes another definition, whatever was registered, imported or started in *)
(* whichever order before (registerDefinition(), lcStart()).                 *)
LookupsFixed ==
  [][\A c \in Live : lc[c] = "STARTED" => Visible'[c] = Visible[c]]_registryVars

(* A stopped context leaves no object of its own started or still stopping,  *)
(* but one that was asked for after the stop, and one whose name another     *)
(* definition took: the stop of either definition takes the other out of     *)
(* startedObjects (registerDefinition(), doStop()).                          *)
NothingLeftRunning ==
  \A c \in Live : lc[c] = "STOPPED" =>
    \A d \in Values(defs[c]) :
      def[d].ctx = c /\ def[d].status \in {"STARTED", "STOPPING"} =>
        d \in late \/ <<c, NameOf(d)>> \in replaced

(* When a context has started, whoever is wired to a group by a decorator    *)
(* gets every object of the context that is decorated with it, lazy or not,  *)
(* inspected before it or after it and wherever else the definitions were    *)
(* entered (applyObjectDefinitionModifiers(), getGroupObjectNames()).        *)
Wires(d, e) ==
  /\ Decorated(d) /\ Decorated(e) /\ def[d].ctx = def[e].ctx
  /\ Blueprint[e[1]].group # "nothing"
  /\ Blueprint[d[1]].wired.type = "group"
  /\ Blueprint[d[1]].wired.target = Blueprint[e[1]].group

GroupsComplete ==
  \A c \in Live : starts[c] = "done" =>
    \A d, e \in Own(c) :
      def[d].ctx = c /\ def[d].status = "STARTED" /\ Wires(d, e) => e \in def[d].injected
=============================================================================
