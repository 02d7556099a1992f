---------------------------- MODULE Decorators -----------------------------
(* From the decorators and static properties of classes to what a context    *)
(* wires: ioc/Decorators.ts, web/WebDecorators.ts, the inspectors of         *)
(* ioc/autoconfig in the order in which an InceptumApp adds them, and the    *)
(* WebRoutingInspector.                                                      *)
(*                                                                           *)
(* Classes are declared one after the other, a superclass first; then the    *)
(* context starts, which inspects one definition of each class.  A string    *)
(* '~Name' is <<"~", "Name">>, and '#key:default' <<"#", "key", "default">>. *)
EXTENDS Naturals, Sequences, FiniteSets

CONSTANTS
  Order,        \* the classes, as they are declared
  Super,        \* Super[c]: its superclass, or c itself
  Methods,      \* Methods[c]: the methods in the body of c
  MayWrite,     \* bound: the decorators that may be written in the body of c
  MayKeep       \* bound: the static properties that c may have

Classes == {Order[i] : i \in DOMAIN Order}
NotSet == "null"

(* A class is declared once, after its superclass.                           *)
ASSUME DeclarationOrder ==
  /\ Order \in Seq(Classes) /\ NotSet \notin Classes
  /\ \A i \in DOMAIN Order : Super[Order[i]] \in {Order[j] : j \in 1..i}
  /\ \A i, j \in DOMAIN Order : Order[i] = Order[j] => i = j

(* The method that is decorated is one of the body; a static property is     *)
(* written out, so it has finitely many entries.                             *)
ASSUME WrittenInTheBody ==
  \A c \in Classes :
    /\ \A x \in MayWrite[c] : x.kind \in {"StartMethod", "StopMethod"} => x.key \in Methods[c]
    /\ \A k \in MayKeep[c] : "autowire" \in DOMAIN k => IsFiniteSet(DOMAIN k.autowire)

VARIABLES
  declaring,  \* which class is being declared
  ioc,        \* the 'inceptum' metadata of the prototypes that have their own
  web,        \* the 'inceptum-web' metadata of these: their routes
  statics,    \* the static properties of the classes
  inspecting, \* which inspector is next
  wiring,     \* the definitions, by class
  memberNames,\* the groups of the context, names by group
  routes,     \* routesToRegister of the WebRoutingInspector
  refused,    \* the inspection has thrown
  written     \* for the invariants: the decorators each class has written

decoratorVars == <<declaring, ioc, web, statics, inspecting, wiring, memberNames, routes, refused, written>>
declared == <<ioc, web, statics, declaring, written>>

(* A class, its superclass, and so on: whatever every set of classes has that *)
(* has c and the superclasses of its members.                                *)
Ancestors == [c \in Classes |-> {a \in Classes : \A S \in SUBSET Classes :
                (c \in S /\ \A b \in S : Super[b] \in S) => a \in S}]
Has(c, method) == \E a \in Ancestors[c] : method \in Methods[a]

(* Mutant: a class works on metadata of its own, or on none.                 *)
OwnHolder(meta, c) == IF c \in DOMAIN meta THEN c ELSE NotSet

(* Reflect.hasMetadata() and getMetadata() follow the prototype chain: the   *)
(* metadata a class works on is that of its nearest decorated ancestor.      *)
Holder(meta, c) ==
  LET A == Ancestors[c] \cap DOMAIN meta
  IN IF A = {} THEN NotSet ELSE CHOOSE a \in A : \A b \in A : b \in Ancestors[a]

InceptumMetadata ==
  [autowire |-> <<>>, defaultValue |-> <<>>, lazy |-> TRUE,
   startMethod |-> NotSet, stopMethod |-> NotSet, groups |-> <<>>]

NewDefinition0(c) ==
  [lazy |-> TRUE, start |-> NotSet, stop |-> NotSet, args |-> <<>>, sets |-> <<>>]

DecoratorInit ==
  /\ declaring = 1
  /\ ioc = <<>> /\ web = <<>>
  /\ statics \in [Classes -> UNION {MayKeep[c] : c \in Classes}]
  /\ \A c \in Classes : statics[c] \in MayKeep[c]
  /\ inspecting = 1
  /\ wiring = [c \in Classes |-> NewDefinition0(c)]
  /\ memberNames = <<>>
  /\ routes = <<>>
  /\ refused = FALSE
  /\ written = [c \in Classes |-> {}]

-----------------------------------------------------------------------------
(* Decorators                                                                *)

OnClass == {"Lazy", "RegisterInGroup"}

(* The decorators of members run before those of the class.                  *)
Writes(c, x) ==
  /\ declaring <= Len(Order) /\ c = Order[declaring] /\ x \in MayWrite[c] \ written[c]
  /\ (x.kind \notin OnClass => \A y \in written[c] : y.kind \notin OnClass)
  /\ written' = [written EXCEPT ![c] = @ \cup {x}]
  /\ UNCHANGED <<declaring, statics, inspecting, wiring, memberNames, routes, refused>>

Put(f, k, v) == [x \in DOMAIN f \cup {k} |-> IF x = k THEN v ELSE f[x]]

(* getOrCreateMetadata() returns that of the holder, or makes one for c ...   *)
HolderOrNew(meta, c) == IF Holder(meta, c) = NotSet THEN c ELSE Holder(meta, c)
Mine(c) == IF Holder(ioc, c) = NotSet THEN InceptumMetadata ELSE ioc[Holder(ioc, c)]

(* ... which the decorator then changes to m.                                *)
Update(c, m) == ioc' = Put(ioc, HolderOrNew(ioc, c), m) /\ UNCHANGED web

(* @Autowire(what), @AutowireContext, @AutowireGroup(g) and                  *)
(* @AutowireGroupDefinitions(g) differ in the string they keep.              *)
Autowire(c, x) ==
  /\ x.kind = "Autowire" /\ Writes(c, x)
  /\ Update(c, [Mine(c) EXCEPT !.autowire = Put(@, x.key, x.what)])

(* The default is kept for the key of the configuration, not the property.   *)
AutowireConfig(c, x) ==
  /\ x.kind = "AutowireConfig" /\ Writes(c, x)
  /\ Update(c, [Mine(c) EXCEPT !.autowire = Put(@, x.key, <<"#", x.name>>),
                 !.defaultValue = IF x.default = NotSet THEN @ ELSE Put(@, x.name, x.default)])

Lazy(c, x) ==
  x.kind = "Lazy" /\ Writes(c, x) /\ Update(c, [Mine(c) EXCEPT !.lazy = x.lazy])

StartMethod(c, x) ==
  /\ x.kind = "StartMethod" /\ Writes(c, x)
  /\ Update(c, [Mine(c) EXCEPT !.startMethod = x.key])

StopMethod(c, x) ==
  /\ x.kind = "StopMethod" /\ Writes(c, x)
  /\ Update(c, [Mine(c) EXCEPT !.stopMethod = x.key])

RegisterInGroup(c, x) ==
  /\ x.kind = "RegisterInGroup" /\ Writes(c, x)
  /\ Update(c, [Mine(c) EXCEPT !.groups = Append(@, x.group)])

(* @Get(path) and so on.                                                     *)
Route(c, x) ==
  LET h == Holder(web, c)
      route == [verb |-> x.verb, methodName |-> x.key]
  IN /\ x.kind = "Route" /\ Writes(c, x)
     /\ web' = Put(web, HolderOrNew(web, c), Append(IF h = NotSet THEN <<>> ELSE web[h], route))
     /\ UNCHANGED ioc

endClass ==
  /\ declaring <= Len(Order) /\ declaring' = declaring + 1
  /\ UNCHANGED <<ioc, web, statics, inspecting, wiring, memberNames, routes, refused, written>>

-----------------------------------------------------------------------------
(* What the inspectors add: ParamDefinitions.                                *)

Param(key, type, target, default) ==
  [key |-> key, type |-> type, target |-> target, default |-> default]

(* A string of the static property 'autowire'.  Groups are unknown to it.    *)
FromStatic(key, what) ==
  CASE what[1] = "~" -> Param(key, "type", what[2], NotSet)
    [] what[1] = "*" -> Param(key, "typeArray", what[2], NotSet)
    [] what[1] = "#" -> Param(key, "config", what[2], IF Len(what) = 3 THEN what[3] ELSE NotSet)
    [] OTHER         -> Param(key, "ref", what, NotSet)

(* For a constructor argument a default is part of the configuration's key.  *)
ArgumentFromStatic(what) ==
  IF what[1] = "#" THEN Param(NotSet, "config", Tail(what), NotSet) ELSE FromStatic(NotSet, what)

(* A string kept by a decorator.                                             *)
FromDecorator(key, what, m) ==
  CASE what[1] = "#" /\ Len(what) = 2 /\ what[2] \in DOMAIN m.defaultValue ->
         Param(key, "config", what[2], m.defaultValue[what[2]])
    [] what[1] = "%" -> Param(key, "group", what[2], NotSet)
    [] what[1] = "&" -> Param(key, "definitionGroup", what[2], NotSet)
    [] OTHER         -> FromStatic(key, what)

(* The entries of a map, in some order: nothing depends on it.               *)
InOrder(S) == CHOOSE s \in [1..Cardinality(S) -> S] : {s[i] : i \in DOMAIN s} = S

(* The definitions that an inspector changes, and to what.                    *)
Configure(changed) ==
  wiring' = [c \in Classes |-> IF c \in DOMAIN changed THEN changed[c] ELSE wiring[c]]

(* Only a static property of the class itself counts.                        *)
AutowiringInspector ==
  /\ Configure([c \in {c \in Classes : "autowire" \in DOMAIN statics[c]} |->
       [wiring[c] EXCEPT
          !.args = @ \o [i \in DOMAIN statics[c].constructorArgs |->
                           ArgumentFromStatic(statics[c].constructorArgs[i])],
          !.sets = @ \o InOrder({FromStatic(k, statics[c].autowire[k]) :
                                   k \in DOMAIN statics[c].autowire})]])
  /\ UNCHANGED <<memberNames, routes, refused>>

LazyLoadingInspector ==
  /\ Configure([c \in {c \in Classes : "lazy" \in DOMAIN statics[c]} |->
       [wiring[c] EXCEPT !.lazy = statics[c].lazy]])
  /\ UNCHANGED <<memberNames, routes, refused>>

(* startMethod, stopMethod and routes are inherited: a static property of a   *)
(* class is one of its subclasses.                                           *)
Inherited(c, key, default) ==
  LET A == {a \in Ancestors[c] : key \in DOMAIN statics[a]}
  IN IF A = {} THEN default ELSE statics[CHOOSE a \in A : \A b \in A : b \in Ancestors[a]][key]

(* startFunction() and stopFunction() throw when the prototype, with what it *)
(* inherits, has no such method.                                             *)
StaticMethod(c, key) == Inherited(c, key, NotSet)

Throws(c, method) == method # NotSet /\ ~Has(c, method)

StartStopMethodsInspector ==
  /\ Configure([c \in Classes |->
       [wiring[c] EXCEPT !.start = StaticMethod(c, "startMethod"),
                         !.stop = StaticMethod(c, "stopMethod")]])
  /\ refused' = \E c \in Classes, key \in {"startMethod", "stopMethod"} :
                  Throws(c, StaticMethod(c, key))
  /\ UNCHANGED <<memberNames, routes>>

Metadata(c) == ioc[Holder(ioc, c)]

(* Laziness is set in any case; the rest is added to what is there.          *)
DecoratorInspector ==
  LET D == {c \in Classes : Holder(ioc, c) # NotSet}
      joined == UNION {{c} \X DOMAIN Metadata(c).groups : c \in D}
  IN /\ Configure([c \in D |->
          LET m == Metadata(c) IN
          [wiring[c] EXCEPT
             !.lazy = m.lazy,
             !.start = IF m.startMethod # NotSet THEN m.startMethod ELSE @,
             !.stop = IF m.stopMethod # NotSet THEN m.stopMethod ELSE @,
             !.sets = @ \o InOrder({FromDecorator(k, m.autowire[k], m) : k \in DOMAIN m.autowire})]])
     /\ memberNames' = [g \in {Metadata(j[1]).groups[j[2]] : j \in joined} |->
          LET members == {j \in joined : Metadata(j[1]).groups[j[2]] = g}
          IN [i \in 1..Cardinality(members) |-> InOrder(members)[i][1]]]
     /\ refused' = \E c \in D :
          Throws(c, Metadata(c).startMethod) \/ Throws(c, Metadata(c).stopMethod)
     /\ UNCHANGED routes

(* Routes with their index, which names the property instance_<index>.       *)
processRoutes(own, c) ==
  [i \in DOMAIN own |-> [verb |-> own[i].verb, methodName |-> own[i].methodName,
                         instanceProperty |-> i - 1, objectName |-> c]]

(* Those of the static property first, then those of the decorators.         *)
AllRoutes[k \in 0..Len(Order)] ==
  IF k = 0 THEN <<>>
  ELSE LET c == Order[k] IN
       AllRoutes[k - 1] \o processRoutes(Inherited(c, "routes", <<>>), c)
         \o processRoutes(IF Holder(web, c) = NotSet THEN <<>> ELSE web[Holder(web, c)], c)

WebRoutingInspector ==
  /\ routes' = AllRoutes[Len(Order)]
  /\ UNCHANGED <<wiring, memberNames, refused>>

Inspectors == <<"autowire", "lazy", "startStop", "decorator", "web">>

applyInspector ==
  /\ declaring > Len(Order) /\ inspecting <= Len(Inspectors) /\ ~refused
  /\ inspecting' = inspecting + 1
  /\ LET which == Inspectors[inspecting] IN
       \/ which = "autowire" /\ AutowiringInspector
       \/ which = "lazy" /\ LazyLoadingInspector
       \/ which = "startStop" /\ StartStopMethodsInspector
       \/ which = "decorator" /\ DecoratorInspector
       \/ which = "web" /\ WebRoutingInspector
  /\ UNCHANGED declared

DecoratorNext ==
  \/ \E c \in Classes : \E x \in MayWrite[c] :
       Autowire(c, x) \/ AutowireConfig(c, x) \/ Lazy(c, x) \/ StartMethod(c, x)
         \/ StopMethod(c, x) \/ RegisterInGroup(c, x) \/ Route(c, x)
  \/ endClass
  \/ applyInspector

-----------------------------------------------------------------------------
(* What is injected                                                          *)

Inspected == inspecting > Len(Inspectors) /\ ~refused

(* The objects that setAllProperties() may leave in instance_<index>: one    *)
(* promise for each reference, and the last to resolve wins.                 *)
InstanceOf(route) ==
  {r.objectName : r \in {routes[i] : i \in {j \in DOMAIN routes :
     routes[j].instanceProperty = route.instanceProperty}}}

-----------------------------------------------------------------------------
InceptumKinds == {"Autowire", "AutowireConfig", "Lazy", "StartMethod", "StopMethod", "RegisterInGroup"}
IsDecorated(c) == \E x \in written[c] : x.kind \in InceptumKinds
KeysWritten(C) ==
  UNION {{x.key : x \in {y \in written[c] : y.kind \in {"Autowire", "AutowireConfig"}}} : c \in C}

(* A class is wired with all that it and its superclasses have written, and  *)
(* with nothing of another class, but where both inherit from a decorated    *)
(* one, whose metadata they share (getOrCreateMetadata()).  The inspection,  *)
(* and with it the start of the context, is refused for that sharing, a start *)
(* or stop method that a class wrote into the metadata of a superclass that  *)
(* has no such method (startFunction()), or for a static property that names *)
(* a method which a class lacks.                                             *)
WiredAsWritten ==
  /\ Inspected => \A c \in Classes :
       LET shared == {e \in Classes : \E a \in Ancestors[c] \cap Ancestors[e] : IsDecorated(a)}
           wired == {wiring[c].sets[i].key : i \in DOMAIN wiring[c].sets}
           static == IF "autowire" \in DOMAIN statics[c] THEN DOMAIN statics[c].autowire ELSE {}
       IN KeysWritten(Ancestors[c]) \subseteq wired
          /\ wired \subseteq static \cup KeysWritten(Ancestors[c] \cup shared)
  /\ refused => \E e \in Classes :
       \/ \E a \in Ancestors[e] \ {e}, x \in written[e] :
            x.kind \in {"StartMethod", "StopMethod"} /\ IsDecorated(a) /\ ~Has(a, x.key)
       \/ \E key \in {"startMethod", "stopMethod"} : Throws(e, StaticMethod(e, key))

(* Claimed: a route is served by the controller it was registered from       *)
(* (RouteRegisterUtil.doRegister()).                                         *)
RoutesReachTheirController ==
  Inspected => \A i \in DOMAIN routes : InstanceOf(routes[i]) = {routes[i].objectName}
=============================================================================
