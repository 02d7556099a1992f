-------------------------- MODULE MCContextWiring --------------------------
(* The registrations TLC tries: every graph of two definitions, the property *)
(* cycle among them by itself, and the shapes of three definitions that two  *)
(* cannot show.                                                              *)
EXTENDS ContextWiring, TLC

CONSTANTS a, b, c

EveryPair == [ctor : Graph, prop : Graph, eager : SUBSET Defs]

Links(x, y, z) == (a :> x) @@ (b :> y) @@ (c :> z)
Registers(ctor, prop, eager) == [ctor |-> ctor, prop |-> prop, eager |-> eager]
NoLinks == Links({}, {}, {})

Chain         == Registers(Links({b}, {}, {}), Links({}, {c}, {}), {a})
PropertyCycle == Registers(NoLinks, Links({b}, {a}, {b}), {c})
CtorCycle     == Registers(Links({b}, {a}, {}), Links({}, {}, {b}), {a, c})

(* A dependant of a dependant; a property cycle and what uses it; a          *)
(* constructor cycle and what needs it.                                      *)
Triples == {Chain, PropertyCycle, CtorCycle}

(* Two definitions, none of them lazy, each a property of the other: without *)
(* a constructor argument, nothing but a start function can fail once both   *)
(* are constructed.                                                          *)
PropertyPair == {Registers([d \in {a, b} |-> {}], (a :> {b}) @@ (b :> {a}), {a, b})}
=============================================================================
