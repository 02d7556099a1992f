-------------------------- MODULE DependencyGraph --------------------------
(* The dependency questions a BaseSingletonDefinition asks before it builds  *)
(* its object.  The code walks the definitions depth first with a trace;     *)
(* here each answer is stated as the set the walk computes.  Module          *)
(* CircularityCheck has the walks; that they agree with these sets is proved *)
(* in Parts_proofs.                                                          *)
(* A graph is a function from each definition to the set of those it uses.   *)

CONSTANT Defs       \* the BaseSingletonDefinitions registered in a context

Graph == [Defs -> SUBSET Defs]

(* Some walk along G that begins at d revisits a definition: d belongs to a  *)
(* set in which everybody has a successor.  The cycle need not go through d. *)
ReachesCycle(G, d) ==
  \E X \in SUBSET Defs : d \in X /\ \A x \in X : G[x] \cap X # {}

(* Everything the walk along G visits when it begins in D, D included.       *)
Closure(G, D) ==
  {x \in Defs : \A X \in SUBSET Defs :
                  D \subseteq X /\ (\A y \in X : G[y] \subseteq X) => x \in X}
=============================================================================
