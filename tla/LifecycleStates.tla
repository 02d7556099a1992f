-------------------------- MODULE LifecycleStates --------------------------
(* The status chain of src/src/ioc/Lifecycle.ts, with the states that        *)
(* BaseSingletonDefinition adds to it.  Every state carries a number and the *)
(* whole code base compares statuses only through that number.               *)
EXTENDS Integers

LifecycleState ==
  {"NOT_STARTED", "INSTANTIATING", "INSTANTIATED", "PROPERTIES_SET",
   "STARTING", "STARTED", "STOPPING", "STOPPED"}

Value ==
  [NOT_STARTED  |-> 0,    INSTANTIATING |-> 100,   INSTANTIATED |-> 200,
   PROPERTIES_SET |-> 400, STARTING |-> 1000,  STARTED |-> 2000,
   STOPPING |-> 10000, STOPPED |-> 10001]

IsBefore(s, t)     == Value[s] < Value[t]
IsAtOrAfter(s, t)  == ~IsBefore(s, t)

(* Mutant: setting the current state again counts as a change.               *)
AcceptsSame(s, t) == Value[s] <= Value[t]

(* setStatus(t) in state s: TRUE when it returns true and moves the object;  *)
(* otherwise it returns false (s = t) or throws (t is before s), and in both *)
(* cases the caller's promise is rejected and nothing changes.               *)
Accepts(s, t) == IsBefore(s, t)
=============================================================================
