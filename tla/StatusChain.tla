---------------------------- MODULE StatusChain ----------------------------
(* What every Lifecycle object promises to its observers: it begins          *)
(* NOT_STARTED and its status only ever moves up the chain.  An observer     *)
(* that saw a state will never see an earlier one again.                     *)
EXTENDS LifecycleStates

VARIABLE status

Init == status = "NOT_STARTED"

Advance(s) == IsBefore(status, s) /\ status' = s

Next == \E s \in LifecycleState : Advance(s)

Spec == Init /\ [][Next]_status
=============================================================================
