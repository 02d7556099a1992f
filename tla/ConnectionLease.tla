-------------------------- MODULE ConnectionLease --------------------------
(* What a database client promises its callers, whatever fails: a call is    *)
(* lent one connection, once, and no connection is lent to two.  It hears    *)
(* the end of its transaction in the very step in which the server decides   *)
(* it and the connection goes back.  Only a transaction can lose a           *)
(* connection: its caller hears of a failure, nothing was decided, and the   *)
(* connection is never lent again.                                           *)

CONSTANTS
  Calls,
  Transactions,  \* the calls that run a transaction
  Connections,
  NoConnection

VARIABLES
  call,   \* call[t]: "waiting", "working", "resolved" or "rejected"
  lease,  \* lease[t]: the connection t has been lent
  fate    \* fate[t]: "none", "committed" or "rolled back"

leaseVars == <<call, lease, fate>>

Init ==
  /\ call = [t \in Calls |-> "waiting"]
  /\ lease = [t \in Calls |-> NoConnection]
  /\ fate = [t \in Transactions |-> "none"]

Lend(t, c) ==
  /\ call[t] = "waiting"
  /\ \A u \in Calls : lease[u] # c
  /\ call' = [call EXCEPT ![t] = "working"]
  /\ lease' = [lease EXCEPT ![t] = c]
  /\ UNCHANGED fate

TurnAway(t) ==
  /\ call[t] = "waiting"
  /\ call' = [call EXCEPT ![t] = "rejected"]
  /\ UNCHANGED <<lease, fate>>

GiveBack(t) ==
  /\ call[t] = "working"
  /\ \E told \in {"resolved", "rejected"} : call' = [call EXCEPT ![t] = told]
  /\ lease' = [lease EXCEPT ![t] = NoConnection]
  /\ IF t \in Transactions
     THEN \E decided \in {"committed", "rolled back"} : fate' = [fate EXCEPT ![t] = decided]
     ELSE UNCHANGED fate

Lose(t) ==
  /\ t \in Transactions /\ call[t] = "working"
  /\ call' = [call EXCEPT ![t] = "rejected"]
  /\ UNCHANGED <<lease, fate>>

Next ==
  \E t \in Calls :
    TurnAway(t) \/ GiveBack(t) \/ Lose(t) \/ \E c \in Connections : Lend(t, c)

Spec == Init /\ [][Next]_leaseVars
=============================================================================
