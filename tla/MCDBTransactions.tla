-------------------------- MODULE MCDBTransactions --------------------------
(* Connections of a master and of a slave.                                   *)
EXTENDS DBTransactions

CONSTANTS m1, m2, s1
MCPoolOf == [c \in Conns |-> IF c = s1 THEN "slave" ELSE "master"]
=============================================================================
