------------------------ MODULE DBTransactions_proofs ------------------------
(* Theorems about the transactions and pings of a DBClient, for every number *)
(* of calls, connections and queries, any division of the connections        *)
(* between a master and a slave, and whatever may fail.                      *)
EXTENDS DBTransactions, FiniteSetTheorems, TLAPS

Client == {"new", "starting master", "starting slave", "started", "failed",
           "stopping master", "stopping slave", "stopped"}

TypeOK ==
  /\ configured \subseteq Pools /\ client \in Client
  /\ pool \in [Pools -> {"none", "STARTED", "STOPPED"}]
  /\ stopping \in [Pools -> {"no", "draining", "clearing", "done"}]
  /\ conn \in [Conns -> {"absent", "opening", "idle", "lent", "closing"}]
  /\ session \in [Conns -> Txns \cup {NoTxn}]
  /\ queue \in [Conns -> Seq(Callers \X Statement)]
  /\ pc \in [Callers -> {"idle", "acquiring", "beginning", "running", "ending"} \cup Settled]
  /\ held \in [Callers -> Conns \cup {NoConn}]
  /\ fate \in [Txns -> {"none", "committed", "rolled back"}]
  /\ via \in [Callers -> Pools \cup {"none"}]
  /\ active \in [Pools -> Int] /\ total \in [Pools -> Int]

(* Who works holds a connection, of its own pool; who has resolved, a ping   *)
(* that has rejected, and who has not been given one yet, hold none.         *)
Working == {"beginning", "running", "ending"}

HoldersWork ==
  \A t \in Callers :
    /\ pc[t] \in Working => held[t] # NoConn
    /\ pc[t] \in {"idle", "acquiring", "resolved"} => held[t] = NoConn
    /\ t \in Pings /\ pc[t] = "rejected" => held[t] = NoConn
    /\ pc[t] \in {"beginning", "ending"} => t \in Txns
    /\ held[t] # NoConn => via[t] = PoolOf[held[t]]

(* The server has decided a transaction when its connection goes back.       *)
FatesSettle ==
  \A t \in Txns : fate[t] # "none" => pc[t] \in Settled /\ held[t] = NoConn

(* What lies in the queue of c, of the call t: but for the queries of stray  *)
(* functions it is of the call that holds c, and tells where that call is.   *)
Fits(t, s, c) ==
  /\ s = "query" /\ t \notin MayStray => pc[t] = "running" /\ held[t] = c
  /\ s = "BEGIN" => pc[t] = "beginning" /\ held[t] = c
  /\ s = "COMMIT" => pc[t] = "ending" /\ held[t] = c /\ t \notin error
  /\ s = "ROLLBACK" => pc[t] = "ending" /\ held[t] = c /\ t \in error

QueuesFit ==
  \A c \in Conns : \A i \in DOMAIN queue[c] : Fits(queue[c][i][1], queue[c][i][2], c)

(* A connection waits for at most one answer that moves its call on.         *)
Moves(e) == e[2] # "query" \/ e[1] \in Pings

OneMove ==
  \A c \in Conns : \A i, j \in DOMAIN queue[c] :
    Moves(queue[c][i]) /\ Moves(queue[c][j]) => i = j

(* A function runs inside its transaction.                                   *)
RunsInSession ==
  \A t \in Txns : pc[t] = "running" => session[held[t]] = t

(* What the caller is told.                                                  *)
ToldIsFate ==
  \A t \in Txns :
    /\ t \in failed /\ "falsy" \notin MayFail => t \in error
    /\ pc[t] = "resolved" =>
         /\ t \notin failed
         /\ fate[t] = IF t \in error \cup aborted THEN "rolled back" ELSE "committed"
    /\ fate[t] = "committed" => t \notin error

(* Only the queries of stray functions find their transaction ended.         *)
StraysOnly == outside \subseteq MayStray

(* The pools between initialise() and the end of stop().                     *)
PoolsFollowClient ==
  /\ client = "new" => \A p \in Pools : pool[p] = "none"
  /\ client = "starting master" => pool["slave"] = "none"
  /\ client \in {"started", "starting master", "starting slave", "failed"}
       => \A p \in Pools : pool[p] # "STOPPED"
  /\ client = "stopping master" => pool["slave"] # "STOPPED"
  /\ client = "stopping slave" => pool["master"] = "none" \/ stopping["master"] = "done"
  /\ client = "stopped" => \A p \in Pools : pool[p] = "none" \/ stopping[p] = "done"

(* A pool that was not made, or is cleared, has no connection and opens none.*)
PoolsEnd ==
  \A p \in Pools :
    /\ stopping[p] # "no" <=> pool[p] = "STOPPED"
    /\ pool[p] = "none" \/ stopping[p] \in {"clearing", "done"} => Waiting(p) = {}
    /\ pool[p] = "none" \/ stopping[p] = "done" =>
         \A c \in Conns : PoolOf[c] = p => conn[c] = "absent"

In(p, states) == {c \in Conns : PoolOf[c] = p /\ conn[c] \in states}
Open == {"idle", "lent", "closing"}

Gauges ==
  \A p \in Pools : active[p] = Cardinality(In(p, {"lent"})) /\ total[p] = Cardinality(In(p, Open))

IInv ==
  /\ TypeOK
  /\ ExclusiveConnections /\ HoldersWork
  /\ CleanHandover
  /\ FatesSettle
  /\ QueuesFit /\ OneMove /\ RunsInSession
  /\ ToldIsFate /\ StraysOnly
  /\ PoolsFollowClient /\ PoolsEnd
  /\ Gauges

-----------------------------------------------------------------------------
(* Queues of statements.                                                     *)
LEMMA TailEntries ==
  ASSUME NEW S, NEW q \in Seq(S), q # <<>>
  PROVE  /\ Tail(q) \in Seq(S)
         /\ 1 \in DOMAIN q /\ Head(q) = q[1]
         /\ \A i \in DOMAIN Tail(q) : i \in Nat \ {0} /\ i + 1 \in DOMAIN q /\ Tail(q)[i] = q[i + 1]
<1>1. Len(q) \in Nat \ {0} /\ DOMAIN q = 1..Len(q)
  OBVIOUS
<1>2. DOMAIN Tail(q) = 1..(Len(q) - 1)
  BY <1>1
<1> QED BY <1>1, <1>2

LEMMA AppendEntries ==
  ASSUME NEW S, NEW q \in Seq(S), NEW e \in S
  PROVE  /\ Append(q, e) \in Seq(S)
         /\ \A i \in DOMAIN Append(q, e) :
              \/ i \in DOMAIN q /\ Append(q, e)[i] = q[i]
              \/ i = Len(q) + 1 /\ Append(q, e)[i] = e
<1>1. Len(q) \in Nat /\ DOMAIN q = 1..Len(q)
  OBVIOUS
<1>2. DOMAIN Append(q, e) = 1..(Len(q) + 1)
  BY <1>1
<1> QED BY <1>1, <1>2

(* The entries of a queue are statements of calls.                           *)
LEMMA Entries ==
  ASSUME TypeOK, NEW c \in Conns, NEW i \in DOMAIN queue[c]
  PROVE  /\ queue[c] \in Seq(Callers \X Statement)
         /\ queue[c][i] \in Callers \X Statement
         /\ queue[c][i][1] \in Callers /\ queue[c][i][2] \in Statement
<1>1. queue[c] \in Seq(Callers \X Statement)
  BY DEF TypeOK
<1>2. queue[c][i] \in Callers \X Statement
  BY <1>1
<1> QED BY <1>1, <1>2

(* An answer takes one entry away, which fits; if it moves its call on, no   *)
(* entry that does is left on the connection.                                *)
LEMMA AnswerTakes ==
  ASSUME IInv, NEW c \in Conns, NEW t, NEW s, answers(c, t, s)
  PROVE  /\ queue' \in [Conns -> Seq(Callers \X Statement)]
         /\ t \in Callers /\ Fits(t, s, c)
         /\ OneMove'
         /\ \A d \in Conns : \A i \in DOMAIN queue'[d] :
              /\ \E j \in DOMAIN queue[d] : queue'[d][i] = queue[d][j]
              /\ d = c /\ Moves(<<t, s>>) => ~Moves(queue'[d][i])
<1>1. queue \in [Conns -> Seq(Callers \X Statement)] /\ queue[c] \in Seq(Callers \X Statement)
  BY DEF IInv, TypeOK
<1>2. queue[c] # <<>> /\ Head(queue[c]) = <<t, s>> /\ queue' = [queue EXCEPT ![c] = Tail(queue[c])]
  BY DEF answers
<1>3. /\ Tail(queue[c]) \in Seq(Callers \X Statement)
      /\ 1 \in DOMAIN queue[c] /\ queue[c][1] = <<t, s>>
      /\ \A i \in DOMAIN Tail(queue[c]) :
           i \in Nat \ {0} /\ i + 1 \in DOMAIN queue[c] /\ Tail(queue[c])[i] = queue[c][i + 1]
  BY <1>1, <1>2, TailEntries
<1>4. queue' \in [Conns -> Seq(Callers \X Statement)]
  BY <1>1, <1>2, <1>3
<1>5. t \in Callers /\ Fits(t, s, c)
  BY <1>3, Entries DEF IInv, QueuesFit
<1>6. \A d \in Conns : queue'[d] = IF d = c THEN Tail(queue[c]) ELSE queue[d]
  BY <1>1, <1>2
<1>7. OneMove'
  <2> SUFFICES ASSUME NEW d \in Conns, NEW i \in DOMAIN queue'[d], NEW j \in DOMAIN queue'[d],
                      Moves(queue'[d][i]), Moves(queue'[d][j])
               PROVE  i = j
    BY DEF OneMove, Moves
  <2>1. CASE d = c
    <3>1. /\ i \in Nat /\ j \in Nat /\ i + 1 \in DOMAIN queue[c] /\ j + 1 \in DOMAIN queue[c]
          /\ Moves(queue[c][i + 1]) /\ Moves(queue[c][j + 1])
      BY <1>3, <1>6, <2>1
    <3>2. i + 1 = j + 1
      BY <3>1 DEF IInv, OneMove
    <3> QED BY <3>1, <3>2
  <2>2. CASE d # c
    BY <1>6, <2>2 DEF IInv, OneMove
  <2> QED BY <2>1, <2>2
<1>8. ASSUME NEW d \in Conns, NEW i \in DOMAIN queue'[d]
      PROVE  /\ \E j \in DOMAIN queue[d] : queue'[d][i] = queue[d][j]
             /\ d = c /\ Moves(<<t, s>>) => ~Moves(queue'[d][i])
  <2>1. CASE d = c
    <3>1. i \in Nat \ {0} /\ i + 1 \in DOMAIN queue[c] /\ queue'[c][i] = queue[c][i + 1]
      BY <1>3, <1>6, <2>1
    <3>2. i + 1 # 1
      BY <3>1
    <3>3. Moves(queue[c][1]) => ~Moves(queue[c][i + 1])
      BY <1>3, <3>1, <3>2 DEF IInv, OneMove
    <3> QED BY <1>3, <2>1, <3>1, <3>3
  <2>2. CASE d # c
    BY <1>6, <2>2
  <2> QED BY <2>1, <2>2
<1> QED BY <1>4, <1>5, <1>7, <1>8

(* Sending adds one entry.                                                   *)
LEMMA SendingAdds ==
  ASSUME IInv, NEW c \in Conns, NEW t \in Callers, NEW s \in Statement, sends(t, c, s)
  PROVE  /\ queue' \in [Conns -> Seq(Callers \X Statement)]
         /\ \A d \in Conns : \A i \in DOMAIN queue'[d] :
              \/ i \in DOMAIN queue[d] /\ queue'[d][i] = queue[d][i]
              \/ d = c /\ i = Len(queue[c]) + 1 /\ queue'[d][i] = <<t, s>>
<1>1. queue \in [Conns -> Seq(Callers \X Statement)] /\ queue[c] \in Seq(Callers \X Statement)
  BY DEF IInv, TypeOK
<1>2. queue' = [queue EXCEPT ![c] = Append(queue[c], <<t, s>>)]
  BY DEF sends
<1>3. /\ Append(queue[c], <<t, s>>) \in Seq(Callers \X Statement)
      /\ \A i \in DOMAIN Append(queue[c], <<t, s>>) :
           \/ i \in DOMAIN queue[c] /\ Append(queue[c], <<t, s>>)[i] = queue[c][i]
           \/ i = Len(queue[c]) + 1 /\ Append(queue[c], <<t, s>>)[i] = <<t, s>>
  <2>1. <<t, s>> \in Callers \X Statement
    OBVIOUS
  <2> QED BY <1>1, <2>1, AppendEntries
<1>4. \A d \in Conns : queue'[d] = IF d = c THEN Append(queue[c], <<t, s>>) ELSE queue[d]
  BY <1>1, <1>2
<1> QED BY <1>1, <1>2, <1>3, <1>4

(* What moves its call on may be sent where nothing else does.               *)
LEMMA SendingOneMove ==
  ASSUME IInv, NEW c \in Conns, NEW t \in Callers, NEW s \in Statement, sends(t, c, s),
         ~Moves(<<t, s>>) \/ \A i \in DOMAIN queue[c] : ~Moves(queue[c][i])
  PROVE  OneMove'
<1> SUFFICES ASSUME NEW d \in Conns, NEW i \in DOMAIN queue'[d], NEW j \in DOMAIN queue'[d],
                    Moves(queue'[d][i]), Moves(queue'[d][j])
             PROVE  i = j
  BY DEF OneMove, Moves
<1>1. /\ \/ i \in DOMAIN queue[d] /\ queue'[d][i] = queue[d][i]
         \/ d = c /\ i = Len(queue[c]) + 1 /\ queue'[d][i] = <<t, s>>
      /\ \/ j \in DOMAIN queue[d] /\ queue'[d][j] = queue[d][j]
         \/ d = c /\ j = Len(queue[c]) + 1 /\ queue'[d][j] = <<t, s>>
  BY SendingAdds
<1>2. CASE i \in DOMAIN queue[d] /\ j \in DOMAIN queue[d]
  BY <1>1, <1>2, SendingAdds DEF IInv, OneMove
<1> QED BY <1>1, <1>2 DEF Moves

-----------------------------------------------------------------------------
(* What a step leaves alone.                                                 *)

(* Connections change, the calls do not.                                     *)
LEMMA CallsUndisturbed ==
  ASSUME IInv, UNCHANGED <<session, queue, fate, aborted, outside, pc, via, held, error, failed>>
  PROVE  /\ HoldersWork' /\ CleanHandover' /\ FatesSettle' /\ QueuesFit' /\ OneMove'
         /\ RunsInSession' /\ ToldIsFate' /\ StraysOnly'
<1>1. HoldersWork' /\ CleanHandover' /\ FatesSettle' /\ RunsInSession' /\ ToldIsFate' /\ StraysOnly'
  BY DEF IInv, HoldersWork, CleanHandover, FatesSettle, RunsInSession, ToldIsFate, StraysOnly
<1>2. QueuesFit' /\ OneMove'
  BY DEF IInv, QueuesFit, Fits, OneMove, Moves
<1> QED BY <1>1, <1>2

(* Calls change, the pools do not: nobody comes to wait for a pool that is   *)
(* not started, and it opens nothing.                                        *)
LEMMA PoolsUndisturbed ==
  ASSUME IInv, UNCHANGED clientVars,
         \A p \in Pools : pool[p] # "STARTED" => Waiting(p)' \subseteq Waiting(p),
         \A c \in Conns :
           conn[c] = "absent" /\ pool[PoolOf[c]] # "STARTED" /\ Waiting(PoolOf[c]) = {}
             => conn'[c] = "absent"
  PROVE  PoolsFollowClient' /\ PoolsEnd'
<1> USE DEF clientVars
<1>1. PoolsFollowClient'
  BY DEF IInv, PoolsFollowClient
<1>2. ASSUME NEW p \in Pools
      PROVE  /\ (stopping[p] # "no" <=> pool[p] = "STOPPED")'
             /\ (pool[p] = "none" \/ stopping[p] \in {"clearing", "done"} => Waiting(p) = {})'
             /\ (pool[p] = "none" \/ stopping[p] = "done" =>
                   \A c \in Conns : PoolOf[c] = p => conn[c] = "absent")'
  <2>1. stopping[p] # "no" <=> pool[p] = "STOPPED"
    BY DEF IInv, PoolsEnd
  <2>2. pool[p] = "none" \/ stopping[p] \in {"clearing", "done"} => pool[p] # "STARTED" /\ Waiting(p) = {}
    BY <2>1 DEF IInv, PoolsEnd
  <2>3. pool[p] = "none" \/ stopping[p] = "done" =>
          pool[p] # "STARTED" /\ Waiting(p) = {} /\ \A c \in Conns : PoolOf[c] = p => conn[c] = "absent"
    BY <2>1, <2>2 DEF IInv, PoolsEnd
  <2>4. pool'[p] = pool[p] /\ stopping'[p] = stopping[p]
    OBVIOUS
  <2>5. (pool[p] = "none" \/ stopping[p] \in {"clearing", "done"} => Waiting(p) = {})'
    BY <2>2, <2>4
  <2>6. (pool[p] = "none" \/ stopping[p] = "done" =>
           \A c \in Conns : PoolOf[c] = p => conn[c] = "absent")'
    BY <2>3, <2>4
  <2> QED BY <2>1, <2>4, <2>5, <2>6
<1>3. PoolsEnd'
  BY <1>2 DEF PoolsEnd
<1> QED BY <1>1, <1>3

(* One connection moves from a state to another: what a gauge should count.  *)
LEMMA MovesCount ==
  ASSUME IInv, DBAssumption, NEW c \in Conns, NEW s, moves(c, s), NEW p \in Pools, NEW states
  PROVE  /\ PoolOf[c] # p \/ (s \in states <=> conn[c] \in states) =>
              Cardinality(In(p, states)') = Cardinality(In(p, states))
         /\ PoolOf[c] = p /\ s \in states /\ conn[c] \notin states =>
              Cardinality(In(p, states)') = Cardinality(In(p, states)) + 1
         /\ PoolOf[c] = p /\ s \notin states /\ conn[c] \in states =>
              Cardinality(In(p, states)') = Cardinality(In(p, states)) - 1
<1>1. \A d \in Conns : conn'[d] = IF d = c THEN s ELSE conn[d]
  BY DEF IInv, TypeOK, moves
<1>2. IsFiniteSet(In(p, states))
  BY FS_Subset DEF DBAssumption, In
<1>3. ASSUME PoolOf[c] # p \/ (s \in states <=> conn[c] \in states)
      PROVE  In(p, states)' = In(p, states)
  BY <1>1, <1>3 DEF In
<1>4. ASSUME PoolOf[c] = p, s \in states, conn[c] \notin states
      PROVE  Cardinality(In(p, states)') = Cardinality(In(p, states)) + 1
  <2>1. In(p, states)' = In(p, states) \cup {c} /\ c \notin In(p, states)
    BY <1>1, <1>4 DEF In
  <2> QED BY <1>2, <2>1, FS_AddElement
<1>5. ASSUME PoolOf[c] = p, s \notin states, conn[c] \in states
      PROVE  Cardinality(In(p, states)') = Cardinality(In(p, states)) - 1
  <2>1. In(p, states)' = In(p, states) \ {c} /\ c \in In(p, states)
    BY <1>1, <1>5 DEF In
  <2> QED BY <1>2, <2>1, FS_RemoveElement
<1> QED BY <1>3, <1>4, <1>5

LEMMA CountsAreInt ==
  ASSUME DBAssumption, NEW p, NEW states
  PROVE  Cardinality(In(p, states)) \in Int
<1>1. IsFiniteSet(In(p, states))
  BY FS_Subset DEF DBAssumption, In
<1> QED BY <1>1, FS_CardinalityType

(* The gauges when a connection is lent, given back, opened or closed.       *)
LEMMA GaugesFollow ==
  ASSUME IInv, DBAssumption, NEW c \in Conns, NEW s, moves(c, s),
         active' = [active EXCEPT ![PoolOf[c]] =
           IF s = "lent" /\ conn[c] # "lent" THEN @ + 1
           ELSE IF s # "lent" /\ conn[c] = "lent" THEN @ - 1 ELSE @],
         total' = [total EXCEPT ![PoolOf[c]] =
           IF s \in Open /\ conn[c] \notin Open THEN @ + 1
           ELSE IF s \notin Open /\ conn[c] \in Open THEN @ - 1 ELSE @]
  PROVE  Gauges' /\ active' \in [Pools -> Int] /\ total' \in [Pools -> Int]
<1> DEFINE lent == {"lent"}
<1>1. active \in [Pools -> Int] /\ total \in [Pools -> Int] /\ PoolOf[c] \in Pools
  BY DEF IInv, TypeOK, DBAssumption
<1>2. ASSUME NEW p \in Pools
      PROVE  active'[p] = Cardinality(In(p, lent)') /\ total'[p] = Cardinality(In(p, Open)')
  <2>1. active[p] = Cardinality(In(p, lent)) /\ total[p] = Cardinality(In(p, Open))
    BY DEF IInv, Gauges
  <2>2. active'[p] = Cardinality(In(p, lent)')
    <3>1. /\ PoolOf[c] # p \/ (s = "lent" <=> conn[c] = "lent") =>
               Cardinality(In(p, lent)') = Cardinality(In(p, lent))
          /\ PoolOf[c] = p /\ s = "lent" /\ conn[c] # "lent" =>
               Cardinality(In(p, lent)') = Cardinality(In(p, lent)) + 1
          /\ PoolOf[c] = p /\ s # "lent" /\ conn[c] = "lent" =>
               Cardinality(In(p, lent)') = Cardinality(In(p, lent)) - 1
      BY MovesCount
    <3> HIDE DEF lent
    <3> QED BY <1>1, <2>1, <3>1
  <2>3. total'[p] = Cardinality(In(p, Open)')
    <3>1. /\ PoolOf[c] # p \/ (s \in Open <=> conn[c] \in Open) =>
               Cardinality(In(p, Open)') = Cardinality(In(p, Open))
          /\ PoolOf[c] = p /\ s \in Open /\ conn[c] \notin Open =>
               Cardinality(In(p, Open)') = Cardinality(In(p, Open)) + 1
          /\ PoolOf[c] = p /\ s \notin Open /\ conn[c] \in Open =>
               Cardinality(In(p, Open)') = Cardinality(In(p, Open)) - 1
      BY MovesCount
    <3> QED BY <1>1, <2>1, <3>1
  <2> QED BY <2>2, <2>3
<1>3. Gauges'
  BY <1>2 DEF Gauges, In, Open
<1>4. active' \in [Pools -> Int] /\ total' \in [Pools -> Int]
  BY <1>1
<1> QED BY <1>3, <1>4

LEMMA GaugesUndisturbed ==
  ASSUME IInv, UNCHANGED <<conn, active, total>>
  PROVE  Gauges'
BY DEF IInv, Gauges, In, Open
-----------------------------------------------------------------------------
(* The steps of the client and of its pools: no call is touched.             *)

(* A connection that is not lent changes its state, and stays so.            *)
LEMMA ConnectionMoves ==
  ASSUME IInv, DBAssumption, NEW c \in Conns, NEW s \in {"absent", "opening", "idle", "closing"},
         moves(c, s), conn[c] # "lent",
         UNCHANGED <<clientVars, pc, via, held>>,
         conn[c] = "absent" => Waiting(PoolOf[c]) # {} \/ pool[PoolOf[c]] = "STARTED"
  PROVE  /\ conn' \in [Conns -> {"absent", "opening", "idle", "lent", "closing"}]
         /\ ExclusiveConnections' /\ PoolsFollowClient' /\ PoolsEnd'
<1>1. \A d \in Conns : conn'[d] = IF d = c THEN s ELSE conn[d]
  BY DEF IInv, TypeOK, moves
<1>2. conn' \in [Conns -> {"absent", "opening", "idle", "lent", "closing"}]
  BY DEF IInv, TypeOK, moves
<1>3. ExclusiveConnections'
  BY <1>1 DEF IInv, ExclusiveConnections
<1>4. \A p \in Pools : Waiting(p)' = Waiting(p)
  BY DEF Waiting
<1>5. PoolsFollowClient' /\ PoolsEnd'
  BY <1>1, <1>4, PoolsUndisturbed
<1> QED BY <1>2, <1>3, <1>5

LEMMA OpensKeeps ==
  ASSUME IInv, DBAssumption, NEW c \in Conns, opens(c)
  PROVE  IInv'
<1> USE DEF opens, serverVars, callVars
<1>1. /\ conn' \in [Conns -> {"absent", "opening", "idle", "lent", "closing"}]
      /\ ExclusiveConnections' /\ PoolsFollowClient' /\ PoolsEnd'
  BY ConnectionMoves
<1>2. /\ HoldersWork' /\ CleanHandover' /\ FatesSettle' /\ QueuesFit' /\ OneMove'
      /\ RunsInSession' /\ ToldIsFate' /\ StraysOnly'
  BY CallsUndisturbed
<1>3. Gauges'
  BY GaugesFollow DEF Open, IInv, TypeOK
<1>4. TypeOK'
  BY <1>1 DEF IInv, TypeOK, clientVars
<1> QED BY <1>1, <1>2, <1>3, <1>4 DEF IInv

LEMMA CreateKeeps ==
  ASSUME IInv, DBAssumption, NEW c \in Conns, create(c)
  PROVE  IInv'
<1> USE DEF create, serverVars, callVars
<1>1. /\ conn' \in [Conns -> {"absent", "opening", "idle", "lent", "closing"}]
      /\ ExclusiveConnections' /\ PoolsFollowClient' /\ PoolsEnd'
  BY ConnectionMoves
<1>2. /\ HoldersWork' /\ CleanHandover' /\ FatesSettle' /\ QueuesFit' /\ OneMove'
      /\ RunsInSession' /\ ToldIsFate' /\ StraysOnly'
  BY CallsUndisturbed
<1>3. Gauges' /\ total' \in [Pools -> Int]
  BY GaugesFollow DEF Open, IInv, TypeOK
<1>4. TypeOK'
  BY <1>1, <1>3 DEF IInv, TypeOK, clientVars
<1> QED BY <1>1, <1>2, <1>3, <1>4 DEF IInv

LEMMA CreateFailsKeeps ==
  ASSUME IInv, DBAssumption, NEW c \in Conns, createFails(c)
  PROVE  IInv'
<1> USE DEF createFails, serverVars, callVars
<1>1. /\ conn' \in [Conns -> {"absent", "opening", "idle", "lent", "closing"}]
      /\ ExclusiveConnections' /\ PoolsFollowClient' /\ PoolsEnd'
  BY ConnectionMoves
<1>2. /\ HoldersWork' /\ CleanHandover' /\ FatesSettle' /\ QueuesFit' /\ OneMove'
      /\ RunsInSession' /\ ToldIsFate' /\ StraysOnly'
  BY CallsUndisturbed
<1>3. Gauges'
  BY GaugesFollow DEF Open, IInv, TypeOK
<1>4. TypeOK'
  BY <1>1 DEF IInv, TypeOK, clientVars
<1> QED BY <1>1, <1>2, <1>3, <1>4 DEF IInv

LEMMA BreaksKeeps ==
  ASSUME IInv, NEW c \in Conns, breaks(c)
  PROVE  IInv'
<1> USE DEF breaks, serverVars, callVars
<1>1. /\ HoldersWork' /\ CleanHandover' /\ FatesSettle' /\ QueuesFit' /\ OneMove'
      /\ RunsInSession' /\ ToldIsFate' /\ StraysOnly'
  BY CallsUndisturbed
<1>2. PoolsFollowClient' /\ PoolsEnd'
  BY PoolsUndisturbed DEF Waiting
<1>3. ExclusiveConnections' /\ TypeOK'
  BY DEF IInv, ExclusiveConnections, TypeOK, clientVars
<1>4. Gauges'
  BY GaugesUndisturbed
<1> QED BY <1>1, <1>2, <1>3, <1>4 DEF IInv

(* refuses(c) is a case of evicts(c) for the invariant.                      *)
LEMMA ClosesKeeps ==
  ASSUME IInv, DBAssumption, NEW c \in Conns, refuses(c) \/ evicts(c)
  PROVE  IInv'
<1> USE DEF refuses, evicts, serverVars, callVars
<1>1. /\ conn' \in [Conns -> {"absent", "opening", "idle", "lent", "closing"}]
      /\ ExclusiveConnections' /\ PoolsFollowClient' /\ PoolsEnd'
  BY ConnectionMoves
<1>2. /\ HoldersWork' /\ CleanHandover' /\ FatesSettle' /\ QueuesFit' /\ OneMove'
      /\ RunsInSession' /\ ToldIsFate' /\ StraysOnly'
  BY CallsUndisturbed
<1>3. Gauges'
  <2>1. /\ active = [active EXCEPT ![PoolOf[c]] = @]
        /\ total = [total EXCEPT ![PoolOf[c]] = @]
    BY DEF IInv, TypeOK
  <2>2. conn[c] = "idle" /\ moves(c, "closing") /\ UNCHANGED <<active, total>>
    OBVIOUS
  <2> HIDE DEF refuses, evicts
  <2>3. active' = [active EXCEPT ![PoolOf[c]] =
          IF "closing" = "lent" /\ conn[c] # "lent" THEN @ + 1
          ELSE IF "closing" # "lent" /\ conn[c] = "lent" THEN @ - 1 ELSE @]
    BY <2>1, <2>2
  <2>4. total' = [total EXCEPT ![PoolOf[c]] =
          IF "closing" \in Open /\ conn[c] \notin Open THEN @ + 1
          ELSE IF "closing" \notin Open /\ conn[c] \in Open THEN @ - 1 ELSE @]
    BY <2>1, <2>2 DEF Open
  <2> QED BY <2>2, <2>3, <2>4, GaugesFollow
<1>4. TypeOK'
  <2>1. UNCHANGED <<configured, client, pool, stopping, session, queue, fate, pc, held, via,
                    active, total>>
    BY DEF clientVars
  <2> HIDE DEF refuses, evicts
  <2> QED BY <1>1, <2>1 DEF IInv, TypeOK
<1> QED BY <1>1, <1>2, <1>3, <1>4 DEF IInv

(* The server forgets a connection that is closed: nobody holds it.          *)
LEMMA DestroyKeeps ==
  ASSUME IInv, DBAssumption, NEW c \in Conns, destroy(c)
  PROVE  IInv'
<1> USE DEF destroy, callVars
<1>1. /\ conn' \in [Conns -> {"absent", "opening", "idle", "lent", "closing"}]
      /\ ExclusiveConnections' /\ PoolsFollowClient' /\ PoolsEnd'
  BY ConnectionMoves
<1>2. \A d \in Conns : session'[d] = IF d = c THEN NoTxn ELSE session[d]
  BY DEF IInv, TypeOK
<1>3. \A t \in Callers : held[t] # c
  BY DEF IInv, ExclusiveConnections
<1>4. HoldersWork' /\ FatesSettle' /\ QueuesFit' /\ OneMove' /\ ToldIsFate' /\ StraysOnly'
  <2>1. HoldersWork' /\ FatesSettle' /\ ToldIsFate' /\ StraysOnly'
    BY DEF IInv, HoldersWork, FatesSettle, ToldIsFate, StraysOnly
  <2>2. QueuesFit' /\ OneMove'
    BY DEF IInv, QueuesFit, Fits, OneMove, Moves
  <2> QED BY <2>1, <2>2
<1>5. CleanHandover'
  BY <1>2, <1>3 DEF IInv, CleanHandover
<1>6. RunsInSession'
  <2> SUFFICES ASSUME NEW t \in Txns, pc[t] = "running"
               PROVE  session'[held[t]] = t
    BY DEF RunsInSession
  <2>1. t \in Callers /\ session[held[t]] = t
    BY DEF IInv, RunsInSession, Callers
  <2>2. held[t] \in Conns
    BY <2>1 DEF IInv, HoldersWork, TypeOK, Working
  <2> QED BY <1>2, <1>3, <2>1, <2>2
<1>7. Gauges' /\ total' \in [Pools -> Int]
  BY GaugesFollow DEF Open, IInv, TypeOK
<1>8. TypeOK'
  BY <1>1, <1>7 DEF IInv, TypeOK, clientVars
<1> QED BY <1>1, <1>4, <1>5, <1>6, <1>7, <1>8 DEF IInv

LEMMA DrainedKeeps ==
  ASSUME IInv, NEW p \in Pools, drained(p)
  PROVE  IInv'
<1> USE DEF drained, serverVars, callVars
<1>1. /\ HoldersWork' /\ CleanHandover' /\ FatesSettle' /\ QueuesFit' /\ OneMove'
      /\ RunsInSession' /\ ToldIsFate' /\ StraysOnly'
  BY CallsUndisturbed
<1>2. ExclusiveConnections' /\ Gauges' /\ TypeOK'
  <2>1. ExclusiveConnections'
    BY DEF IInv, ExclusiveConnections
  <2>2. Gauges'
    BY GaugesUndisturbed DEF IInv
  <2>3. TypeOK'
    BY DEF IInv, TypeOK
  <2> QED BY <2>1, <2>2, <2>3
<1>3. \A q \in Pools : stopping'[q] = IF q = p THEN "clearing" ELSE stopping[q]
  BY DEF IInv, TypeOK
<1>4. PoolsFollowClient'
  BY <1>3 DEF IInv, PoolsFollowClient, Pools
<1>5. PoolsEnd'
  BY <1>3 DEF IInv, PoolsEnd, Waiting
<1> QED BY <1>1, <1>2, <1>4, <1>5 DEF IInv

LEMMA ClearedKeeps ==
  ASSUME IInv, NEW p \in Pools, cleared(p)
  PROVE  IInv'
<1> USE DEF cleared, serverVars, callVars
<1>1. /\ HoldersWork' /\ CleanHandover' /\ FatesSettle' /\ QueuesFit' /\ OneMove'
      /\ RunsInSession' /\ ToldIsFate' /\ StraysOnly'
  BY CallsUndisturbed
<1>2. ExclusiveConnections' /\ Gauges' /\ TypeOK'
  <2>1. ExclusiveConnections'
    BY DEF IInv, ExclusiveConnections
  <2>2. Gauges'
    BY GaugesUndisturbed DEF IInv
  <2>3. TypeOK'
    BY DEF IInv, TypeOK
  <2> QED BY <2>1, <2>2, <2>3
<1>3. \A q \in Pools : stopping'[q] = IF q = p THEN "done" ELSE stopping[q]
  BY DEF IInv, TypeOK
<1>4. PoolsFollowClient'
  BY <1>3 DEF IInv, PoolsFollowClient, Pools
<1>5. PoolsEnd'
  BY <1>3 DEF IInv, PoolsEnd, Waiting
<1> QED BY <1>1, <1>2, <1>4, <1>5 DEF IInv

(* The client starts or stops its pools.                                     *)
LEMMA ClientKeeps ==
  ASSUME IInv, initialise \/ poolStarted \/ clientStop \/ poolStopped
  PROVE  IInv'
<1>1. UNCHANGED <<conn, broken, total, serverVars, callVars>>
  BY DEF initialise, poolStarted, clientStop, poolStopped
<1>2. /\ HoldersWork' /\ CleanHandover' /\ FatesSettle' /\ QueuesFit' /\ OneMove'
      /\ RunsInSession' /\ ToldIsFate' /\ StraysOnly'
  BY <1>1, CallsUndisturbed DEF serverVars, callVars
<1>3. ExclusiveConnections' /\ Gauges'
  BY <1>1, GaugesUndisturbed DEF IInv, ExclusiveConnections, callVars
<1>4. \A p \in Pools : Waiting(p)' = Waiting(p)
  BY <1>1 DEF Waiting, callVars
<1>5. pool \in [Pools -> {"none", "STARTED", "STOPPED"}] /\ client \in Client
      /\ stopping \in [Pools -> {"no", "draining", "clearing", "done"}]
  BY DEF IInv, TypeOK
<1>6. PoolsFollowClient /\ PoolsEnd
  BY DEF IInv
<1>7. CASE initialise
  <2>1. /\ client' \in Client /\ UNCHANGED <<configured, stopping>>
        /\ pool' \in [Pools -> {"none", "STARTED", "STOPPED"}]
        /\ \A p \in Pools : pool'[p] # pool[p] => pool[p] = "none" /\ pool'[p] = "STARTED"
    <3>1. /\ client' \in Client
          /\ \/ UNCHANGED <<configured, pool, stopping>>
             \/ start("master") /\ client = "new"
             \/ start("slave") /\ client \in {"new", "starting master"}
      BY <1>7 DEF initialise, MakesSlave, Client
    <3>2. /\ client = "new" => pool["master"] = "none"
          /\ client \in {"new", "starting master"} => pool["slave"] = "none"
      BY <1>6 DEF PoolsFollowClient, Pools
    <3>3. CASE start("master") /\ client = "new"
      BY <1>5, <3>1, <3>2, <3>3 DEF start, Pools
    <3>4. CASE start("slave") /\ client \in {"new", "starting master"}
      BY <1>5, <3>1, <3>2, <3>4 DEF start, Pools
    <3> QED BY <1>5, <3>1, <3>3, <3>4
  <2>2. PoolsFollowClient'
    BY <1>5, <1>6, <1>7 DEF initialise, MakesSlave, start, PoolsFollowClient, Client, Pools
  <2>3. PoolsEnd'
    BY <1>1, <1>4, <1>6, <2>1 DEF PoolsEnd
  <2>4. TypeOK'
    BY <1>1, <2>1 DEF IInv, TypeOK, serverVars, callVars
  <2> QED BY <1>2, <1>3, <2>2, <2>3, <2>4 DEF IInv
<1>8. CASE poolStarted
  <2>1. /\ client' \in Client /\ UNCHANGED <<configured, stopping>>
        /\ pool' \in [Pools -> {"none", "STARTED", "STOPPED"}]
        /\ \A p \in Pools : pool'[p] # pool[p] => pool[p] = "none" /\ pool'[p] = "STARTED"
    <3>1. /\ client' \in Client
          /\ \/ UNCHANGED <<configured, pool, stopping>>
             \/ start("master") /\ client = "new"
             \/ start("slave") /\ client \in {"new", "starting master"}
      BY <1>8 DEF poolStarted, MakesSlave, Client
    <3>2. /\ client = "new" => pool["master"] = "none"
          /\ client \in {"new", "starting master"} => pool["slave"] = "none"
      BY <1>6 DEF PoolsFollowClient, Pools
    <3>3. CASE start("master") /\ client = "new"
      BY <1>5, <3>1, <3>2, <3>3 DEF start, Pools
    <3>4. CASE start("slave") /\ client \in {"new", "starting master"}
      BY <1>5, <3>1, <3>2, <3>4 DEF start, Pools
    <3> QED BY <1>5, <3>1, <3>3, <3>4
  <2>2. PoolsFollowClient'
    BY <1>5, <1>6, <1>8 DEF poolStarted, MakesSlave, start, PoolsFollowClient, Client, Pools
  <2>3. PoolsEnd'
    BY <1>1, <1>4, <1>6, <2>1 DEF PoolsEnd
  <2>4. TypeOK'
    BY <1>1, <2>1 DEF IInv, TypeOK, serverVars, callVars
  <2> QED BY <1>2, <1>3, <2>2, <2>3, <2>4 DEF IInv
<1>9. CASE clientStop
  <2>1. /\ client' \in Client /\ UNCHANGED configured
        /\ pool' \in [Pools -> {"none", "STARTED", "STOPPED"}]
        /\ stopping' \in [Pools -> {"no", "draining", "clearing", "done"}]
        /\ \A p \in Pools : <<pool[p], stopping[p]>>' # <<pool[p], stopping[p]>>
             => pool[p] = "STARTED" /\ pool'[p] = "STOPPED" /\ stopping'[p] = "draining"
    BY <1>5, <1>6, <1>9 DEF clientStop, StopsSlave, stop, PoolsFollowClient, Client, Pools
  <2>2. PoolsFollowClient'
    BY <1>5, <1>6, <1>9 DEF clientStop, StopsSlave, stop, PoolsFollowClient, Client, Pools
  <2>3. PoolsEnd'
    BY <1>1, <1>4, <1>6, <2>1 DEF PoolsEnd
  <2>4. TypeOK'
    BY <1>1, <2>1 DEF IInv, TypeOK, serverVars, callVars
  <2> QED BY <1>2, <1>3, <2>2, <2>3, <2>4 DEF IInv
<1>10. CASE poolStopped
  <2>1. /\ client' \in Client /\ UNCHANGED configured
        /\ pool' \in [Pools -> {"none", "STARTED", "STOPPED"}]
        /\ stopping' \in [Pools -> {"no", "draining", "clearing", "done"}]
        /\ \A p \in Pools : <<pool[p], stopping[p]>>' # <<pool[p], stopping[p]>>
             => pool[p] = "STARTED" /\ pool'[p] = "STOPPED" /\ stopping'[p] = "draining"
    BY <1>5, <1>6, <1>10 DEF poolStopped, StopsSlave, stop, PoolsFollowClient, Client, Pools
  <2>2. PoolsFollowClient'
    BY <1>5, <1>6, <1>10 DEF poolStopped, StopsSlave, stop, PoolsFollowClient, Client, Pools
  <2>3. PoolsEnd'
    BY <1>1, <1>4, <1>6, <2>1 DEF PoolsEnd
  <2>4. TypeOK'
    BY <1>1, <2>1 DEF IInv, TypeOK, serverVars, callVars
  <2> QED BY <1>2, <1>3, <2>2, <2>3, <2>4 DEF IInv
<1> QED BY <1>7, <1>8, <1>9, <1>10
-----------------------------------------------------------------------------
(* What the steps of a call t have in common.                                *)

(* Another call stays where it was.                                          *)
Stays(u) == pc'[u] = pc[u] /\ held'[u] = held[u] /\ (u \in error' <=> u \in error)

LEMMA StayingFits ==
  ASSUME NEW u, NEW s, NEW c, Fits(u, s, c), Stays(u)
  PROVE  Fits(u, s, c)'
BY DEF Fits, Stays

(* The answer that moves t on leaves queues that fit, wherever t goes.       *)
LEMMA AnswerFits ==
  ASSUME IInv, DBAssumption, NEW c \in Conns, NEW t, NEW s, answers(c, t, s), Moves(<<t, s>>),
         \A u \in Callers \ {t} : Stays(u)
  PROVE  QueuesFit'
<1>1. t \in Callers /\ Fits(t, s, c) /\ (t \in Pings \/ s # "query")
  BY AnswerTakes DEF Moves
<1>2. /\ held[t] = c
      /\ s \in Statement
      /\ t \in Txns => pc[t] # "running"
  <2>1. s \in Statement
    <3>1. 1 \in DOMAIN queue[c] /\ queue[c][1] = <<t, s>>
      BY TailEntries DEF answers, IInv, TypeOK
    <3> QED BY <3>1, Entries DEF IInv
  <2>2. CASE s = "query"
    <3>1. t \in Pings /\ t \notin MayStray /\ t \notin Txns
      BY <1>1, <2>2 DEF DBAssumption, Moves
    <3> QED BY <1>1, <2>1, <2>2, <3>1, AnswerTakes DEF Fits
  <2>3. CASE s # "query"
    BY <1>1, <2>1, <2>3, AnswerTakes DEF Fits, Statement
  <2> QED BY <2>2, <2>3
<1> SUFFICES ASSUME NEW d \in Conns, NEW i \in DOMAIN queue'[d], NEW u, NEW k,
                    queue'[d][i][1] = u, queue'[d][i][2] = k
             PROVE  Fits(u, k, d)'
  BY DEF QueuesFit, Fits
<1>3. PICK j \in DOMAIN queue[d] : queue'[d][i] = queue[d][j]
  BY AnswerTakes
<1>4. queue[d][j] = <<u, k>> /\ u \in Callers /\ k \in Statement /\ Fits(u, k, d)
  BY <1>3, Entries DEF IInv, QueuesFit
<1>5. d = c => ~Moves(<<u, k>>)
  BY <1>3, <1>4, AnswerTakes DEF Moves
<1>6. CASE u # t
  BY <1>4, <1>6, StayingFits
<1>7. CASE u = t
  <2>1. k = "query" /\ t \in MayStray
    <3>1. CASE d = c
      BY <1>1, <1>2, <1>4, <1>5, <1>7, <3>1 DEF Moves, Fits, Callers
    <3>2. CASE d # c
      BY <1>2, <1>4, <1>7, <3>2 DEF Fits, Statement
    <3> QED BY <3>1, <3>2
  <2> QED BY <1>7, <2>1 DEF Fits
<1> QED BY <1>6, <1>7

(* Sending leaves queues that fit if what is sent does, and every call stays *)
(* or has nothing but the queries of a stray function in the queues.         *)
LEMMA SendingFits ==
  ASSUME IInv, NEW c \in Conns, NEW t \in Callers, NEW s \in Statement, sends(t, c, s),
         Fits(t, s, c)',
         \A u \in Callers : Stays(u) \/ \A d \in Conns : \A j \in DOMAIN queue[d] :
           queue[d][j][1] = u => queue[d][j][2] = "query" /\ u \in MayStray
  PROVE  QueuesFit'
<1>1. \A d \in Conns : \A i \in DOMAIN queue'[d] :
        \/ i \in DOMAIN queue[d] /\ queue'[d][i] = queue[d][i]
        \/ d = c /\ queue'[d][i] = <<t, s>>
  BY SendingAdds
<1> SUFFICES ASSUME NEW d \in Conns, NEW i \in DOMAIN queue'[d], NEW u, NEW k,
                    queue'[d][i][1] = u, queue'[d][i][2] = k
             PROVE  Fits(u, k, d)'
  BY DEF QueuesFit, Fits
<1>2. CASE d = c /\ queue'[d][i] = <<t, s>>
  BY <1>2
<1>3. CASE i \in DOMAIN queue[d] /\ queue'[d][i] = queue[d][i]
  <2>1. queue[d][i] = <<u, k>> /\ u \in Callers /\ Fits(u, k, d)
    BY <1>3, Entries DEF IInv, QueuesFit
  <2>2. Stays(u) \/ (k = "query" /\ u \in MayStray)
    <3>1. queue[d][i][1] = u /\ queue[d][i][2] = k
      BY <2>1
    <3> QED BY <1>3, <2>1, <3>1
  <2>3. CASE Stays(u)
    BY <2>1, <2>3, StayingFits
  <2>4. CASE k = "query" /\ u \in MayStray
    BY <2>4 DEF Fits
  <2> QED BY <2>2, <2>3, <2>4
<1> QED BY <1>1, <1>2, <1>3

(* The connection that goes back to its pool, when t is done with it.        *)
LEMMA Releases ==
  ASSUME IInv, DBAssumption, NEW c \in Conns, NEW t \in Callers, held[t] = c,
         releaseConnection(t, c), UNCHANGED <<clientVars, total, via>>,
         pc' \in [Callers -> {"idle", "acquiring", "beginning", "running", "ending"} \cup Settled],
         pc'[t] \in Settled, \A u \in Callers \ {t} : pc'[u] = pc[u]
  PROVE  /\ conn' \in [Conns -> {"absent", "opening", "idle", "lent", "closing"}]
         /\ held' \in [Callers -> Conns \cup {NoConn}]
         /\ active' \in [Pools -> Int]
         /\ ExclusiveConnections' /\ HoldersWork'
         /\ PoolsFollowClient' /\ PoolsEnd' /\ Gauges'
<1>1. /\ \A d \in Conns : conn'[d] = IF d = c THEN "idle" ELSE conn[d]
      /\ \A u \in Callers : held'[u] = IF u = t THEN NoConn ELSE held[u]
      /\ conn' \in [Conns -> {"absent", "opening", "idle", "lent", "closing"}]
      /\ held' \in [Callers -> Conns \cup {NoConn}]
  BY DEF IInv, TypeOK, releaseConnection, moves
<1>2. conn[c] = "lent" /\ c # NoConn /\ via[t] = PoolOf[c]
  BY DEF IInv, ExclusiveConnections, HoldersWork, DBAssumption
<1>3. ExclusiveConnections'
  <2>1. \A u \in Callers : u # t => held[u] # c
    BY <1>2 DEF IInv, ExclusiveConnections
  <2>2. \A u, v \in Callers : u # v /\ held'[u] # NoConn => held'[u] # held'[v]
    BY <1>1 DEF IInv, ExclusiveConnections
  <2>3. ASSUME NEW d \in Conns
        PROVE  conn'[d] = "lent" <=> \E u \in Callers : held'[u] = d
    <3>1. d # NoConn /\ (conn[d] = "lent" <=> \E u \in Callers : held[u] = d)
      BY DEF IInv, ExclusiveConnections, DBAssumption
    <3>2. CASE d = c
      BY <1>1, <2>1, <3>1, <3>2
    <3>3. CASE d # c
      BY <1>1, <3>1, <3>3
    <3> QED BY <3>2, <3>3
  <2> QED BY <2>2, <2>3 DEF ExclusiveConnections
<1>4. HoldersWork'
  BY <1>1 DEF IInv, HoldersWork, Settled, Working
<1>5. \A p \in Pools : Waiting(p)' \subseteq Waiting(p)
  BY DEF Waiting, Settled
<1>6. PoolsFollowClient' /\ PoolsEnd'
  BY <1>1, <1>2, <1>5, PoolsUndisturbed
<1>7. Gauges' /\ active' \in [Pools -> Int]
  <2>1. /\ moves(c, "idle")
        /\ active' = [active EXCEPT ![PoolOf[c]] = active[PoolOf[c]] - 1]
        /\ total' = [total EXCEPT ![PoolOf[c]] = total[PoolOf[c]]]
    BY <1>2 DEF releaseConnection, IInv, TypeOK
  <2> QED BY <1>2, <2>1, GaugesFollow DEF Open
<1> QED BY <1>1, <1>3, <1>4, <1>6, <1>7

(* Steps of calls that hold on to what they have: the pools see nothing.     *)
LEMMA HoldsOn ==
  ASSUME IInv, UNCHANGED <<clientVars, conn, total, active, held, via>>,
         \A p \in Pools : pool[p] # "STARTED" => Waiting(p)' \subseteq Waiting(p)
  PROVE  ExclusiveConnections' /\ PoolsFollowClient' /\ PoolsEnd' /\ Gauges'
<1>1. ExclusiveConnections' /\ Gauges'
  BY GaugesUndisturbed DEF IInv, ExclusiveConnections
<1>2. PoolsFollowClient' /\ PoolsEnd'
  BY PoolsUndisturbed
<1> QED BY <1>1, <1>2
-----------------------------------------------------------------------------
(* The steps of the calls.                                                   *)

(* A call in the queue of c that moves on with the answer holds c.           *)
LEMMA AnswerIsHeld ==
  ASSUME IInv, DBAssumption, NEW c \in Conns, NEW t, NEW s, answers(c, t, s)
  PROVE  /\ t \in Callers /\ s \in Statement
         /\ t \in Pings => held[t] = c /\ pc[t] = "running"
         /\ s = "BEGIN" => held[t] = c /\ pc[t] = "beginning"
         /\ s = "COMMIT" => held[t] = c /\ pc[t] = "ending" /\ t \notin error
         /\ s = "ROLLBACK" => held[t] = c /\ pc[t] = "ending" /\ t \in error
         /\ s = "query" /\ t \notin MayStray => held[t] = c /\ pc[t] = "running"
<1>1. t \in Callers /\ Fits(t, s, c)
  BY AnswerTakes
<1>2. s \in Statement
  <2>1. 1 \in DOMAIN queue[c] /\ queue[c][1] = <<t, s>>
    BY TailEntries DEF answers, IInv, TypeOK
  <2> QED BY <2>1, Entries DEF IInv
<1>3. t \in Pings => s = "query" /\ t \notin MayStray
  BY <1>1, <1>2 DEF Fits, Statement, IInv, HoldersWork, DBAssumption
<1> QED BY <1>1, <1>2, <1>3 DEF Fits

LEMMA ObtainConnectionKeeps ==
  ASSUME IInv, DBAssumption, NEW t \in Callers, obtainConnection(t)
  PROVE  IInv'
<1> USE DEF obtainConnection, poolVars, serverVars
<1> DEFINE p == getPoolForReadonly(t)
<1>1. /\ p \in Pools
      /\ pc'[t] \in {"acquiring", "rejected"}
      /\ pc'[t] = "acquiring" => pool[p] = "STARTED"
      /\ via'[t] = p
      /\ \A u \in Callers \ {t} : pc'[u] = pc[u] /\ via'[u] = via[u]
      /\ pc' \in [Callers -> {"idle", "acquiring", "beginning", "running", "ending"} \cup Settled]
      /\ via' \in [Callers -> Pools \cup {"none"}]
  <2>1. p \in Pools
    BY DEF getPoolForReadonly, Pools
  <2> DEFINE q == IF pool[p] = "STARTED" /\ CanWait(p) THEN "acquiring" ELSE "rejected"
  <2>2. via' = [via EXCEPT ![t] = p] /\ pc' = [pc EXCEPT ![t] = q]
    OBVIOUS
  <2>3. q \in {"acquiring", "rejected"} /\ (q = "acquiring" => pool[p] = "STARTED")
    OBVIOUS
  <2>4. /\ pc \in [Callers -> {"idle", "acquiring", "beginning", "running", "ending"} \cup Settled]
        /\ via \in [Callers -> Pools \cup {"none"}]
    BY DEF IInv, TypeOK
  <2> HIDE DEF p, q, obtainConnection
  <2>5. /\ via'[t] = p /\ \A u \in Callers \ {t} : via'[u] = via[u]
        /\ via' \in [Callers -> Pools \cup {"none"}]
    BY <2>1, <2>2, <2>4
  <2>6. /\ pc'[t] = q /\ \A u \in Callers \ {t} : pc'[u] = pc[u]
        /\ pc' \in [Callers -> {"idle", "acquiring", "beginning", "running", "ending"} \cup Settled]
    BY <2>2, <2>3, <2>4 DEF Settled
  <2> QED BY <2>1, <2>3, <2>5, <2>6
<1> HIDE DEF p
<1>2. held[t] = NoConn /\ (t \in Txns => fate[t] = "none")
  BY DEF IInv, HoldersWork, FatesSettle, Settled
<1>3. \A q \in Pools : pool[q] # "STARTED" => Waiting(q)' \subseteq Waiting(q)
  BY <1>1 DEF Waiting
<1>4. ExclusiveConnections'
  BY DEF IInv, ExclusiveConnections
<1>5. PoolsFollowClient' /\ PoolsEnd'
  BY <1>3, PoolsUndisturbed DEF clientVars
<1>6. HoldersWork' /\ CleanHandover' /\ FatesSettle' /\ RunsInSession' /\ ToldIsFate' /\ StraysOnly'
  <2>1. HoldersWork'
    BY <1>1, <1>2 DEF IInv, HoldersWork, Working
  <2>2. CleanHandover' /\ StraysOnly'
    BY DEF IInv, CleanHandover, StraysOnly
  <2>3. FatesSettle'
    BY <1>1, <1>2 DEF IInv, FatesSettle, Callers
  <2>4. RunsInSession'
    BY <1>1 DEF IInv, RunsInSession, Callers
  <2>5. ToldIsFate'
    BY <1>1, <1>2 DEF IInv, ToldIsFate, Callers
  <2> QED BY <2>1, <2>2, <2>3, <2>4, <2>5
<1>7. QueuesFit' /\ OneMove'
  <2>1. OneMove'
    BY DEF IInv, OneMove, Moves
  <2>2. QueuesFit'
    BY <1>1, <1>2 DEF IInv, QueuesFit, Fits
  <2> QED BY <2>1, <2>2
<1>8. Gauges'
  BY GaugesUndisturbed
<1>9. TypeOK'
  BY <1>1 DEF IInv, TypeOK, clientVars
<1> QED BY <1>4, <1>5, <1>6, <1>7, <1>8, <1>9 DEF IInv

LEMMA AcquireTimesOutKeeps ==
  ASSUME IInv, DBAssumption, NEW t \in Callers, acquireTimesOut(t)
  PROVE  IInv'
<1> USE DEF acquireTimesOut, poolVars, serverVars
<1>1. /\ pc'[t] = "rejected"
      /\ \A u \in Callers \ {t} : pc'[u] = pc[u]
      /\ pc' \in [Callers -> {"idle", "acquiring", "beginning", "running", "ending"} \cup Settled]
  BY DEF IInv, TypeOK, Settled
<1>2. held[t] = NoConn /\ (t \in Txns => fate[t] = "none")
  BY DEF IInv, HoldersWork, FatesSettle, Settled
<1>3. \A q \in Pools : Waiting(q)' \subseteq Waiting(q)
  BY <1>1 DEF Waiting
<1>4. ExclusiveConnections' /\ PoolsFollowClient' /\ PoolsEnd' /\ Gauges'
  BY <1>3, HoldsOn DEF clientVars
<1>5. HoldersWork' /\ CleanHandover' /\ FatesSettle' /\ RunsInSession' /\ ToldIsFate' /\ StraysOnly'
  <2>1. HoldersWork'
    BY <1>1, <1>2 DEF IInv, HoldersWork, Working
  <2>2. CleanHandover' /\ StraysOnly'
    BY DEF IInv, CleanHandover, StraysOnly
  <2>3. FatesSettle'
    BY <1>1, <1>2 DEF IInv, FatesSettle, Callers
  <2>4. RunsInSession'
    BY <1>1 DEF IInv, RunsInSession, Callers
  <2>5. ToldIsFate'
    BY <1>1, <1>2 DEF IInv, ToldIsFate, Callers
  <2> QED BY <2>1, <2>2, <2>3, <2>4, <2>5
<1>6. QueuesFit' /\ OneMove'
  <2>1. OneMove'
    BY DEF IInv, OneMove, Moves
  <2>2. QueuesFit'
    BY <1>1, <1>2 DEF IInv, QueuesFit, Fits
  <2> QED BY <2>1, <2>2
<1>7. TypeOK'
  BY <1>1 DEF IInv, TypeOK, clientVars
<1> QED BY <1>4, <1>5, <1>6, <1>7 DEF IInv

(* The connection was idle: nobody held it, and no transaction was open.     *)
LEMMA GetConnectionKeeps ==
  ASSUME IInv, DBAssumption, NEW t \in Callers, NEW c \in Conns, getConnection(t, c)
  PROVE  IInv'
<1> USE DEF getConnection
<1> DEFINE s == IF t \in Txns THEN "BEGIN" ELSE "query"
           k == IF t \in Txns THEN "beginning" ELSE "running"
<1>1. /\ \A d \in Conns : conn'[d] = IF d = c THEN "lent" ELSE conn[d]
      /\ \A u \in Callers : held'[u] = IF u = t THEN c ELSE held[u]
      /\ \A u \in Callers : pc'[u] = IF u = t THEN k ELSE pc[u]
      /\ conn' \in [Conns -> {"absent", "opening", "idle", "lent", "closing"}]
      /\ held' \in [Callers -> Conns \cup {NoConn}]
      /\ pc' \in [Callers -> {"idle", "acquiring", "beginning", "running", "ending"} \cup Settled]
  <2>1. /\ conn' = [conn EXCEPT ![c] = "lent"] /\ held' = [held EXCEPT ![t] = c]
        /\ pc' = [pc EXCEPT ![t] = k]
    BY DEF moves
  <2>2. k \in {"beginning", "running"}
    OBVIOUS
  <2> HIDE DEF getConnection, k
  <2>3. /\ conn \in [Conns -> {"absent", "opening", "idle", "lent", "closing"}]
        /\ held \in [Callers -> Conns \cup {NoConn}]
        /\ pc \in [Callers -> {"idle", "acquiring", "beginning", "running", "ending"} \cup Settled]
    BY DEF IInv, TypeOK
  <2> QED BY <2>1, <2>2, <2>3
<1>2. held[t] = NoConn /\ c # NoConn /\ (t \in Txns => fate[t] = "none")
  BY DEF IInv, HoldersWork, FatesSettle, Settled, DBAssumption
<1>3. \A u \in Callers : held[u] # c
  BY DEF IInv, ExclusiveConnections
<1>4. sends(t, c, s) /\ s \in Statement
  BY DEF Statement
<1>5. \A d \in Conns : \A j \in DOMAIN queue[d] :
        queue[d][j][1] = t => queue[d][j][2] = "query" /\ t \in MayStray
  <2> SUFFICES ASSUME NEW d \in Conns, NEW j \in DOMAIN queue[d], queue[d][j][1] = t
               PROVE  queue[d][j][2] = "query" /\ t \in MayStray
    OBVIOUS
  <2>1. Fits(t, queue[d][j][2], d) /\ queue[d][j][2] \in Statement
    BY Entries DEF IInv, QueuesFit
  <2> QED BY <2>1 DEF Fits, Statement
<1>6. QueuesFit'
  <2>1. Fits(t, s, c)'
    BY <1>1, <1>2 DEF Fits
  <2>2. \A u \in Callers \ {t} : Stays(u)
    BY <1>1 DEF Stays
  <2> HIDE DEF s
  <2> QED BY <1>4, <1>5, <2>1, <2>2, SendingFits
<1>7. OneMove'
  <2>1. \A i \in DOMAIN queue[c] : ~Moves(queue[c][i])
    <3> SUFFICES ASSUME NEW i \in DOMAIN queue[c], Moves(queue[c][i])
                 PROVE  FALSE
      OBVIOUS
    <3>1. /\ queue[c][i][1] \in Callers /\ queue[c][i][2] \in Statement
          /\ Fits(queue[c][i][1], queue[c][i][2], c)
      BY Entries DEF IInv, QueuesFit
    <3>2. queue[c][i][2] = "query" => queue[c][i][1] \notin MayStray
      BY DEF Moves, DBAssumption
    <3> QED BY <1>3, <3>1, <3>2 DEF Fits, Statement
  <2> HIDE DEF s
  <2> QED BY <1>4, <2>1, SendingOneMove
<1>8. queue' \in [Conns -> Seq(Callers \X Statement)]
  <2> HIDE DEF s
  <2> QED BY <1>4, SendingAdds
<1>9. ExclusiveConnections'
  <2>1. \A u, v \in Callers : u # v /\ held'[u] # NoConn => held'[u] # held'[v]
    BY <1>1, <1>3 DEF IInv, ExclusiveConnections
  <2>2. \A d \in Conns : conn'[d] = "lent" <=> \E u \in Callers : held'[u] = d
    <3> SUFFICES ASSUME NEW d \in Conns
                 PROVE  conn'[d] = "lent" <=> \E u \in Callers : held'[u] = d
      OBVIOUS
    <3>1. CASE d = c
      BY <1>1, <3>1
    <3>2. CASE d # c
      <4>1. d # NoConn /\ (conn[d] = "lent" <=> \E u \in Callers : held[u] = d)
        BY DEF IInv, ExclusiveConnections, DBAssumption
      <4> QED BY <1>1, <1>2, <3>2, <4>1
    <3> QED BY <3>1, <3>2
  <2> QED BY <2>1, <2>2 DEF ExclusiveConnections
<1>10. HoldersWork'
  BY <1>1 DEF IInv, HoldersWork, Working, Callers
<1>11. CleanHandover'
  <2> SUFFICES ASSUME NEW d \in Conns, session[d] # NoTxn
               PROVE  held'[session[d]] = d
    BY DEF CleanHandover
  <2>1. session[d] \in Callers /\ d # NoConn
    BY DEF IInv, TypeOK, Callers, DBAssumption
  <2>2. held[session[d]] = d
    BY DEF IInv, CleanHandover
  <2> QED BY <1>1, <1>2, <2>1, <2>2
<1>12. FatesSettle' /\ RunsInSession' /\ ToldIsFate' /\ StraysOnly'
  <2>1. FatesSettle' /\ ToldIsFate' /\ StraysOnly'
    BY <1>1, <1>2 DEF IInv, FatesSettle, ToldIsFate, StraysOnly, Callers
  <2>2. RunsInSession'
    BY <1>1 DEF IInv, RunsInSession, Callers
  <2> QED BY <2>1, <2>2
<1>13. PoolsFollowClient' /\ PoolsEnd'
  <2>1. \A p \in Pools : Waiting(p)' \subseteq Waiting(p)
    BY <1>1 DEF Waiting
  <2>2. \A d \in Conns : conn[d] = "absent" => conn'[d] = "absent"
    BY <1>1
  <2> QED BY <2>1, <2>2, PoolsUndisturbed
<1>14. Gauges' /\ active' \in [Pools -> Int] /\ total' \in [Pools -> Int]
  <2>1. /\ moves(c, "lent")
        /\ active' = [active EXCEPT ![PoolOf[c]] = active[PoolOf[c]] + 1]
        /\ total' = [total EXCEPT ![PoolOf[c]] = total[PoolOf[c]]]
    BY DEF IInv, TypeOK
  <2> QED BY <2>1, GaugesFollow DEF Open
<1>15. TypeOK'
  BY <1>1, <1>8, <1>14 DEF IInv, TypeOK, clientVars
<1> QED BY <1>6, <1>7, <1>9, <1>10, <1>11, <1>12, <1>13, <1>14, <1>15 DEF IInv
LEMMA BeginResolvesKeeps ==
  ASSUME IInv, DBAssumption, NEW t \in Txns, NEW c \in Conns, beginResolves(t, c)
  PROVE  IInv'
<1> USE DEF beginResolves, poolVars
<1>1. /\ t \in Callers /\ held[t] = c /\ pc[t] = "beginning"
      /\ answers(c, t, "BEGIN") /\ Moves(<<t, "BEGIN">>)
  BY AnswerIsHeld DEF Callers, Moves
<1>2. /\ \A u \in Callers : pc'[u] = IF u = t THEN "running" ELSE pc[u]
      /\ \A d \in Conns : session'[d] = IF d = c THEN t ELSE session[d]
      /\ pc' \in [Callers -> {"idle", "acquiring", "beginning", "running", "ending"} \cup Settled]
      /\ session' \in [Conns -> Txns \cup {NoTxn}]
  BY <1>1 DEF IInv, TypeOK
<1>3. fate[t] = "none" /\ c # NoConn
  BY <1>1 DEF IInv, FatesSettle, TypeOK, Settled, DBAssumption
<1>4. QueuesFit' /\ OneMove' /\ queue' \in [Conns -> Seq(Callers \X Statement)]
  <2>1. \A u \in Callers \ {t} : Stays(u)
    BY <1>2 DEF Stays
  <2> QED BY <1>1, <2>1, AnswerFits, AnswerTakes
<1>5. ExclusiveConnections' /\ PoolsFollowClient' /\ PoolsEnd' /\ Gauges'
  <2>1. \A q \in Pools : Waiting(q)' \subseteq Waiting(q)
    BY <1>2 DEF Waiting
  <2> QED BY <2>1, HoldsOn DEF clientVars
<1>6. HoldersWork' /\ StraysOnly'
  BY <1>1, <1>2, <1>3 DEF IInv, HoldersWork, StraysOnly, Working
<1>7. CleanHandover'
  BY <1>1, <1>2 DEF IInv, CleanHandover
<1>8. RunsInSession'
  <2> SUFFICES ASSUME NEW u \in Txns, u # t, pc[u] = "running"
               PROVE  session'[held[u]] = u
    BY <1>1, <1>2 DEF RunsInSession, Callers
  <2>1. session[held[u]] = u /\ held[u] \in Conns /\ held[u] # c
    <3>1. session[held[u]] = u /\ u \in Callers
      BY DEF IInv, RunsInSession, Callers
    <3>2. held[u] # NoConn /\ held[u] \in Conns
      BY <3>1 DEF IInv, HoldersWork, TypeOK, Working
    <3>3. held[u] # held[t]
      BY <1>1, <3>1, <3>2 DEF IInv, ExclusiveConnections
    <3> QED BY <1>1, <3>1, <3>2, <3>3
  <2> QED BY <1>2, <2>1
<1>9. FatesSettle'
  BY <1>2, <1>3 DEF IInv, FatesSettle, Callers
<1>10. ToldIsFate'
  BY <1>2, <1>3 DEF IInv, ToldIsFate, Callers
<1>11. TypeOK'
  BY <1>2, <1>4 DEF IInv, TypeOK, clientVars
<1> QED BY <1>4, <1>5, <1>6, <1>7, <1>8, <1>9, <1>10, <1>11 DEF IInv

LEMMA BeginRejectsKeeps ==
  ASSUME IInv, DBAssumption, NEW t \in Txns, NEW c \in Conns, beginRejects(t, c)
  PROVE  IInv'
<1> USE DEF beginRejects
<1>1. /\ t \in Callers /\ held[t] = c /\ pc[t] = "beginning"
      /\ answers(c, t, "BEGIN") /\ Moves(<<t, "BEGIN">>)
  BY AnswerIsHeld DEF Callers, Moves
<1>2. /\ \A u \in Callers : pc'[u] = IF u = t THEN "rejected" ELSE pc[u]
      /\ pc' \in [Callers -> {"idle", "acquiring", "beginning", "running", "ending"} \cup Settled]
  BY <1>1 DEF IInv, TypeOK, Settled
<1>3. fate[t] = "none" /\ t \notin Pings
  BY <1>1 DEF IInv, FatesSettle, TypeOK, Settled, DBAssumption
<1>4. QueuesFit' /\ OneMove' /\ queue' \in [Conns -> Seq(Callers \X Statement)]
  <2>1. \A u \in Callers \ {t} : Stays(u)
    BY <1>2 DEF Stays
  <2> QED BY <1>1, <2>1, AnswerFits, AnswerTakes
<1>5. ExclusiveConnections' /\ PoolsFollowClient' /\ PoolsEnd' /\ Gauges'
  <2>1. \A q \in Pools : Waiting(q)' \subseteq Waiting(q)
    BY <1>2 DEF Waiting
  <2> QED BY <2>1, HoldsOn DEF clientVars
<1>6. HoldersWork' /\ StraysOnly' /\ CleanHandover'
  BY <1>1, <1>2, <1>3 DEF IInv, HoldersWork, StraysOnly, Working, CleanHandover
<1>7. RunsInSession'
  BY <1>2 DEF IInv, RunsInSession, Callers
<1>8. FatesSettle'
  BY <1>2, <1>3 DEF IInv, FatesSettle, Callers
<1>9. ToldIsFate'
  BY <1>2, <1>3 DEF IInv, ToldIsFate, Callers
<1>10. TypeOK'
  BY <1>2, <1>4 DEF IInv, TypeOK, clientVars
<1> QED BY <1>4, <1>5, <1>6, <1>7, <1>8, <1>9, <1>10 DEF IInv

(* The query of a function that has not strayed finds its transaction open;  *)
(* the transaction that a failing one aborts has not settled.                *)
LEMMA RunsQueryKeeps ==
  ASSUME IInv, DBAssumption, NEW t \in Txns, NEW c \in Conns, runsQuery(t, c)
  PROVE  IInv'
<1> USE DEF runsQuery, callVars
<1>1. t \in Callers /\ answers(c, t, "query")
  BY AnswerIsHeld
<1>2. OneMove' /\ queue' \in [Conns -> Seq(Callers \X Statement)]
  BY <1>1, AnswerTakes
<1>3. QueuesFit'
  <2> SUFFICES ASSUME NEW d \in Conns, NEW i \in DOMAIN queue'[d], NEW u, NEW k,
                      queue'[d][i][1] = u, queue'[d][i][2] = k
               PROVE  Fits(u, k, d)'
    BY DEF QueuesFit, Fits
  <2>1. PICK j \in DOMAIN queue[d] : queue'[d][i] = queue[d][j]
    BY <1>1, AnswerTakes
  <2>2. u \in Callers /\ Fits(u, k, d)
    BY <2>1, Entries DEF IInv, QueuesFit
  <2>3. Stays(u)
    BY DEF Stays
  <2> QED BY <2>2, <2>3, StayingFits
<1>4. ExclusiveConnections' /\ PoolsFollowClient' /\ PoolsEnd' /\ Gauges'
  <2>1. \A q \in Pools : Waiting(q)' \subseteq Waiting(q)
    BY DEF Waiting
  <2> QED BY <2>1, HoldsOn DEF clientVars
<1>5. HoldersWork' /\ CleanHandover' /\ FatesSettle' /\ RunsInSession'
  BY DEF IInv, HoldersWork, CleanHandover, FatesSettle, RunsInSession
<1>6. StraysOnly'
  <2>1. t \notin MayStray => session[c] = t
    BY <1>1, AnswerIsHeld DEF IInv, RunsInSession
  <2> QED BY <2>1 DEF IInv, StraysOnly
<1>7. ToldIsFate'
  <2>1. \A v \in aborted' \ aborted : v = session[c] /\ v # NoTxn
    OBVIOUS
  <2>2. \A v \in aborted' \ aborted : v \in Txns => pc[v] \notin {"resolved"}
    BY <2>1 DEF IInv, CleanHandover, HoldersWork, Callers, DBAssumption
  <2> QED BY <2>2 DEF IInv, ToldIsFate
<1>8. TypeOK'
  BY <1>2 DEF IInv, TypeOK, clientVars
<1> QED BY <1>2, <1>3, <1>4, <1>5, <1>6, <1>7, <1>8 DEF IInv

LEMMA PingEndsKeeps ==
  ASSUME IInv, DBAssumption, NEW t \in Pings, NEW c \in Conns, pingEnds(t, c)
  PROVE  IInv'
<1> USE DEF pingEnds
<1>1. /\ t \in Callers /\ held[t] = c /\ pc[t] = "running" /\ t \notin Txns
      /\ answers(c, t, "query") /\ Moves(<<t, "query">>)
  BY AnswerIsHeld DEF Callers, Moves, DBAssumption
<1>2. /\ \A u \in Callers \ {t} : pc'[u] = pc[u]
      /\ pc'[t] \in Settled
      /\ pc' \in [Callers -> {"idle", "acquiring", "beginning", "running", "ending"} \cup Settled]
  <2>1. PICK q \in Settled : pc' = [pc EXCEPT ![t] = q]
    BY DEF Settled
  <2> HIDE DEF pingEnds
  <2> QED BY <1>1, <2>1 DEF IInv, TypeOK
<1>3. \A u \in Callers : held'[u] = IF u = t THEN NoConn ELSE held[u]
  BY DEF releaseConnection, IInv, TypeOK
<1>4. QueuesFit' /\ OneMove' /\ queue' \in [Conns -> Seq(Callers \X Statement)]
  <2>1. \A u \in Callers \ {t} : Stays(u)
    BY <1>2, <1>3 DEF Stays
  <2> QED BY <1>1, <2>1, AnswerFits, AnswerTakes
<1>5. /\ conn' \in [Conns -> {"absent", "opening", "idle", "lent", "closing"}]
      /\ held' \in [Callers -> Conns \cup {NoConn}]
      /\ active' \in [Pools -> Int]
      /\ ExclusiveConnections' /\ HoldersWork'
      /\ PoolsFollowClient' /\ PoolsEnd' /\ Gauges'
  BY <1>1, <1>2, Releases
<1>6. CleanHandover' /\ StraysOnly'
  <2>1. ASSUME NEW d \in Conns, session[d] # NoTxn
        PROVE  held'[session[d]] = d
    <3> HIDE DEF pingEnds
    <3>1. session[d] \in Txns
      BY <2>1 DEF IInv, TypeOK
    <3>2. held[session[d]] = d
      BY <2>1 DEF IInv, CleanHandover
    <3> QED BY <1>1, <1>3, <3>1, <3>2 DEF Callers
  <2>2. session' = session /\ outside' = outside
    OBVIOUS
  <2> HIDE DEF pingEnds
  <2>3. StraysOnly'
    BY <2>2 DEF IInv, StraysOnly
  <2> QED BY <2>1, <2>2, <2>3 DEF CleanHandover
<1>7. FatesSettle' /\ RunsInSession' /\ ToldIsFate'
  <2>1. \A u \in Txns : pc'[u] = pc[u] /\ held'[u] = held[u]
    BY <1>1, <1>2, <1>3 DEF Callers
  <2> QED BY <2>1 DEF IInv, FatesSettle, RunsInSession, ToldIsFate
<1>8. TypeOK'
  BY <1>2, <1>4, <1>5 DEF IInv, TypeOK, clientVars
<1> QED BY <1>4, <1>5, <1>6, <1>7, <1>8 DEF IInv

(* COMMIT and ROLLBACK: the server decides, the connection goes back.        *)
LEMMA EndResolvesKeeps ==
  ASSUME IInv, DBAssumption, NEW t \in Txns, NEW c \in Conns, NEW s \in {"COMMIT", "ROLLBACK"},
         endResolves(t, c, s)
  PROVE  IInv'
<1> USE DEF endResolves
<1>1. /\ t \in Callers /\ held[t] = c /\ pc[t] = "ending" /\ t \notin Pings
      /\ answers(c, t, s) /\ Moves(<<t, s>>)
      /\ s = "COMMIT" <=> t \notin error
  BY AnswerIsHeld DEF Callers, Moves, DBAssumption
<1>2. /\ \A u \in Callers \ {t} : pc'[u] = pc[u]
      /\ t \in failed => pc'[t] = "rejected"
      /\ t \notin failed => pc'[t] = "resolved"
      /\ pc' \in [Callers -> {"idle", "acquiring", "beginning", "running", "ending"} \cup Settled]
  BY <1>1 DEF IInv, TypeOK, Settled
<1>3. \A u \in Callers : held'[u] = IF u = t THEN NoConn ELSE held[u]
  BY DEF releaseConnection, IInv, TypeOK
<1>4. /\ \A d \in Conns : session'[d] = IF d = c THEN NoTxn ELSE session[d]
      /\ session' \in [Conns -> Txns \cup {NoTxn}]
      /\ \A u \in Txns : u # t => fate'[u] = fate[u]
      /\ t \in error \cup aborted => fate'[t] = "rolled back"
      /\ t \notin error \cup aborted => fate'[t] = "committed"
      /\ fate' \in [Txns -> {"none", "committed", "rolled back"}]
  <2>1. /\ session' \in [Conns -> Txns \cup {NoTxn}]
        /\ \A d \in Conns : session'[d] = IF d = c THEN NoTxn ELSE session[d]
    BY DEF IInv, TypeOK
  <2>2. PICK f \in {"committed", "rolled back"} :
          /\ fate' = [fate EXCEPT ![t] = f]
          /\ t \in error \cup aborted => f = "rolled back"
          /\ t \notin error \cup aborted => f = "committed"
    BY <1>1
  <2> HIDE DEF endResolves
  <2> QED BY <2>1, <2>2 DEF IInv, TypeOK
<1>5. QueuesFit' /\ OneMove' /\ queue' \in [Conns -> Seq(Callers \X Statement)]
  <2>1. \A u \in Callers \ {t} : Stays(u)
    BY <1>2, <1>3 DEF Stays
  <2> QED BY <1>1, <2>1, AnswerFits, AnswerTakes
<1>6. /\ conn' \in [Conns -> {"absent", "opening", "idle", "lent", "closing"}]
      /\ held' \in [Callers -> Conns \cup {NoConn}]
      /\ active' \in [Pools -> Int]
      /\ ExclusiveConnections' /\ HoldersWork'
      /\ PoolsFollowClient' /\ PoolsEnd' /\ Gauges'
  BY <1>1, <1>2, Releases DEF Settled
<1>7. CleanHandover' /\ StraysOnly'
  <2>1. ASSUME NEW d \in Conns, session'[d] # NoTxn
        PROVE  held'[session'[d]] = d
    <3>1. d # c /\ session'[d] = session[d]
      BY <1>4, <2>1
    <3>2. session[d] \in Callers
      BY <2>1, <3>1 DEF IInv, TypeOK, Callers
    <3>3. held[session[d]] = d
      BY <2>1, <3>1 DEF IInv, CleanHandover
    <3> QED BY <1>1, <1>3, <3>1, <3>2, <3>3
  <2> QED BY <2>1 DEF IInv, CleanHandover, StraysOnly
<1>8. RunsInSession'
  <2> SUFFICES ASSUME NEW u \in Txns, pc'[u] = "running"
               PROVE  session'[held'[u]] = u
    BY DEF RunsInSession
  <2>1. u # t /\ u \in Callers /\ pc[u] = "running"
    BY <1>2 DEF Callers
  <2>2. session[held[u]] = u /\ held[u] \in Conns /\ held[u] # c
    <3>1. session[held[u]] = u
      BY <2>1 DEF IInv, RunsInSession
    <3>2. held[u] # NoConn /\ held[u] \in Conns
      BY <2>1 DEF IInv, HoldersWork, TypeOK, Working
    <3>3. held[u] # held[t]
      BY <1>1, <2>1, <3>2 DEF IInv, ExclusiveConnections
    <3> QED BY <1>1, <3>1, <3>2, <3>3
  <2> QED BY <1>3, <1>4, <2>1, <2>2
<1>9. FatesSettle'
  <2>1. pc'[t] \in Settled /\ held'[t] = NoConn
    BY <1>1, <1>2, <1>3 DEF Settled
  <2>2. \A u \in Txns \ {t} : fate'[u] = fate[u] /\ pc'[u] = pc[u] /\ held'[u] = held[u]
    BY <1>2, <1>3, <1>4 DEF Callers
  <2> QED BY <2>1, <2>2 DEF IInv, FatesSettle
<1>10. ToldIsFate'
  <2> SUFFICES ASSUME NEW u \in Txns
               PROVE  /\ u \in failed /\ "falsy" \notin MayFail => u \in error
                      /\ pc'[u] = "resolved" =>
                           /\ u \notin failed
                           /\ fate'[u] = IF u \in error \cup aborted THEN "rolled back" ELSE "committed"
                      /\ fate'[u] = "committed" => u \notin error
    BY DEF ToldIsFate
  <2>1. CASE u = t
    <3>1. t \in failed /\ "falsy" \notin MayFail => t \in error
      BY DEF IInv, ToldIsFate
    <3> QED BY <1>2, <1>4, <2>1, <3>1
  <2>2. CASE u # t
    BY <1>2, <1>4, <2>2 DEF IInv, ToldIsFate, Callers
  <2> QED BY <2>1, <2>2
<1>11. TypeOK'
  BY <1>2, <1>4, <1>5, <1>6 DEF IInv, TypeOK, clientVars
<1> QED BY <1>5, <1>6, <1>7, <1>8, <1>9, <1>10, <1>11 DEF IInv

LEMMA EndRejectsKeeps ==
  ASSUME IInv, DBAssumption, NEW t \in Txns, NEW c \in Conns, NEW s \in {"COMMIT", "ROLLBACK"},
         endRejects(t, c, s)
  PROVE  IInv'
<1> USE DEF endRejects
<1>1. /\ t \in Callers /\ held[t] = c /\ pc[t] = "ending" /\ t \notin Pings
      /\ answers(c, t, s) /\ Moves(<<t, s>>)
  BY AnswerIsHeld DEF Callers, Moves, DBAssumption
<1>2. /\ \A u \in Callers : pc'[u] = IF u = t THEN "rejected" ELSE pc[u]
      /\ pc' \in [Callers -> {"idle", "acquiring", "beginning", "running", "ending"} \cup Settled]
  BY <1>1 DEF IInv, TypeOK, Settled
<1>3. fate[t] = "none"
  BY <1>1 DEF IInv, FatesSettle, TypeOK, Settled
<1>4. QueuesFit' /\ OneMove' /\ queue' \in [Conns -> Seq(Callers \X Statement)]
  <2>1. \A u \in Callers \ {t} : Stays(u)
    BY <1>2 DEF Stays
  <2> QED BY <1>1, <2>1, AnswerFits, AnswerTakes
<1>5. ExclusiveConnections' /\ PoolsFollowClient' /\ PoolsEnd' /\ Gauges'
  <2>1. \A q \in Pools : Waiting(q)' \subseteq Waiting(q)
    BY <1>2 DEF Waiting
  <2> QED BY <2>1, HoldsOn DEF clientVars
<1>6. HoldersWork' /\ StraysOnly' /\ CleanHandover'
  BY <1>1, <1>2, <1>3 DEF IInv, HoldersWork, StraysOnly, Working, CleanHandover
<1>7. RunsInSession'
  BY <1>2 DEF IInv, RunsInSession, Callers
<1>8. FatesSettle'
  BY <1>2, <1>3 DEF IInv, FatesSettle, Callers
<1>9. ToldIsFate'
  BY <1>2, <1>3 DEF IInv, ToldIsFate, Callers
<1>10. TypeOK'
  BY <1>2, <1>4 DEF IInv, TypeOK, clientVars
<1> QED BY <1>4, <1>5, <1>6, <1>7, <1>8, <1>9, <1>10 DEF IInv
-----------------------------------------------------------------------------
(* The steps of the functions.                                               *)
LEMMA IssuesQueryKeeps ==
  ASSUME IInv, DBAssumption, NEW t \in Txns, issuesQuery(t)
  PROVE  IInv'
<1> USE DEF issuesQuery, poolVars
<1> PICK c \in {held[t]} : TRUE
  OBVIOUS
<1>1. c \in Conns /\ t \in Callers /\ "query" \in Statement
  BY DEF IInv, TypeOK, Callers, Statement
<1>2. sends(t, c, "query") /\ ~Moves(<<t, "query">>)
  BY DEF Moves, DBAssumption
<1>3. QueuesFit'
  <2>1. Fits(t, "query", c)'
    BY DEF Fits
  <2>2. \A u \in Callers : Stays(u)
    BY DEF Stays
  <2> QED BY <1>1, <1>2, <2>1, <2>2, SendingFits
<1>4. OneMove' /\ queue' \in [Conns -> Seq(Callers \X Statement)]
  BY <1>1, <1>2, SendingOneMove, SendingAdds
<1>5. ExclusiveConnections' /\ PoolsFollowClient' /\ PoolsEnd' /\ Gauges'
  <2>1. \A q \in Pools : Waiting(q)' \subseteq Waiting(q)
    BY DEF Waiting
  <2> QED BY <2>1, HoldsOn DEF clientVars
<1>6. /\ HoldersWork' /\ CleanHandover' /\ FatesSettle' /\ RunsInSession' /\ ToldIsFate'
      /\ StraysOnly'
  BY DEF IInv, HoldersWork, CleanHandover, FatesSettle, RunsInSession, ToldIsFate, StraysOnly
<1>7. TypeOK'
  BY <1>4 DEF IInv, TypeOK, clientVars
<1> QED BY <1>3, <1>4, <1>5, <1>6, <1>7 DEF IInv

LEMMA MarksErrorKeeps ==
  ASSUME IInv, DBAssumption, NEW t \in Txns, marksError(t)
  PROVE  IInv'
<1> USE DEF marksError, poolVars, serverVars
<1>1. t \in Callers /\ fate[t] = "none"
  BY DEF IInv, FatesSettle, TypeOK, Callers, Settled
<1>2. QueuesFit' /\ OneMove'
  <2>1. OneMove'
    BY DEF IInv, OneMove, Moves
  <2>2. QueuesFit'
    BY DEF IInv, QueuesFit, Fits
  <2> QED BY <2>1, <2>2
<1>3. ExclusiveConnections' /\ PoolsFollowClient' /\ PoolsEnd' /\ Gauges'
  <2>1. \A q \in Pools : Waiting(q)' \subseteq Waiting(q)
    BY DEF Waiting
  <2> QED BY <2>1, HoldsOn DEF clientVars
<1>4. HoldersWork' /\ CleanHandover' /\ FatesSettle' /\ RunsInSession' /\ StraysOnly'
  BY DEF IInv, HoldersWork, CleanHandover, FatesSettle, RunsInSession, StraysOnly
<1>5. ToldIsFate'
  BY <1>1 DEF IInv, ToldIsFate
<1>6. TypeOK'
  BY DEF IInv, TypeOK, clientVars
<1> QED BY <1>2, <1>3, <1>4, <1>5, <1>6 DEF IInv

(* end() sends COMMIT or ROLLBACK after the queries that were awaited.       *)
LEMMA EndsKeeps ==
  ASSUME IInv, DBAssumption, NEW t \in Txns, NEW marked, ends(t, marked),
         marked \in {error, error \cup {t}, error \ {t}},
         failed' = failed \/ failed' = failed \cup {t},
         "falsy" \notin MayFail /\ t \in failed' \ failed => t \in marked,
         "falsy" \notin MayFail => error \subseteq marked
  PROVE  IInv'
<1> USE DEF ends, poolVars
<1> DEFINE s == IF t \in marked THEN "ROLLBACK" ELSE "COMMIT"
<1> PICK c \in {held[t]} : TRUE
  OBVIOUS
<1>1. c \in Conns /\ c # NoConn /\ t \in Callers /\ t \notin Pings /\ fate[t] = "none"
  <2>1. t \in Callers /\ t \notin Pings
    BY DEF Callers, DBAssumption
  <2>2. c # NoConn /\ c \in Conns
    <3>1. pc[t] = "running" /\ c = held[t] /\ held[t] \in Conns \cup {NoConn}
      BY <2>1 DEF IInv, TypeOK
    <3>2. held[t] # NoConn
      BY <2>1, <3>1 DEF IInv, HoldersWork, Working
    <3> QED BY <3>1, <3>2
  <2>3. fate[t] = "none"
    BY DEF IInv, FatesSettle, Settled
  <2> QED BY <2>1, <2>2, <2>3
<1>2. /\ \A u \in Callers : pc'[u] = IF u = t THEN "ending" ELSE pc[u]
      /\ pc' \in [Callers -> {"idle", "acquiring", "beginning", "running", "ending"} \cup Settled]
  BY <1>1 DEF IInv, TypeOK
<1>3. sends(t, c, s) /\ s \in Statement
  BY DEF Statement
<1>4. \A d \in Conns : \A j \in DOMAIN queue[d] :
        queue[d][j][1] = t => queue[d][j][2] = "query" /\ t \in MayStray
  <2> SUFFICES ASSUME NEW d \in Conns, NEW j \in DOMAIN queue[d], queue[d][j][1] = t
               PROVE  queue[d][j][2] = "query" /\ t \in MayStray
    OBVIOUS
  <2>1. /\ Fits(t, queue[d][j][2], d) /\ queue[d][j][2] \in Statement
        /\ queue[d][j] \in Callers \X Statement
    BY Entries DEF IInv, QueuesFit
  <2>2. queue[d][j][2] = "query"
    BY <2>1 DEF Fits, Statement
  <2>3. ASSUME t \notin MayStray
        PROVE  FALSE
    <3>1. d = c /\ queue[d][j] = <<t, "query">>
      BY <2>1, <2>2, <2>3 DEF Fits
    <3> QED BY <2>3, <3>1 DEF HasAwaited
  <2> QED BY <2>2, <2>3
<1>5. QueuesFit'
  <2>1. Fits(t, s, c)'
    BY <1>1, <1>2 DEF Fits
  <2>2. \A u \in Callers \ {t} : Stays(u)
    BY <1>2 DEF Stays
  <2>3. \A u \in Callers : Stays(u) \/ \A d \in Conns : \A j \in DOMAIN queue[d] :
          queue[d][j][1] = u => queue[d][j][2] = "query" /\ u \in MayStray
    BY <1>4, <2>2
  <2> HIDE DEF s
  <2> QED BY <1>1, <1>3, <2>1, <2>3, SendingFits
<1>6. OneMove' /\ queue' \in [Conns -> Seq(Callers \X Statement)]
  <2>1. \A i \in DOMAIN queue[c] : ~Moves(queue[c][i])
    <3> SUFFICES ASSUME NEW i \in DOMAIN queue[c], Moves(queue[c][i])
                 PROVE  FALSE
      OBVIOUS
    <3>1. /\ queue[c][i][1] \in Callers /\ queue[c][i][2] \in Statement
          /\ Fits(queue[c][i][1], queue[c][i][2], c)
      BY <1>1, Entries DEF IInv, QueuesFit
    <3>2. queue[c][i][2] = "query" => queue[c][i][1] \in Pings \ MayStray
      BY DEF Moves, DBAssumption
    <3>3. held[queue[c][i][1]] = c
      BY <3>1, <3>2 DEF Fits, Statement
    <3>4. queue[c][i][1] = t
      BY <1>1, <3>1, <3>3 DEF IInv, ExclusiveConnections
    <3> QED BY <1>1, <1>4, <3>2, <3>4
  <2> HIDE DEF s
  <2> QED BY <1>1, <1>3, <2>1, SendingOneMove, SendingAdds
<1>7. ExclusiveConnections' /\ PoolsFollowClient' /\ PoolsEnd' /\ Gauges'
  <2>1. \A q \in Pools : Waiting(q)' \subseteq Waiting(q)
    BY <1>2 DEF Waiting
  <2> QED BY <2>1, HoldsOn DEF clientVars
<1>8. HoldersWork' /\ CleanHandover' /\ StraysOnly'
  BY <1>1, <1>2 DEF IInv, HoldersWork, CleanHandover, StraysOnly, Working
<1>9. FatesSettle' /\ RunsInSession'
  BY <1>1, <1>2 DEF IInv, FatesSettle, RunsInSession, Callers
<1>10. ToldIsFate'
  <2> SUFFICES ASSUME NEW u \in Txns
               PROVE  /\ u \in failed' /\ "falsy" \notin MayFail => u \in error'
                      /\ pc'[u] = "resolved" =>
                           /\ u \notin failed'
                           /\ fate[u] = IF u \in error' \cup aborted THEN "rolled back" ELSE "committed"
                      /\ fate[u] = "committed" => u \notin error'
    BY DEF ToldIsFate
  <2>1. CASE u = t
    BY <1>1, <1>2, <2>1 DEF IInv, ToldIsFate
  <2>2. CASE u # t
    <3>1. (u \in error' <=> u \in error) /\ (u \in failed' <=> u \in failed) /\ pc'[u] = pc[u]
      BY <1>2, <2>2 DEF Callers
    <3> QED BY <3>1 DEF IInv, ToldIsFate
  <2> QED BY <2>1, <2>2
<1>11. TypeOK'
  BY <1>2, <1>6 DEF IInv, TypeOK, clientVars
<1> QED BY <1>5, <1>6, <1>7, <1>8, <1>9, <1>10, <1>11 DEF IInv

LEMMA FunctionKeeps ==
  ASSUME IInv, DBAssumption, NEW t \in Txns, Function(t)
  PROVE  IInv'
<1>1. CASE functionResolves(t)
  <2>1. ends(t, error) /\ failed' = failed
    BY <1>1 DEF functionResolves
  <2> QED BY <2>1, EndsKeeps
<1>2. CASE functionRejects(t)
  <2>1. ends(t, error \cup {t}) /\ failed' = failed \cup {t}
    BY <1>2 DEF functionRejects
  <2> QED BY <2>1, EndsKeeps
<1>3. CASE functionRejectsFalsy(t)
  <2>1. "falsy" \in MayFail /\ ends(t, error \ {t}) /\ failed' = failed \cup {t}
    BY <1>3 DEF functionRejectsFalsy
  <2> QED BY <2>1, EndsKeeps
<1> QED BY <1>1, <1>2, <1>3 DEF Function
-----------------------------------------------------------------------------
(* The invariant.                                                            *)
LEMMA InitImpliesIInv ==
  ASSUME DBAssumption, Init
  PROVE  IInv
<1> USE DEF Init
<1>1. TypeOK
  <2>1. <<>> \in Seq(Callers \X Statement)
    OBVIOUS
  <2> QED BY <2>1 DEF TypeOK, Client, DBAssumption
<1>2. ExclusiveConnections /\ HoldersWork /\ CleanHandover /\ FatesSettle
  BY DEF ExclusiveConnections, HoldersWork, CleanHandover, FatesSettle, Working, DBAssumption
<1>3. QueuesFit /\ OneMove
  <2>1. \A c \in Conns : DOMAIN queue[c] = {}
    OBVIOUS
  <2> QED BY <2>1 DEF QueuesFit, OneMove
<1>4. RunsInSession /\ ToldIsFate /\ StraysOnly
  BY DEF RunsInSession, ToldIsFate, StraysOnly, Callers
<1>5. PoolsFollowClient /\ PoolsEnd
  BY DEF PoolsFollowClient, PoolsEnd, Waiting
<1>6. Gauges
  <2>1. ASSUME NEW p \in Pools
        PROVE  In(p, {"lent"}) = {} /\ In(p, Open) = {}
    BY DEF In, Open
  <2> QED BY <2>1, FS_EmptySet DEF Gauges
<1> QED BY <1>1, <1>2, <1>3, <1>4, <1>5, <1>6 DEF IInv

LEMMA StepPreserves ==
  ASSUME DBAssumption, IInv, [Next]_vars
  PROVE  IInv'
<1>1. CASE UNCHANGED vars
  <2> USE <1>1 DEF vars, poolVars, serverVars, callVars
  <2>1. /\ HoldersWork' /\ CleanHandover' /\ FatesSettle' /\ QueuesFit' /\ OneMove'
        /\ RunsInSession' /\ ToldIsFate' /\ StraysOnly'
    BY CallsUndisturbed
  <2>2. ExclusiveConnections' /\ PoolsFollowClient' /\ PoolsEnd' /\ Gauges'
    BY HoldsOn DEF Waiting
  <2>3. TypeOK'
    BY DEF IInv, TypeOK, clientVars
  <2> QED BY <2>1, <2>2, <2>3 DEF IInv
<1>2. CASE initialise \/ poolStarted \/ clientStop \/ poolStopped
  BY <1>2, ClientKeeps
<1>3. ASSUME NEW p \in Pools, drained(p) \/ cleared(p)
      PROVE  IInv'
  BY <1>3, DrainedKeeps, ClearedKeeps
<1>4. ASSUME NEW c \in Conns, opens(c) \/ create(c) \/ createFails(c) \/ breaks(c)
      PROVE  IInv'
  BY <1>4, OpensKeeps, CreateKeeps, CreateFailsKeeps, BreaksKeeps
<1>5. ASSUME NEW c \in Conns, refuses(c) \/ evicts(c) \/ destroy(c)
      PROVE  IInv'
  BY <1>5, ClosesKeeps, DestroyKeeps
<1>6. ASSUME NEW c \in Conns, Answer(c)
      PROVE  IInv'
  <2>1. ASSUME NEW t \in Txns, beginResolves(t, c) \/ beginRejects(t, c) \/ runsQuery(t, c)
        PROVE  IInv'
    BY <2>1, BeginResolvesKeeps, BeginRejectsKeeps, RunsQueryKeeps
  <2>2. ASSUME NEW t \in Txns, NEW s \in {"COMMIT", "ROLLBACK"},
               endResolves(t, c, s) \/ endRejects(t, c, s)
        PROVE  IInv'
    BY <2>2, EndResolvesKeeps, EndRejectsKeeps
  <2>3. ASSUME NEW t \in Pings, pingEnds(t, c)
        PROVE  IInv'
    BY <2>3, PingEndsKeeps
  <2> QED BY <1>6, <2>1, <2>2, <2>3 DEF Answer
<1>7. ASSUME NEW t \in Callers, obtainConnection(t) \/ acquireTimesOut(t)
      PROVE  IInv'
  BY <1>7, ObtainConnectionKeeps, AcquireTimesOutKeeps
<1>8. ASSUME NEW t \in Callers, NEW c \in Conns, getConnection(t, c)
      PROVE  IInv'
  BY <1>8, GetConnectionKeeps
<1>9. ASSUME NEW t \in Txns, issuesQuery(t) \/ marksError(t) \/ Function(t)
      PROVE  IInv'
  BY <1>9, IssuesQueryKeeps, MarksErrorKeeps, FunctionKeeps
<1> QED BY <1>1, <1>2, <1>3, <1>4, <1>5, <1>6, <1>7, <1>8, <1>9 DEF Next

THEOREM Inductive == Spec => []IInv
<1>1. Init => IInv
  BY DBAssumption, InitImpliesIInv
<1>2. IInv /\ [Next]_vars => IInv'
  BY DBAssumption, StepPreserves
<1> QED BY <1>1, <1>2, PTL DEF Spec

-----------------------------------------------------------------------------
(* A connection is never lent to two calls at once, and what generic-pool    *)
(* counts as lent is what some call will give back.                          *)
THEOREM ConnectionsAreExclusive == Spec => []ExclusiveConnections
<1>1. IInv => ExclusiveConnections
  BY DEF IInv
<1> QED BY <1>1, Inductive, PTL

(* No connection goes back to its pool with a transaction open on it.        *)
THEOREM HandoverIsClean == Spec => []CleanHandover
<1>1. IInv => CleanHandover
  BY DEF IInv
<1> QED BY <1>1, Inductive, PTL

(* A pool loses a connection only to a transaction whose own BEGIN, COMMIT   *)
(* or ROLLBACK failed.                                                       *)
THEOREM OnlyControlLeaks == Spec => []LeaksOnlyByControl
<1>1. IInv => LeaksOnlyByControl
  <2> SUFFICES ASSUME IInv, NEW t \in Callers, pc[t] \in Settled, held[t] # NoConn
               PROVE  ControlFailure(t)
    BY DEF LeaksOnlyByControl
  <2>1. pc[t] = "rejected" /\ t \in Txns
    BY DEF IInv, HoldersWork, Settled, Callers
  <2>2. fate[t] = "none"
    BY <2>1 DEF IInv, FatesSettle
  <2> QED BY <2>1, <2>2 DEF ControlFailure
<1> QED BY <1>1, Inductive, PTL

(* The caller of runInTransaction() is told what the server did with its     *)
(* transaction, unless functions reject with a falsy value.                  *)
THEOREM CallersAreToldTheFate ==
  ASSUME "falsy" \notin MayFail
  PROVE  Spec => []OutcomeIsFate
<1>1. IInv => OutcomeIsFate
  BY DEF IInv, ToldIsFate, OutcomeIsFate
<1> QED BY <1>1, Inductive, PTL

(* Falsy rejections included, whoever sees runInTransaction() resolve has a  *)
(* transaction that the server decided as the mark of the function says.     *)
THEOREM ResolvedIsDecided == Spec => []ToldIsFate
<1>1. IInv => ToldIsFate
  BY DEF IInv
<1> QED BY <1>1, Inductive, PTL

(* A query runs outside of its transaction only if the function let it stray.*)
THEOREM OnlyStraysRunOutside == Spec => [](outside \subseteq MayStray)
<1>1. IInv => outside \subseteq MayStray
  BY DEF IInv, StraysOnly
<1> QED BY <1>1, Inductive, PTL

(* Functions that await their queries have them all run inside.              *)
THEOREM AwaitedQueriesRunInside ==
  ASSUME MayStray = {}
  PROVE  Spec => []QueriesInside
<1>1. IInv => QueriesInside
  BY DEF IInv, StraysOnly, QueriesInside
<1> QED BY <1>1, Inductive, PTL

(* Each gauge is the number of connections lent, or open, of its pool, and   *)
(* when the client has stopped no connection is left.                        *)
THEOREM GaugesTellTheTruth == Spec => []GaugesExact
<1>1. IInv => GaugesExact
  <2> SUFFICES ASSUME IInv PROVE GaugesExact
    OBVIOUS
  <2>1. \A p \in Pools : /\ active[p] = Cardinality(In(p, {"lent"}))
                         /\ total[p] = Cardinality(In(p, {"idle", "lent", "closing"}))
    BY DEF IInv, Gauges, Open
  <2>2. ASSUME client = "stopped", NEW c \in Conns
        PROVE  conn[c] = "absent"
    <3>1. PoolOf[c] \in Pools
      BY DBAssumption DEF DBAssumption
    <3>2. pool[PoolOf[c]] = "none" \/ stopping[PoolOf[c]] = "done"
      BY <2>2, <3>1 DEF IInv, PoolsFollowClient
    <3> QED BY <3>1, <3>2 DEF IInv, PoolsEnd
  <2> QED BY <2>1, <2>2 DEF GaugesExact, In
<1> QED BY <1>1, Inductive, PTL
-----------------------------------------------------------------------------
(* The refinement of ConnectionLease.                                        *)
Place == {"idle", "acquiring"} \cup Working \cup Settled
Phases == [t \in Callers |-> Progress(pc[t])]
Stutters == Phases' = Phases /\ UNCHANGED <<held, fate>>

LEMMA ProgressIs ==
  /\ \A p \in {"idle", "acquiring"} : Progress(p) = "waiting"
  /\ \A p \in Working : Progress(p) = "working"
  /\ \A p \in Settled : Progress(p) = p
BY DEF Progress, Working, Settled

(* The call t moves to p, and the others stay.                               *)
LEMMA PhaseMoves ==
  ASSUME IInv, NEW t \in Callers, NEW p \in Place, pc' = [pc EXCEPT ![t] = p]
  PROVE  /\ Phases[t] = Progress(pc[t])
         /\ Phases' = [Phases EXCEPT ![t] = Progress(p)]
<1>1. \A u \in Callers : pc'[u] = IF u = t THEN p ELSE pc[u]
  BY DEF IInv, TypeOK
<1>2. Phases' = [u \in Callers |-> IF u = t THEN Progress(p) ELSE Progress(pc[u])]
  BY <1>1 DEF Phases
<1> QED BY <1>2 DEF Phases

LEMMA PhaseStays ==
  ASSUME IInv, NEW t \in Callers, NEW p \in Place, pc' = [pc EXCEPT ![t] = p],
         Progress(p) = Progress(pc[t])
  PROVE  Phases' = Phases
<1>1. Phases' = [Phases EXCEPT ![t] = Phases[t]]
  BY PhaseMoves
<1> QED BY <1>1 DEF Phases

LEMMA TurnsAway ==
  ASSUME IInv, NEW t \in Callers, pc[t] \in {"idle", "acquiring"},
         pc' = [pc EXCEPT ![t] = "rejected"], UNCHANGED <<held, fate>>
  PROVE  Lease!Next
<1>1. Phases[t] = "waiting" /\ Phases' = [Phases EXCEPT ![t] = "rejected"]
  <2>1. "rejected" \in Place /\ Progress("rejected") = "rejected" /\ Progress(pc[t]) = "waiting"
    BY ProgressIs DEF Place, Settled
  <2> QED BY <2>1, PhaseMoves
<1>2. Lease!TurnAway(t)
  BY <1>1 DEF Lease!TurnAway, Phases
<1> QED BY <1>2 DEF Lease!Next

LEMMA Loses ==
  ASSUME IInv, NEW t \in Txns, pc[t] \in Working,
         pc' = [pc EXCEPT ![t] = "rejected"], UNCHANGED <<held, fate>>
  PROVE  Lease!Next
<1>1. t \in Callers
  BY DEF Callers
<1>2. Phases[t] = "working" /\ Phases' = [Phases EXCEPT ![t] = "rejected"]
  <2>1. "rejected" \in Place /\ Progress("rejected") = "rejected" /\ Progress(pc[t]) = "working"
    BY ProgressIs DEF Place, Settled
  <2> QED BY <1>1, <2>1, PhaseMoves
<1>3. Lease!Lose(t)
  BY <1>2 DEF Lease!Lose, Phases
<1> QED BY <1>1, <1>3 DEF Lease!Next

LEMMA GivesBack ==
  ASSUME IInv, NEW t \in Callers, NEW told \in Settled, pc[t] \in Working,
         pc' = [pc EXCEPT ![t] = told], held' = [held EXCEPT ![t] = NoConn],
         IF t \in Txns
         THEN \E decided \in {"committed", "rolled back"} : fate' = [fate EXCEPT ![t] = decided]
         ELSE UNCHANGED fate
  PROVE  Lease!Next
<1>1. Phases[t] = "working" /\ Phases' = [Phases EXCEPT ![t] = told]
  <2>1. told \in Place /\ Progress(told) = told /\ Progress(pc[t]) = "working"
    BY ProgressIs DEF Place
  <2> QED BY <2>1, PhaseMoves
<1>2. Lease!GiveBack(t)
  BY <1>1 DEF Lease!GiveBack, Phases, Settled
<1> QED BY <1>2 DEF Lease!Next

LEMMA Lends ==
  ASSUME IInv, DBAssumption, NEW t \in Callers, NEW c \in Conns, getConnection(t, c)
  PROVE  Lease!Next
<1>1. \A u \in Callers : held[u] # c
  BY DEF getConnection, IInv, ExclusiveConnections
<1>2. PICK p \in Working : pc' = [pc EXCEPT ![t] = p]
  BY DEF getConnection, Working
<1>3. Phases[t] = "waiting" /\ Phases' = [Phases EXCEPT ![t] = "working"]
  <2>1. pc[t] = "acquiring"
    BY DEF getConnection
  <2>2. p \in Place /\ Progress(p) = "working" /\ Progress(pc[t]) = "waiting"
    BY <2>1, ProgressIs DEF Place
  <2> QED BY <1>2, <2>2, PhaseMoves
<1>4. held' = [held EXCEPT ![t] = c] /\ fate' = fate
  BY DEF getConnection
<1>5. Lease!Lend(t, c)
  BY <1>1, <1>3, <1>4 DEF Lease!Lend, Phases
<1> QED BY <1>5 DEF Lease!Next

LEMMA AnswersRefine ==
  ASSUME IInv, DBAssumption, NEW c \in Conns, Answer(c)
  PROVE  Lease!Next \/ Stutters
<1>1. ASSUME NEW t \in Txns, beginResolves(t, c)
      PROVE  Stutters
  <2>1. t \in Callers /\ pc[t] \in Working
    BY <1>1, AnswerIsHeld DEF beginResolves, Working
  <2>2. pc' = [pc EXCEPT ![t] = "running"] /\ UNCHANGED <<held, fate>>
    BY <1>1 DEF beginResolves
  <2>3. "running" \in Working
    BY DEF Working
  <2> QED BY <2>1, <2>2, <2>3, PhaseStays, ProgressIs DEF Place, Stutters
<1>2. ASSUME NEW t \in Txns, beginRejects(t, c)
      PROVE  Lease!Next
  BY <1>2, AnswerIsHeld, Loses DEF beginRejects, Working
<1>3. ASSUME NEW t \in Txns, runsQuery(t, c)
      PROVE  Stutters
  BY <1>3 DEF runsQuery, callVars, Phases, Stutters
<1>4. ASSUME NEW t \in Txns, NEW s \in {"COMMIT", "ROLLBACK"}, endResolves(t, c, s)
      PROVE  Lease!Next
  <2>1. t \in Callers /\ pc[t] \in Working
    BY <1>4, AnswerIsHeld DEF endResolves, Working
  <2>2. PICK told \in Settled : pc' = [pc EXCEPT ![t] = told]
    BY <1>4 DEF endResolves, Settled
  <2>3. \E decided \in {"committed", "rolled back"} : fate' = [fate EXCEPT ![t] = decided]
    BY <1>4 DEF endResolves
  <2>4. held' = [held EXCEPT ![t] = NoConn]
    BY <1>4 DEF endResolves, releaseConnection
  <2> QED BY <2>1, <2>2, <2>3, <2>4, GivesBack
<1>5. ASSUME NEW t \in Txns, NEW s \in {"COMMIT", "ROLLBACK"}, endRejects(t, c, s)
      PROVE  Lease!Next
  BY <1>5, AnswerIsHeld, Loses DEF endRejects, Working
<1>6. ASSUME NEW t \in Pings, pingEnds(t, c)
      PROVE  Lease!Next
  <2>1. t \in Callers /\ pc[t] \in Working /\ t \notin Txns
    BY <1>6, AnswerIsHeld DEF pingEnds, Working, DBAssumption
  <2>2. PICK told \in Settled : pc' = [pc EXCEPT ![t] = told]
    BY <1>6 DEF pingEnds, Settled
  <2>3. held' = [held EXCEPT ![t] = NoConn] /\ fate' = fate
    BY <1>6 DEF pingEnds, releaseConnection
  <2> QED BY <2>1, <2>2, <2>3, GivesBack
<1> QED BY <1>1, <1>2, <1>3, <1>4, <1>5, <1>6 DEF Answer

LEMMA StepRefines ==
  ASSUME IInv, DBAssumption, [Next]_vars
  PROVE  Lease!Next \/ Stutters
<1>1. CASE UNCHANGED <<pc, held, fate>>
  BY <1>1 DEF Phases, Stutters
<1>2. CASE UNCHANGED vars
  BY <1>1, <1>2 DEF vars, callVars, serverVars
<1>3. CASE initialise \/ poolStarted \/ clientStop \/ poolStopped
  BY <1>1, <1>3 DEF initialise, poolStarted, clientStop, poolStopped, callVars, serverVars
<1>4. ASSUME NEW p \in Pools, drained(p) \/ cleared(p)
      PROVE  UNCHANGED <<pc, held, fate>>
  BY <1>4 DEF drained, cleared, callVars, serverVars
<1>5. ASSUME NEW c \in Conns,
             \/ opens(c) \/ create(c) \/ createFails(c) \/ breaks(c) \/ refuses(c)
             \/ evicts(c) \/ destroy(c)
      PROVE  UNCHANGED <<pc, held, fate>>
  BY <1>5 DEF opens, create, createFails, breaks, refuses, evicts, destroy, callVars, serverVars
<1>6. ASSUME NEW t \in Callers, obtainConnection(t)
      PROVE  Lease!Next \/ Stutters
  <2>1. UNCHANGED <<held, fate>> /\ pc[t] = "idle"
    BY <1>6 DEF obtainConnection, serverVars
  <2>2. PICK p \in {"acquiring", "rejected"} : pc' = [pc EXCEPT ![t] = p]
    BY <1>6 DEF obtainConnection
  <2>3. CASE p = "rejected"
    BY <2>1, <2>2, <2>3, TurnsAway
  <2>4. CASE p = "acquiring"
    BY <2>1, <2>2, <2>4, PhaseStays, ProgressIs DEF Place, Stutters
  <2> QED BY <2>2, <2>3, <2>4
<1>7. ASSUME NEW t \in Callers, acquireTimesOut(t)
      PROVE  Lease!Next
  BY <1>7, TurnsAway DEF acquireTimesOut, serverVars
<1>8. ASSUME NEW t \in Txns, issuesQuery(t) \/ marksError(t)
      PROVE  UNCHANGED <<pc, held, fate>>
  BY <1>8 DEF issuesQuery, marksError, serverVars
<1>9. ASSUME NEW t \in Txns, Function(t)
      PROVE  Stutters
  <2>1. PICK marked : ends(t, marked)
    BY <1>9 DEF Function, functionResolves, functionRejects, functionRejectsFalsy
  <2>2. /\ t \in Callers /\ pc[t] \in Working /\ "ending" \in Working
        /\ pc' = [pc EXCEPT ![t] = "ending"] /\ UNCHANGED <<held, fate>>
    BY <2>1 DEF ends, Callers, Working
  <2> QED BY <2>2, PhaseStays, ProgressIs DEF Place, Stutters
<1> QED BY <1>1, <1>2, <1>3, <1>4, <1>5, <1>6, <1>7, <1>8, <1>9, AnswersRefine, Lends DEF Next

(* The client implements the lease: the steps of pools, servers and          *)
(* functions change nothing of it, and every other step is one of its own.   *)
THEOREM ClientImplementsLease == Spec => ImplementsLease
<1>1. Init => Lease!Init
  BY ProgressIs DEF Init, Lease!Init
<1>2. IInv /\ [Next]_vars => [Lease!Next]_Lease!leaseVars
  <2> SUFFICES ASSUME IInv, [Next]_vars PROVE [Lease!Next]_Lease!leaseVars
    OBVIOUS
  <2> QED BY DBAssumption, StepRefines DEF Stutters, Phases, Lease!leaseVars
<1> QED BY <1>1, <1>2, Inductive, PTL DEF Spec, ImplementsLease, Lease!Spec
-----------------------------------------------------------------------------
(* What CallsSettle needs of every state: nobody waits for an answer that    *)
(* cannot come.                                                              *)

(* Who is to be told by the server.                                          *)
Awaits(t) == pc[t] \in {"beginning", "ending"} \/ (t \in Pings /\ pc[t] = "running")

Sent(t) == \E i \in DOMAIN queue[held[t]] :
             queue[held[t]][i][1] = t /\ Moves(queue[held[t]][i])

(* The statement that a call waits for is in the queue of the connection     *)
(* that it holds, and the oldest statement of every queue can be answered:   *)
(* its call is where beginResolves(), pingEnds() and endResolves() find it.  *)
AnswersCome ==
  /\ \A t \in Callers : Awaits(t) => held[t] \in Conns /\ Sent(t)
  /\ \A c \in Conns : queue[c] # <<>> =>
       LET t == Head(queue[c])[1]  s == Head(queue[c])[2]
       IN \/ s = "query" /\ t \in Txns
          \/ s = "query" /\ t \in Pings /\ pc[t] = "running" /\ held[t] = c
          \/ s = "BEGIN" /\ t \in Txns /\ pc[t] = "beginning" /\ held[t] = c
          \/ s \in {"COMMIT", "ROLLBACK"} /\ t \in Txns /\ pc[t] = "ending" /\ held[t] = c

(* An answer takes nothing from the queues but itself.                       *)
LEMMA AnswerLeaves ==
  ASSUME IInv, NEW c \in Conns, NEW t, NEW s, answers(c, t, s),
         NEW d \in Conns, NEW i \in DOMAIN queue[d], d # c \/ queue[d][i] # <<t, s>>
  PROVE  \E j \in DOMAIN queue'[d] : queue'[d][j] = queue[d][i]
<1>1. queue \in [Conns -> Seq(Callers \X Statement)] /\ queue[c] \in Seq(Callers \X Statement)
  BY DEF IInv, TypeOK
<1>2. queue[c] # <<>> /\ Head(queue[c]) = <<t, s>>
      /\ queue'[d] = IF d = c THEN Tail(queue[c]) ELSE queue[d]
  BY <1>1 DEF answers
<1>3. CASE d # c
  BY <1>2, <1>3
<1>4. CASE d = c
  <2>1. /\ Len(queue[c]) \in Nat \ {0} /\ DOMAIN queue[c] = 1..Len(queue[c])
        /\ Len(Tail(queue[c])) = Len(queue[c]) - 1
        /\ DOMAIN Tail(queue[c]) = 1..(Len(queue[c]) - 1)
        /\ \A j \in 1..(Len(queue[c]) - 1) : Tail(queue[c])[j] = queue[c][j + 1]
    BY <1>1, <1>2
  <2>2. queue[c][1] = <<t, s>>
    BY <1>1, <1>2
  <2>3. i \in 2..Len(queue[c])
    BY <1>4, <2>1, <2>2
  <2>4. i - 1 \in DOMAIN Tail(queue[c]) /\ Tail(queue[c])[i - 1] = queue[c][i]
    BY <2>1, <2>3
  <2> QED BY <1>2, <1>4, <2>4
<1> QED BY <1>3, <1>4

(* Sending takes nothing away, and what is sent is there.                    *)
LEMMA SendingLeaves ==
  ASSUME IInv, NEW c \in Conns, NEW t \in Callers, NEW s \in Statement, sends(t, c, s)
  PROVE  /\ \A d \in Conns : \A i \in DOMAIN queue[d] :
              \E j \in DOMAIN queue'[d] : queue'[d][j] = queue[d][i]
         /\ \E j \in DOMAIN queue'[c] : queue'[c][j] = <<t, s>>
<1>1. queue \in [Conns -> Seq(Callers \X Statement)] /\ queue[c] \in Seq(Callers \X Statement)
  BY DEF IInv, TypeOK
<1>2. \A d \in Conns : queue'[d] = IF d = c THEN Append(queue[c], <<t, s>>) ELSE queue[d]
  BY <1>1 DEF sends
<1>3. /\ Len(queue[c]) \in Nat /\ DOMAIN queue[c] = 1..Len(queue[c])
      /\ DOMAIN Append(queue[c], <<t, s>>) = 1..(Len(queue[c]) + 1)
      /\ \A j \in 1..Len(queue[c]) : Append(queue[c], <<t, s>>)[j] = queue[c][j]
      /\ Append(queue[c], <<t, s>>)[Len(queue[c]) + 1] = <<t, s>>
  <2>1. <<t, s>> \in Callers \X Statement
    OBVIOUS
  <2> QED BY <1>1, <2>1
<1>4. \A d \in Conns : \A i \in DOMAIN queue[d] :
        \E j \in DOMAIN queue'[d] : queue'[d][j] = queue[d][i]
  <2> SUFFICES ASSUME NEW d \in Conns, NEW i \in DOMAIN queue[d]
               PROVE  i \in DOMAIN queue'[d] /\ queue'[d][i] = queue[d][i]
    OBVIOUS
  <2>1. CASE d = c
    <3>1. queue'[d] = Append(queue[c], <<t, s>>) /\ i \in 1..Len(queue[c])
      BY <1>2, <1>3, <2>1
    <3>2. i \in 1..(Len(queue[c]) + 1)
      BY <1>3, <3>1
    <3> QED BY <1>3, <2>1, <3>1, <3>2
  <2>2. CASE d # c
    BY <1>2, <2>2
  <2> QED BY <2>1, <2>2
<1>5. Len(queue[c]) + 1 \in DOMAIN queue'[c] /\ queue'[c][Len(queue[c]) + 1] = <<t, s>>
  <2>1. Len(queue[c]) + 1 \in 1..(Len(queue[c]) + 1)
    BY <1>3
  <2>2. queue'[c] = Append(queue[c], <<t, s>>)
    BY <1>2
  <2> QED BY <1>3, <2>1, <2>2
<1> QED BY <1>4, <1>5

Reached == \A t \in Callers : Awaits(t) => held[t] \in Conns /\ Sent(t)

(* Nothing is taken from the queues, and who comes to await has just sent.   *)
LEMMA ReachedWhileKept ==
  ASSUME Reached,
         \A d \in Conns : \A i \in DOMAIN queue[d] :
           \E j \in DOMAIN queue'[d] : queue'[d][j] = queue[d][i],
         \A u \in Callers : \/ pc'[u] = pc[u] /\ held'[u] = held[u]
                            \/ ~Awaits(u)'
                            \/ held'[u] \in Conns /\ Sent(u)'
  PROVE  Reached'
<1> SUFFICES ASSUME NEW u \in Callers, Awaits(u)'
             PROVE  held'[u] \in Conns /\ Sent(u)'
  BY DEF Reached
<1>1. CASE pc'[u] = pc[u] /\ held'[u] = held[u]
  <2>1. held[u] \in Conns /\ Sent(u)
    BY <1>1 DEF Reached, Awaits
  <2> QED BY <1>1, <2>1 DEF Sent, Moves
<1> QED BY <1>1

(* The server answers t, which then awaits nothing; or it had sent a query   *)
(* that its function, and not the call, waits for.                           *)
LEMMA ReachedAfterAnswer ==
  ASSUME IInv, Reached, NEW c \in Conns, NEW t, NEW s, answers(c, t, s),
         \A u \in Callers : (pc'[u] = pc[u] /\ held'[u] = held[u]) \/ (u = t /\ ~Awaits(t)'),
         Moves(<<t, s>>) => ~Awaits(t)'
  PROVE  Reached'
<1> SUFFICES ASSUME NEW u \in Callers, Awaits(u)'
             PROVE  held'[u] \in Conns /\ Sent(u)'
  BY DEF Reached
<1>1. pc'[u] = pc[u] /\ held'[u] = held[u] /\ (u = t => ~Moves(<<t, s>>))
  OBVIOUS
<1>2. held[u] \in Conns /\ Sent(u)
  BY <1>1 DEF Reached, Awaits
<1>3. PICK i \in DOMAIN queue[held[u]] : queue[held[u]][i][1] = u /\ Moves(queue[held[u]][i])
  BY <1>2 DEF Sent
<1>4. queue[held[u]][i] # <<t, s>>
  BY <1>1, <1>3
<1>5. PICK j \in DOMAIN queue'[held[u]] : queue'[held[u]][j] = queue[held[u]][i]
  BY <1>2, <1>4, AnswerLeaves
<1> QED BY <1>1, <1>2, <1>3, <1>5 DEF Sent, Moves

LEMMA StepReaches ==
  ASSUME DBAssumption, IInv, Reached, [Next]_vars
  PROVE  Reached'
<1> DEFINE Where == {"idle", "acquiring", "beginning", "running", "ending"} \cup Settled
<1>0. pc \in [Callers -> Where] /\ held \in [Callers -> Conns \cup {NoConn}]
  BY DEF IInv, TypeOK
<1> HIDE DEF Where
<1>1. ASSUME UNCHANGED <<queue, pc, held>>
      PROVE  Reached'
  BY <1>1, ReachedWhileKept
<1>2. CASE UNCHANGED vars
  BY <1>1, <1>2 DEF vars, serverVars, callVars
<1>3. CASE initialise \/ poolStarted \/ clientStop \/ poolStopped
  BY <1>1, <1>3 DEF initialise, poolStarted, clientStop, poolStopped, serverVars, callVars
<1>4. ASSUME NEW p \in Pools, drained(p) \/ cleared(p)
      PROVE  Reached'
  BY <1>1, <1>4 DEF drained, cleared, serverVars, callVars
<1>5. ASSUME NEW c \in Conns,
             \/ opens(c) \/ create(c) \/ createFails(c) \/ breaks(c)
             \/ refuses(c) \/ evicts(c) \/ destroy(c)
      PROVE  Reached'
  BY <1>1, <1>5 DEF opens, create, createFails, breaks, refuses, evicts, destroy,
                    serverVars, callVars
<1>6. ASSUME NEW c \in Conns, Answer(c)
      PROVE  Reached'
  <2>1. ASSUME NEW t \in Txns, beginResolves(t, c) \/ beginRejects(t, c)
        PROVE  Reached'
    <3>1. t \in Callers /\ t \notin Pings
      BY DEF Callers, DBAssumption
    <3>2. /\ answers(c, t, "BEGIN") /\ held' = held
          /\ \A u \in Callers \ {t} : pc'[u] = pc[u]
          /\ pc'[t] \in {"running", "rejected"}
      BY <1>0, <2>1, <3>1 DEF beginResolves, beginRejects
    <3>3. ~Awaits(t)'
      BY <3>1, <3>2 DEF Awaits
    <3> QED BY <3>1, <3>2, <3>3, ReachedAfterAnswer
  <2>2. ASSUME NEW t \in Txns, runsQuery(t, c)
        PROVE  Reached'
    <3>1. answers(c, t, "query") /\ held' = held /\ pc' = pc /\ ~Moves(<<t, "query">>)
      BY <2>2 DEF runsQuery, callVars, Moves, DBAssumption
    <3>2. \A u \in Callers :
            (pc'[u] = pc[u] /\ held'[u] = held[u]) \/ (u = t /\ ~Awaits(t)')
      BY <3>1
    <3>3. Moves(<<t, "query">>) => ~Awaits(t)'
      BY <3>1
    <3> QED BY <3>1, <3>2, <3>3, ReachedAfterAnswer
  <2>3. ASSUME NEW t \in Txns, NEW s \in {"COMMIT", "ROLLBACK"},
               endResolves(t, c, s) \/ endRejects(t, c, s)
        PROVE  Reached'
    <3>1. t \in Callers /\ t \notin Pings
      BY DEF Callers, DBAssumption
    <3>2. /\ answers(c, t, s)
          /\ \A u \in Callers \ {t} : pc'[u] = pc[u] /\ held'[u] = held[u]
          /\ pc'[t] \in Settled
      <4>1. CASE endResolves(t, c, s)
        BY <1>0, <3>1, <4>1 DEF endResolves, releaseConnection, Settled
      <4>2. CASE endRejects(t, c, s)
        BY <1>0, <3>1, <4>2 DEF endRejects, Settled
      <4> QED BY <2>3, <4>1, <4>2
    <3>3. ~Awaits(t)'
      BY <3>1, <3>2 DEF Awaits, Settled
    <3> QED BY <3>1, <3>2, <3>3, ReachedAfterAnswer
  <2>4. ASSUME NEW t \in Pings, pingEnds(t, c)
        PROVE  Reached'
    <3>1. t \in Callers
      BY DEF Callers
    <3>2. /\ answers(c, t, "query")
          /\ \A u \in Callers \ {t} : pc'[u] = pc[u] /\ held'[u] = held[u]
          /\ pc'[t] \in Settled
      BY <1>0, <2>4, <3>1 DEF pingEnds, releaseConnection, Settled
    <3>3. ~Awaits(t)'
      BY <3>2 DEF Awaits, Settled
    <3> QED BY <3>1, <3>2, <3>3, ReachedAfterAnswer
  <2> QED BY <1>6, <2>1, <2>2, <2>3, <2>4 DEF Answer
<1>7. ASSUME NEW t \in Callers, obtainConnection(t) \/ acquireTimesOut(t)
      PROVE  Reached'
  <2>1. /\ queue' = queue /\ held' = held
        /\ \A u \in Callers : pc'[u] = pc[u] \/ pc'[u] \in {"acquiring", "rejected"}
    BY <1>0, <1>7 DEF obtainConnection, acquireTimesOut, serverVars
  <2> QED BY <2>1, ReachedWhileKept DEF Awaits
<1>8. ASSUME NEW t \in Callers, NEW c \in Conns, getConnection(t, c)
      PROVE  Reached'
  <2> DEFINE s == IF t \in Txns THEN "BEGIN" ELSE "query"
  <2>1. /\ sends(t, c, s) /\ s \in Statement /\ Moves(<<t, s>>)
        /\ held'[t] = c
        /\ \A u \in Callers \ {t} : pc'[u] = pc[u] /\ held'[u] = held[u]
    BY <1>0, <1>8 DEF getConnection, Callers, Statement, Moves
  <2> HIDE DEF s
  <2>2. /\ \A d \in Conns : \A i \in DOMAIN queue[d] :
              \E j \in DOMAIN queue'[d] : queue'[d][j] = queue[d][i]
        /\ \E j \in DOMAIN queue'[c] : queue'[c][j] = <<t, s>>
    BY <2>1, SendingLeaves
  <2>3. Sent(t)'
    BY <2>1, <2>2 DEF Sent, Moves
  <2> QED BY <2>1, <2>2, <2>3, ReachedWhileKept
<1>9. ASSUME NEW t \in Txns, issuesQuery(t)
      PROVE  Reached'
  <2>1. t \in Callers /\ held[t] \in Conns /\ sends(t, held[t], "query")
        /\ pc' = pc /\ held' = held /\ "query" \in Statement
    BY <1>0, <1>9 DEF issuesQuery, Callers, Statement
  <2> QED BY <2>1, SendingLeaves, ReachedWhileKept
<1>10. ASSUME NEW t \in Txns, marksError(t)
       PROVE  Reached'
  BY <1>1, <1>10 DEF marksError, serverVars
<1>11. ASSUME NEW t \in Txns, Function(t)
       PROVE  Reached'
  <2>1. PICK marked : ends(t, marked)
    BY <1>11 DEF Function, functionResolves, functionRejects, functionRejectsFalsy
  <2> DEFINE s == IF t \in marked THEN "ROLLBACK" ELSE "COMMIT"
  <2>2. t \in Callers /\ held[t] \in Conns
    <3>1. t \in Callers /\ pc[t] = "running"
      BY <2>1 DEF ends, Callers
    <3> QED BY <3>1 DEF IInv, TypeOK, HoldersWork, Working
  <2>3. /\ sends(t, held[t], s) /\ s \in Statement /\ Moves(<<t, s>>)
        /\ held' = held /\ \A u \in Callers \ {t} : pc'[u] = pc[u]
    BY <1>0, <2>1, <2>2 DEF ends, Statement, Moves
  <2> HIDE DEF s
  <2>4. /\ \A d \in Conns : \A i \in DOMAIN queue[d] :
              \E j \in DOMAIN queue'[d] : queue'[d][j] = queue[d][i]
        /\ \E j \in DOMAIN queue'[held[t]] : queue'[held[t]][j] = <<t, s>>
    BY <2>2, <2>3, SendingLeaves
  <2>5. Sent(t)'
    BY <2>2, <2>3, <2>4 DEF Sent, Moves
  <2> QED BY <2>2, <2>3, <2>4, <2>5, ReachedWhileKept
<1> QED BY <1>2, <1>3, <1>4, <1>5, <1>6, <1>7, <1>8, <1>9, <1>10, <1>11 DEF Next

(* No call waits for an answer that nothing will bring: the safety that      *)
(* CallsSettle rests on, for every number of calls and connections and       *)
(* whatever fails (runInTransaction() and ping() have no other timeout once  *)
(* they have a connection).                                                  *)
THEOREM NobodyIsForgotten == Spec => []AnswersCome
<1>1. Init => Reached
  BY DEF Init, Reached, Awaits
<1>2. IInv /\ Reached /\ [Next]_vars => Reached'
  BY DBAssumption, StepReaches
<1>3. IInv /\ Reached => AnswersCome
  <2> SUFFICES ASSUME IInv, NEW c \in Conns, queue[c] # <<>>
               PROVE  LET t == Head(queue[c])[1]  s == Head(queue[c])[2]
                      IN \/ s = "query" /\ t \in Txns
                         \/ s = "query" /\ t \in Pings /\ pc[t] = "running" /\ held[t] = c
                         \/ s = "BEGIN" /\ t \in Txns /\ pc[t] = "beginning" /\ held[t] = c
                         \/ /\ s \in {"COMMIT", "ROLLBACK"} /\ t \in Txns
                            /\ pc[t] = "ending" /\ held[t] = c
    BY DEF AnswersCome, Reached
  <2>1. queue[c] \in Seq(Callers \X Statement)
    BY DEF IInv, TypeOK
  <2>2. 1 \in DOMAIN queue[c] /\ Head(queue[c]) = queue[c][1]
    BY <2>1, TailEntries
  <2>3. /\ Head(queue[c])[1] \in Callers /\ Head(queue[c])[2] \in Statement
        /\ Fits(Head(queue[c])[1], Head(queue[c])[2], c)
    BY <2>2, Entries DEF IInv, QueuesFit
  <2> QED BY <2>3, DBAssumption DEF Fits, Callers, Statement, DBAssumption, IInv, HoldersWork
<1> QED BY <1>1, <1>2, <1>3, Inductive, PTL DEF Spec
=============================================================================
