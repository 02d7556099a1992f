--------------------------- MODULE DBTransactions ---------------------------
(* The callers of DBClient.runInTransaction() and ping() sharing the         *)
(* InstrumentedConnectionPools of a client, one for the master and one for   *)
(* the slave (src/src/db, src/src/transaction), over connections that run    *)
(* the statements sent on them one by one.  The pool library (generic-pool)  *)
(* and the database servers are external: they are modelled by what the code *)
(* relies on.                                                                *)
(*                                                                           *)
(* A transaction is BEGIN, the queries of the caller's function, COMMIT or   *)
(* ROLLBACK, and the end listener that gives the connection back.  What may  *)
(* fail, and which functions let a query run on after they have settled, are *)
(* parameters.                                                               *)
EXTENDS Integers, Sequences, FiniteSets

CONSTANTS
  Txns,         \* the calls of runInTransaction
  Pings,        \* the calls of ping, which run one query and no transaction
  Readonly,     \* the calls that are made with readonly
  Conns,        \* as many connections as the pools may open (options.max)
  PoolOf,       \* PoolOf[c]: the pool that may open c, "master" or "slave"
  NoConn, NoTxn,
  Configs,      \* bound: the pools that a clientConfiguration may have
  MaxWaiting,   \* options.maxWaitingClients
  MaxQueries,   \* bound: the queries one function may issue
  MayFail,      \* what may go wrong, of Failure below
  MayStray      \* transactions whose function need not await its queries

Callers == Txns \cup Pings

(* "falsy": the function rejects with undefined or another falsy value.      *)
(* "abort": a query that fails aborts its transaction, as in Postgres; after *)
(* that COMMIT rolls back, and does not fail.                                *)
(* "pool": the options of the slave make the constructor of its pool throw.  *)
Failure == {"connect", "BEGIN", "query", "COMMIT", "ROLLBACK", "function", "falsy",
            "abort", "pool"}
Pools == {"master", "slave"}

ASSUME DBAssumption ==
  /\ Txns \cap Pings = {}
  /\ NoConn \notin Conns /\ NoTxn \notin Callers /\ IsFiniteSet(Conns)
  /\ Readonly \subseteq Callers /\ PoolOf \in [Conns -> Pools] /\ Configs \subseteq SUBSET Pools
  /\ MaxWaiting \in Nat /\ MaxQueries \in Nat
  /\ MayFail \subseteq Failure
  /\ MayStray \subseteq Txns

VARIABLES
  configured,\* the pools the clientConfiguration has
  client,    \* how far initialise() or stop() of the client is
  pool,      \* pool[p]: InstrumentedConnectionPool.status, "none" before it is made
  stopping,  \* stopping[p]: how far its stop() is
  conn,      \* conn[c]: the state of connection c in generic-pool
  broken,    \* connections that validate() will refuse
  session,   \* session[c]: the transaction the server has open on c
  queue,     \* queue[c]: the statements sent on c and not yet answered
  pc,        \* pc[t]: where call t is
  held,      \* held[t]: DBTransaction.connection
  error,     \* the transactions marked with an error
  failed,    \* the calls that are going to reject
  asked,     \* asked[t]: how many queries t has issued
  fate,      \* fate[t]: what the server did with transaction t
  aborted,   \* the transactions that a failed query has aborted
  outside,   \* the transactions with a query that ran outside of them
  via,       \* via[t]: the connectionPool of the DBTransaction
  active,    \* active[p]: the gauge of lent connections
  total      \* total[p]: the gauge of open connections

clientVars == <<configured, client, pool, stopping>>
poolVars == <<clientVars, conn, broken, total>>
serverVars == <<session, queue, fate, aborted, outside>>
callVars == <<pc, via, held, error, failed, asked, active>>
vars == <<poolVars, serverVars, callVars>>

Statement == {"BEGIN", "query", "COMMIT", "ROLLBACK"}
Settled == {"resolved", "rejected"}

Init ==
  /\ configured \in Configs
  /\ client = "new"
  /\ pool = [p \in Pools |-> "none"]
  /\ stopping = [p \in Pools |-> "no"]
  /\ conn = [c \in Conns |-> "absent"]
  /\ broken = {}
  /\ session = [c \in Conns |-> NoTxn]
  /\ queue = [c \in Conns |-> <<>>]
  /\ pc = [t \in Callers |-> "idle"]
  /\ held = [t \in Callers |-> NoConn]
  /\ error = {}
  /\ failed = {}
  /\ asked = [t \in Callers |-> 0]
  /\ fate = [t \in Txns |-> "none"]
  /\ aborted = {} /\ outside = {}
  /\ via = [t \in Callers |-> "none"]
  /\ active = [p \in Pools |-> 0]
  /\ total = [p \in Pools |-> 0]

-----------------------------------------------------------------------------
(* generic-pool, and the factories it calls.                                 *)

Waiting(p) == {t \in Callers : pc[t] = "acquiring" /\ via[t] = p}
moves(c, s) == conn' = [conn EXCEPT ![c] = s]

(* For a waiting caller, or to keep the minimum while the pool is started.   *)
opens(c) ==
  /\ conn[c] = "absent"
  /\ Waiting(PoolOf[c]) # {} \/ pool[PoolOf[c]] = "STARTED"
  /\ moves(c, "opening")
  /\ UNCHANGED <<clientVars, broken, total, serverVars, callVars>>

create(c) ==
  /\ conn[c] = "opening"
  /\ moves(c, "idle")
  /\ total' = [total EXCEPT ![PoolOf[c]] = @ + 1]
  /\ UNCHANGED <<clientVars, broken, serverVars, callVars>>

(* The library tries again as long as somebody waits.                        *)
createFails(c) ==
  /\ conn[c] = "opening" /\ "connect" \in MayFail
  /\ moves(c, "absent")
  /\ UNCHANGED <<clientVars, broken, total, serverVars, callVars>>

(* The 'error' event of a MySQL connection, or a Postgres server gone.       *)
breaks(c) ==
  /\ "connect" \in MayFail
  /\ conn[c] \in {"idle", "lent"} /\ c \notin broken
  /\ broken' = broken \cup {c}
  /\ UNCHANGED <<clientVars, conn, total, serverVars, callVars>>

(* testOnBorrow: validate() has refused a connection about to be lent.       *)
refuses(c) ==
  /\ conn[c] = "idle" /\ c \in broken /\ Waiting(PoolOf[c]) # {}
  /\ moves(c, "closing")
  /\ UNCHANGED <<clientVars, broken, total, serverVars, callVars>>

(* The evictor, or clear() once the pool is drained.                         *)
evicts(c) ==
  /\ conn[c] = "idle"
  /\ moves(c, "closing")
  /\ UNCHANGED <<clientVars, broken, total, serverVars, callVars>>

(* end() of the connection waits for the statements already sent.            *)
destroy(c) ==
  /\ conn[c] = "closing" /\ queue[c] = <<>>
  /\ moves(c, "absent")
  /\ total' = [total EXCEPT ![PoolOf[c]] = @ - 1]
  /\ broken' = broken \ {c}
  /\ session' = [session EXCEPT ![c] = NoTxn]
  /\ UNCHANGED <<clientVars, queue, fate, aborted, outside, callVars>>

-----------------------------------------------------------------------------
(* InstrumentedConnectionPool.                                               *)

(* start() of the pool that was just made, which waits for a moment.         *)
start(p) ==
  /\ pool' = [pool EXCEPT ![p] = "STARTED"]
  /\ UNCHANGED <<configured, stopping>>

stop(p) ==
  /\ pool' = [pool EXCEPT ![p] = "STOPPED"]
  /\ stopping' = [stopping EXCEPT ![p] = "draining"]
  /\ UNCHANGED configured

(* drain() resolves when nobody waits and every loan has been returned.      *)
drained(p) ==
  /\ stopping[p] = "draining"
  /\ Waiting(p) = {} /\ \A c \in Conns : PoolOf[c] = p => conn[c] # "lent"
  /\ stopping' = [stopping EXCEPT ![p] = "clearing"]
  /\ UNCHANGED <<configured, client, pool, conn, broken, total, serverVars, callVars>>

cleared(p) ==
  /\ stopping[p] = "clearing"
  /\ \A c \in Conns : PoolOf[c] = p => conn[c] = "absent"
  /\ stopping' = [stopping EXCEPT ![p] = "done"]
  /\ UNCHANGED <<configured, client, pool, conn, broken, total, serverVars, callVars>>

-----------------------------------------------------------------------------
(* initialise() and stop() of the client: the master first, then the slave.  *)

(* The slave's pool is next, once the master's has been awaited.             *)
MakesSlave ==
  \/ /\ "slave" \in configured
     /\ client' = "starting slave" /\ start("slave")
  \/ /\ "slave" \in configured /\ "pool" \in MayFail
     /\ client' = "failed" /\ UNCHANGED <<configured, pool, stopping>>
  \/ /\ "slave" \notin configured
     /\ client' = IF configured = {} THEN "failed" ELSE "started"
     /\ UNCHANGED <<configured, pool, stopping>>

initialise ==
  /\ client = "new"
  /\ IF "master" \in configured
     THEN client' = "starting master" /\ start("master") ELSE MakesSlave
  /\ UNCHANGED <<conn, broken, total, serverVars, callVars>>

poolStarted ==
  /\ \/ client = "starting master" /\ MakesSlave
     \/ client = "starting slave" /\ client' = "started" /\ UNCHANGED <<configured, pool, stopping>>
  /\ UNCHANGED <<conn, broken, total, serverVars, callVars>>

StopsSlave ==
  IF pool["slave"] # "none"
  THEN client' = "stopping slave" /\ stop("slave")
  ELSE client' = "stopped" /\ UNCHANGED <<configured, pool, stopping>>

clientStop ==
  /\ client = "started"
  /\ IF pool["master"] # "none"
     THEN client' = "stopping master" /\ stop("master") ELSE StopsSlave
  /\ UNCHANGED <<conn, broken, total, serverVars, callVars>>

poolStopped ==
  /\ \/ client = "stopping master" /\ stopping["master"] = "done" /\ StopsSlave
     \/ /\ client = "stopping slave" /\ stopping["slave"] = "done"
        /\ client' = "stopped" /\ UNCHANGED <<configured, pool, stopping>>
  /\ UNCHANGED <<conn, broken, total, serverVars, callVars>>

getPoolForReadonly(t) ==
  IF t \in Readonly /\ pool["slave"] # "none" THEN "slave" ELSE "master"

(* begin() and runQueryWithoutTransaction() obtain a connection first; the   *)
(* pool refuses when it is not there, not started or too many wait already.  *)
CanWait(p) ==
  \/ \E c \in Conns : PoolOf[c] = p /\ conn[c] \in {"absent", "idle"}
  \/ Cardinality(Waiting(p)) < MaxWaiting

obtainConnection(t) ==
  /\ pc[t] = "idle"
  /\ LET p == getPoolForReadonly(t) IN
     /\ via' = [via EXCEPT ![t] = p]
     /\ pc' = [pc EXCEPT ![t] =
                 IF pool[p] = "STARTED" /\ CanWait(p) THEN "acquiring" ELSE "rejected"]
  /\ UNCHANGED <<poolVars, serverVars, held, error, failed, asked, active>>

(* Mutant: no acquireTimeoutMillis.                                          *)
acquireWaits(t) == pc[t] = "acquiring" /\ UNCHANGED vars

(* acquireTimeoutMillis.  end() finds no transaction begun and no listener.  *)
acquireTimesOut(t) ==
  /\ pc[t] = "acquiring"
  /\ pc' = [pc EXCEPT ![t] = "rejected"]
  /\ UNCHANGED <<poolVars, serverVars, held, error, failed, asked, active, via>>

(* Statement s of t goes to the end of the queue of c.                       *)
sends(t, c, s) == queue' = [queue EXCEPT ![c] = Append(@, <<t, s>>)]

(* getConnection() resolves: doTransactionBegin(), or the query of a ping.   *)
getConnection(t, c) ==
  /\ pc[t] = "acquiring"
  /\ PoolOf[c] = via[t] /\ conn[c] = "idle" /\ c \notin broken
  /\ moves(c, "lent")
  /\ held' = [held EXCEPT ![t] = c]
  /\ active' = [active EXCEPT ![via[t]] = @ + 1]
  /\ IF t \in Txns
     THEN /\ pc' = [pc EXCEPT ![t] = "beginning"]
          /\ sends(t, c, "BEGIN")
          /\ UNCHANGED asked
     ELSE /\ pc' = [pc EXCEPT ![t] = "running"]
          /\ sends(t, c, "query")
          /\ asked' = [asked EXCEPT ![t] = 1]
  /\ UNCHANGED <<clientVars, broken, total, session, fate, aborted, outside, error, failed, via>>

(* Mutants: the connection is not forgotten; the gauge is.                   *)
releaseKeepsConnection(t, c) ==
  /\ moves(c, "idle") /\ UNCHANGED held
  /\ active' = [active EXCEPT ![via[t]] = @ - 1]
releaseUncounted(t, c) ==
  moves(c, "idle") /\ held' = [held EXCEPT ![t] = NoConn] /\ UNCHANGED active

(* DBTransaction.releaseConnection() and release() of the pool.              *)
releaseConnection(t, c) ==
  /\ moves(c, "idle")
  /\ held' = [held EXCEPT ![t] = NoConn]
  /\ active' = [active EXCEPT ![via[t]] = @ - 1]

-----------------------------------------------------------------------------
(* The server answers the oldest statement of a connection.  An error makes  *)
(* the MySQL client mark the connection; Postgres finds out when it lends it.*)
answers(c, t, s) ==
  /\ queue[c] # <<>> /\ Head(queue[c]) = <<t, s>>
  /\ queue' = [queue EXCEPT ![c] = Tail(@)]

mayBreak(c) == broken' \in {broken, broken \cup {c}}

beginResolves(t, c) ==
  /\ answers(c, t, "BEGIN")
  /\ session' = [session EXCEPT ![c] = t]
  /\ pc' = [pc EXCEPT ![t] = "running"]
  /\ UNCHANGED <<poolVars, fate, aborted, outside, held, error, failed, asked, active, via>>

(* The listeners are not registered yet: end() has nothing to call.          *)
beginRejects(t, c) ==
  /\ "BEGIN" \in MayFail
  /\ answers(c, t, "BEGIN")
  /\ mayBreak(c)
  /\ pc' = [pc EXCEPT ![t] = "rejected"]
  /\ error' = error \cup {t}
  /\ UNCHANGED <<clientVars, conn, total, session, fate, aborted, outside, held, failed,
                 asked, active, via>>

(* A query of a transaction; what the function makes of it is its business.  *)
runsQuery(t, c) ==
  /\ t \in Txns
  /\ answers(c, t, "query")
  /\ outside' = IF session[c] = t THEN outside ELSE outside \cup {t}
  /\ \/ UNCHANGED <<broken, aborted>>
     \/ /\ "query" \in MayFail /\ mayBreak(c)
        /\ aborted' \in {aborted} \cup {aborted \cup {u} : u \in
                         {v \in {session[c]} : v # NoTxn /\ "abort" \in MayFail}}
  /\ UNCHANGED <<clientVars, conn, total, session, fate, callVars>>

(* Mutant: the release is not in a finally block.                            *)
pingLeaks(t, c) ==
  /\ t \in Pings
  /\ answers(c, t, "query")
  /\ \/ releaseConnection(t, c) /\ pc' = [pc EXCEPT ![t] = "resolved"] /\ UNCHANGED broken
     \/ /\ "query" \in MayFail /\ mayBreak(c)
        /\ pc' = [pc EXCEPT ![t] = "rejected"]
        /\ UNCHANGED <<conn, held, active>>
  /\ UNCHANGED <<clientVars, total, session, fate, aborted, outside, error, failed, asked, via>>

(* The query of a ping: the connection is released in a finally block.       *)
pingEnds(t, c) ==
  /\ t \in Pings
  /\ answers(c, t, "query")
  /\ releaseConnection(t, c)
  /\ \/ pc' = [pc EXCEPT ![t] = "resolved"] /\ UNCHANGED broken
     \/ "query" \in MayFail /\ pc' = [pc EXCEPT ![t] = "rejected"] /\ mayBreak(c)
  /\ UNCHANGED <<clientVars, total, session, fate, aborted, outside, error, failed, asked, via>>

(* COMMIT or ROLLBACK done; then the end listeners, then the promise of      *)
(* runInTransaction.                                                         *)
endResolves(t, c, s) ==
  /\ answers(c, t, s)
  /\ session' = [session EXCEPT ![c] = NoTxn]
  /\ fate' = [fate EXCEPT ![t] = IF s = "COMMIT" /\ t \notin aborted
                                THEN "committed" ELSE "rolled back"]
  /\ releaseConnection(t, c)
  /\ pc' = [pc EXCEPT ![t] = IF t \in failed THEN "rejected" ELSE "resolved"]
  /\ UNCHANGED <<clientVars, broken, total, aborted, outside, error, failed, asked, via>>

(* Mutant: the end listeners run all the same, with the transaction open.    *)
endRejectsReleases(t, c, s) ==
  /\ s \in MayFail
  /\ answers(c, t, s)
  /\ mayBreak(c)
  /\ releaseConnection(t, c)
  /\ pc' = [pc EXCEPT ![t] = "rejected"]
  /\ UNCHANGED <<clientVars, total, session, fate, aborted, outside, error, failed, asked, via>>

(* COMMIT or ROLLBACK failed: Transaction.end() rejects before it calls the  *)
(* end listeners.                                                            *)
endRejects(t, c, s) ==
  /\ s \in MayFail
  /\ answers(c, t, s)
  /\ mayBreak(c)
  /\ pc' = [pc EXCEPT ![t] = "rejected"]
  /\ UNCHANGED <<clientVars, conn, total, session, fate, aborted, outside, held, error,
                 failed, asked, active, via>>

Answer(c) ==
  \/ \E t \in Txns :
       \/ beginResolves(t, c) \/ beginRejects(t, c) \/ runsQuery(t, c)
       \/ \E s \in {"COMMIT", "ROLLBACK"} : endResolves(t, c, s) \/ endRejects(t, c, s)
  \/ \E t \in Pings : pingEnds(t, c)

-----------------------------------------------------------------------------
(* The function given to runInTransaction.                                   *)

(* Mutant: end() does not wait for the promise of the function.              *)
issuesQueryLate(t) ==
  /\ asked[t] < MaxQueries
  /\ held[t] # NoConn
  /\ pc[t] \in {"running", "ending"}
  /\ asked' = [asked EXCEPT ![t] = @ + 1]
  /\ sends(t, held[t], "query")
  /\ UNCHANGED <<poolVars, session, fate, aborted, outside, pc, held, error, failed, active, via>>

issuesQuery(t) ==
  /\ asked[t] < MaxQueries
  /\ held[t] # NoConn
  /\ pc[t] = "running" \/ (t \in MayStray /\ pc[t] \in {"ending"} \cup Settled)
  /\ asked' = [asked EXCEPT ![t] = @ + 1]
  /\ sends(t, held[t], "query")
  /\ UNCHANGED <<poolVars, session, fate, aborted, outside, pc, held, error, failed, active, via>>

marksError(t) ==
  /\ pc[t] = "running" /\ t \notin error
  /\ error' = error \cup {t}
  /\ UNCHANGED <<poolVars, serverVars, pc, held, failed, asked, active, via>>

HasAwaited(t) ==
  \/ t \in MayStray
  \/ \A i \in DOMAIN queue[held[t]] : queue[held[t]][i] # <<t, "query">>

(* Mutant: the error mark is not looked at.                                  *)
endsCommitting(t, marked) ==
  /\ pc[t] = "running" /\ HasAwaited(t)
  /\ error' = marked
  /\ pc' = [pc EXCEPT ![t] = "ending"]
  /\ sends(t, held[t], "COMMIT")
  /\ UNCHANGED <<poolVars, session, fate, aborted, outside, held, asked, active, via>>

(* Transaction.end(): the rollback listener when an error is marked.         *)
ends(t, marked) ==
  /\ pc[t] = "running" /\ HasAwaited(t)
  /\ error' = marked
  /\ pc' = [pc EXCEPT ![t] = "ending"]
  /\ sends(t, held[t], IF t \in marked THEN "ROLLBACK" ELSE "COMMIT")
  /\ UNCHANGED <<poolVars, session, fate, aborted, outside, held, asked, active, via>>

functionResolves(t) == ends(t, error) /\ UNCHANGED failed

functionRejects(t) ==
  /\ "function" \in MayFail
  /\ ends(t, error \cup {t})
  /\ failed' = failed \cup {t}

(* markError(undefined) leaves nothing for end() to see.                     *)
functionRejectsFalsy(t) ==
  /\ "falsy" \in MayFail
  /\ ends(t, error \ {t})
  /\ failed' = failed \cup {t}

Function(t) == functionResolves(t) \/ functionRejects(t) \/ functionRejectsFalsy(t)

Next ==
  \/ initialise \/ poolStarted \/ clientStop \/ poolStopped
  \/ \E p \in Pools : drained(p) \/ cleared(p)
  \/ \E c \in Conns :
       opens(c) \/ create(c) \/ createFails(c) \/ breaks(c) \/ refuses(c)
         \/ evicts(c) \/ destroy(c) \/ Answer(c)
  \/ \E t \in Callers :
       obtainConnection(t) \/ acquireTimesOut(t) \/ \E c \in Conns : getConnection(t, c)
  \/ \E t \in Txns : issuesQuery(t) \/ marksError(t) \/ Function(t)

Spec == Init /\ [][Next]_vars

(* The server answers, the caller's function settles, an acquire is served   *)
(* or times out, and a pool being stopped clears itself.  Nobody has to call *)
(* anything, and no connection has to be created.                            *)
Fairness ==
  /\ WF_vars(poolStarted) /\ WF_vars(poolStopped)
  /\ \A p \in Pools : WF_vars(drained(p)) /\ WF_vars(cleared(p))
  /\ \A c \in Conns :
       /\ WF_vars(create(c) \/ createFails(c))
       /\ WF_vars(Answer(c))
       /\ WF_vars(stopping[PoolOf[c]] = "clearing" /\ evicts(c))
       /\ WF_vars(destroy(c))
  /\ \A t \in Callers : WF_vars(acquireTimesOut(t))
  /\ \A t \in Txns : WF_vars(Function(t))

FairSpec == Spec /\ Fairness
-----------------------------------------------------------------------------
(* No connection serves two calls at once, and the pool's idea of what is    *)
(* lent is exactly what the calls hold.                                      *)
ExclusiveConnections ==
  /\ \A t, u \in Callers : t # u /\ held[t] # NoConn => held[t] # held[u]
  /\ \A c \in Conns : conn[c] = "lent" <=> \E t \in Callers : held[t] = c

(* A connection that goes back to the pool carries no open transaction into  *)
(* its next use, and the server has one open only for the call that holds it.*)
CleanHandover ==
  \A c \in Conns : session[c] # NoTxn => held[session[c]] = c

(* A call that has settled holds no connection unless one of its own BEGIN,  *)
(* COMMIT and ROLLBACK failed: a failing function, query, ping or connection *)
(* never costs the pool a connection.                                        *)
ControlFailure(t) == t \in Txns /\ pc[t] = "rejected" /\ fate[t] = "none"

LeaksOnlyByControl ==
  \A t \in Callers : pc[t] \in Settled /\ held[t] # NoConn => ControlFailure(t)

(* The calls that the pools serve, seen by who makes them.                   *)
Progress(p) ==
  IF p \in {"idle", "acquiring"} THEN "waiting" ELSE IF p \in Settled THEN p ELSE "working"

Lease == INSTANCE ConnectionLease
           WITH Calls <- Callers, Transactions <- Txns, Connections <- Conns,
                NoConnection <- NoConn, call <- [t \in Callers |-> Progress(pc[t])], lease <- held

(* The client lends, decides and tells as ConnectionLease says: whatever is  *)
(* lost or times out, no call is lent a second connection, a connection that *)
(* was lost is lent to nobody, and a transaction is decided, its connection  *)
(* returned and its caller told in one step (runInTransaction(), end()).     *)
ImplementsLease == Lease!Spec

(* What the caller is told is what the server did: resolved means committed, *)
(* or rolled back if the function itself had marked the error or had         *)
(* swallowed the failure of a query that aborts the transaction (Postgres);  *)
(* and nothing of a function that rejected is committed.                     *)
OutcomeIsFate ==
  \A t \in Txns :
    /\ pc[t] = "resolved" =>
         fate[t] = IF t \in error \cup aborted THEN "rolled back" ELSE "committed"
    /\ fate[t] = "committed" => t \notin error \cup failed

(* Every query of a transaction runs between its BEGIN and its end.          *)
QueriesInside == outside = {}

(* The gauges tell the truth about the pools, and a client that has stopped  *)
(* has closed every connection and opens none again.                         *)
GaugesExact ==
  /\ \A p \in Pools :
       LET of(states) == Cardinality({c \in Conns : PoolOf[c] = p /\ conn[c] \in states})
       IN active[p] = of({"lent"}) /\ total[p] = of({"idle", "lent", "closing"})
  /\ client = "stopped" => \A c \in Conns : conn[c] = "absent"

(* Every call settles, even when the pool has leaked all its connections.    *)
CallsSettle == \A t \in Callers : pc[t] # "idle" ~> pc[t] \in Settled

(* stop() of the client comes to an end unless a connection has been leaked: *)
(* one of the master keeps the slave running as well.                        *)
Leaked == \E t \in Callers : pc[t] \in Settled /\ held[t] # NoConn

StopEndsUnlessLeaked == client = "stopping master" ~> client = "stopped" \/ Leaked
=============================================================================
