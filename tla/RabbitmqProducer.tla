-------------------------- MODULE RabbitmqProducer --------------------------
(* The callers of RabbitmqProducer.publish() over the client's connection    *)
(* (src/src/rabbitmq/RabbitmqProducer.ts, src/src/util/ReadyGate.ts).        *)
(* Messages are not told apart: a call stands for its message.               *)
EXTENDS RabbitmqConnection

CONSTANT Calls   \* the calls of publish

VARIABLES
  pc,        \* pc[p]: where call p is
  strategy   \* producerConfig.backPressureStrategy

producerVars == <<vars, pc, strategy>>

ProducerInit ==
  /\ Init
  /\ pc = [p \in Calls |-> "idle"]
  /\ strategy \in {"ERROR", "BLOCK"}

(* The connection moves.  The gate, when it opens, resolves the promise all  *)
(* callers wait for; a channel that is gone never emits drain.               *)
ClientStep ==
  /\ Next
  /\ pc' = [p \in Calls |->
             IF pc[p] = "gate" /\ ready' THEN "passed"
             ELSE IF pc[p] = "drain" /\ channel \notin channels' THEN "lost"
             ELSE pc[p]]
  /\ UNCHANGED strategy

(* channel.publish() throws without a channel, or on one known to be closed. *)
(* Of one that has ended and not told yet it can return either answer.       *)
PublishThrows == channel \notin channels
PublishReturns == channel \in channels \/ \E e \in coming : e.conn = channel

(* The loop of publish(): what becomes of the call in one go.                *)
publishes(p) ==
  /\ \/ PublishThrows /\ pc' = [pc EXCEPT ![p] = "rejected"]
     \/ PublishReturns /\ pc' = [pc EXCEPT ![p] = "resolved"]
     \/ /\ PublishReturns /\ strategy = "ERROR"
        /\ pc' = [pc EXCEPT ![p] = "rejected"]
     \/ /\ PublishReturns /\ strategy = "BLOCK"
        /\ pc' = [pc EXCEPT ![p] = IF channel \in channels THEN "drain" ELSE "lost"]
  /\ UNCHANGED <<vars, strategy>>

publish(p) ==
  /\ pc[p] = "idle"
  /\ \/ ready /\ ~closed /\ publishes(p)
     \/ /\ ~closed /\ ~ready
        /\ pc' = [pc EXCEPT ![p] = "gate"]
        /\ UNCHANGED <<vars, strategy>>
     \/ /\ closed
        /\ pc' = [pc EXCEPT ![p] = "rejected"]
        /\ UNCHANGED <<vars, strategy>>

(* The reaction to the gate's promise.  The gate is not looked at again.     *)
awaitChannelReady(p) == pc[p] = "passed" /\ publishes(p)

(* The channel drains.  The listener is a function() and its `this` is the   *)
(* channel, which has no logger: it throws before it resolves the promise    *)
(* the call awaits, and the exception is logged as uncaught.  That is why    *)
(* the loop never comes round and the limit of three attempts is not here.   *)
drains(p) ==
  /\ pc[p] = "drain"
  /\ pc' = [pc EXCEPT ![p] = "drained"]
  /\ UNCHANGED <<vars, strategy>>

ProducerNext ==
  \/ ClientStep
  \/ \E p \in Calls : publish(p) \/ awaitChannelReady(p) \/ drains(p)

(* Events are delivered, attempts are answered, timers fire and reactions    *)
(* run.  Nothing has to fail, and nobody has to call publish() or close().   *)
Fairness ==
  /\ WF_producerVars(ClientStep /\ EventNext)
  /\ WF_producerVars(ClientStep /\ closeEnds)
  /\ \A r \in Runs : WF_producerVars(ClientStep /\ RunNext(r))
  /\ \A p \in Calls : WF_producerVars(awaitChannelReady(p)) /\ WF_producerVars(drains(p))

Spec == ProducerInit /\ [][ProducerNext]_producerVars
FairSpec == Spec /\ Fairness
-----------------------------------------------------------------------------
(* Nobody waits at an open gate, nor at a shut one that nobody will open:    *)
(* the client has yet to start, or mends, or has given up or failed to start.*)
GateIsWatched ==
  \A p \in Calls : pc[p] = "gate" =>
    ~ready /\ (reconnecting \/ gaveUp \/ at[init] # "done")

(* A call that waits at the gate is let through in the end, through any      *)
(* number of outages and even when the client is closed meanwhile, unless    *)
(* init() fails or the client has used up its attempts.                      *)
PublishersPass ==
  \A p \in Calls :
    (pc[p] \in {"gate", "passed"}) ~>
      (pc[p] \notin {"gate", "passed"} \/ gaveUp \/ at[init] \in {"idle", "failed"})

(* "Failed to publish message after 3 attempts" (RabbitmqProducer.ts:60): a  *)
(* call that waits for the channel to drain is retried, and then settles.    *)
DrainedPublishersReturn ==
  \A p \in Calls : (pc[p] = "drained") ~> (pc[p] \in {"resolved", "rejected"})
=============================================================================
