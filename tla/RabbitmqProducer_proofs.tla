---------------------- MODULE RabbitmqProducer_proofs -----------------------
(* Theorems about the connection of a RabbitMQ client that publishers use,   *)
(* for every number of connections, attempts and publishers.                 *)
EXTENDS RabbitmqProducer, RabbitmqConnection_proofs

(* Publishers only look at the client.                                       *)
LEMMA ProducersLookOn == [ProducerNext]_producerVars => [Next]_vars
BY DEF ProducerNext, producerVars, ClientStep, publish, awaitChannelReady, publishes, drains

THEOREM ProducerInductive == Spec => []UserIInv
BY InitSeen, UserIInvStep, ProducersLookOn, PTL DEF Spec, ProducerInit

(* However many error and close events an outage sends, and in whatever      *)
(* order: at most one closeAllAndScheduleReconnection() is at work, and      *)
(* `reconnecting` says truly whether one is.                                 *)
THEOREM OneReconnectionAtATime == Spec => []OneReconnection
BY ProducerInductive, PTL DEF UserIInv, IInv

(* The ready gate lets nobody through to a channel that is missing, that     *)
(* belongs to another connection, or that is dead without an event that      *)
(* will set a reconnection going.                                            *)
THEOREM TheGateIsTrue == Spec => []GateTruth
BY ProducerInductive, PTL DEF UserIInv, IInv

(* No run of connect() and no close() leaves a connection behind, open or    *)
(* heard of, but one on which createChannel() was refused.                   *)
THEOREM OnlyRefusedAreLeftBehind == Spec => []NothingLeftBehind
BY ProducerInductive, PTL DEF UserIInv, IInv

(* Through any events, failures and calls, what publishers see of the client *)
(* is a ReconnectingClient.                                                  *)
THEOREM ClientIsReconnecting == Spec => ImplementsClient
<1>1. Spec => Init /\ [][Next]_vars
  BY ProducersLookOn, PTL DEF Spec, ProducerInit
<1> QED BY <1>1, ConnectionImplementsClient

-----------------------------------------------------------------------------
(* A call comes to the gate only while it is shut, and opening it lets all   *)
(* of them pass in the same step.                                            *)
GateShutForWaiting ==
  /\ pc \in [Calls -> {"idle", "gate", "passed", "drain", "drained", "lost", "resolved", "rejected"}]
  /\ \A p \in Calls : pc[p] = "gate" => ~ready

LEMMA GateShutForWaitingInductive ==
  ASSUME GateShutForWaiting, [ProducerNext]_producerVars
  PROVE  GateShutForWaiting'
<1>1. CASE ClientStep
  BY <1>1 DEF ClientStep, GateShutForWaiting
<1>2. ASSUME NEW p \in Calls, publishes(p)
      PROVE  GateShutForWaiting'
  BY <1>2 DEF publishes, vars, clientVars, GateShutForWaiting
<1>3. ASSUME NEW p \in Calls, publish(p)
      PROVE  GateShutForWaiting'
  <2>1. CASE ready /\ ~closed /\ publishes(p)
    BY <1>2, <2>1
  <2>2. CASE ~ready /\ pc' = [pc EXCEPT ![p] = "gate"] /\ UNCHANGED <<vars, strategy>>
    BY <2>2 DEF vars, clientVars, GateShutForWaiting
  <2>3. CASE pc' = [pc EXCEPT ![p] = "rejected"] /\ UNCHANGED <<vars, strategy>>
    BY <2>3 DEF vars, clientVars, GateShutForWaiting
  <2> QED BY <1>3, <2>1, <2>2, <2>3 DEF publish
<1>4. ASSUME NEW p \in Calls, drains(p)
      PROVE  GateShutForWaiting'
  BY <1>4 DEF drains, vars, clientVars, GateShutForWaiting
<1>5. CASE UNCHANGED producerVars
  BY <1>5 DEF producerVars, vars, clientVars, GateShutForWaiting
<1> QED BY <1>1, <1>2, <1>3, <1>4, <1>5 DEF ProducerNext, awaitChannelReady

(* Nobody waits at the gate with nothing to wait for: the part of            *)
(* PublishersPass that needs no fairness.                                    *)
THEOREM TheGateIsWatched == Spec => []GateIsWatched
<1>1. ProducerInit => GateShutForWaiting
  BY DEF ProducerInit, GateShutForWaiting
<1>2. UserIInv /\ GateShutForWaiting => GateIsWatched
  BY DEF UserIInv, Attentive, GateShutForWaiting, GateIsWatched
<1> QED BY <1>1, <1>2, GateShutForWaitingInductive, ProducerInductive, PTL DEF Spec
=============================================================================
