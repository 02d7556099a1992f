-------------------------- MODULE RabbitmqConsumer --------------------------
(* One message and a RabbitmqConsumer over the client's connection           *)
(* (src/src/rabbitmq/RabbitmqConsumer.ts).  The application queue is filled  *)
(* by a publisher and by the delay queue, which dead-letters into it; no     *)
(* other consumer takes from it.                                             *)
(*                                                                           *)
(* A message that is sent again is another copy, with the retriesCount of    *)
(* its header.  The copies lie in Slots; nothing that happens asks for more  *)
(* than two of them.                                                         *)
EXTENDS RabbitmqConnection, FiniteSets

CONSTANTS
  Slots,      \* bound: the copies of the message at once
  first,      \* the slot of the copy that was published
  MaxRetries  \* consumerConfig.maxRetries

ASSUME ConsumerAssumption == first \in Slots /\ MaxRetries \in Nat

VARIABLES
  subscription,  \* what became of the subscription that init() asks for
  sub,           \* the channel it delivers on, while that is open
  place,         \* place[s]: where the copy s is
  retriesCount,  \* retriesCount[s]: in its header
  header,        \* the header that the message was published with
  handling,      \* the copies whose handler is running
  failures,      \* for the invariants: how often the handler has failed,
  handled,       \* whether it has succeeded,
  unrecoverable  \* and whether it has failed for good

messageVars == <<place, retriesCount, header, handling, failures, handled, unrecoverable>>
consumerVars == <<vars, subscription, sub, messageVars>>

Live == {"queue", "unacked", "delay", "dlq"}
Copies == {s \in Slots : place[s] \in Live}

ConsumerInit ==
  /\ Init
  /\ subscription = "none" /\ sub = NoConn
  /\ place = [s \in Slots |-> IF s = first THEN "queue" ELSE "none"]
  /\ retriesCount = [s \in Slots |-> 0]
  /\ header \in {"count", "no count", "missing"}
  /\ handling = {} /\ failures = 0 /\ handled = FALSE /\ unrecoverable = FALSE

(* What the end of the subscription's channel does: the broker takes back    *)
(* what was not acknowledged.  The subscription is not renewed.              *)
Returned == [s \in Slots |-> IF place[s] = "unacked" THEN "queue" ELSE place[s]]

(* The connection moves.  The client is closed only after init() resolved.   *)
ConnectionStep ==
  /\ Next
  /\ closing = "no" /\ closing' # "no" => subscription = "on"
  /\ IF sub \in channels'
     THEN UNCHANGED <<sub, place>>
     ELSE sub' = NoConn /\ place' = Returned
  /\ UNCHANGED <<subscription, retriesCount, header, handling, failures, handled, unrecoverable>>

(* The end of init().                                                        *)
subscribe ==
  /\ at[init] = "done" /\ subscription = "none"
  /\ IF channel \in channels
     THEN subscription' = "on" /\ sub' = channel
     ELSE subscription' = "failed" /\ UNCHANGED sub
  /\ UNCHANGED <<vars, messageVars>>

delivers(s) ==
  /\ sub # NoConn /\ place[s] = "queue"
  /\ place' = [place EXCEPT ![s] = "unacked"]
  /\ handling' = handling \cup {s}
  /\ UNCHANGED <<vars, subscription, sub, retriesCount, header, failures, handled, unrecoverable>>

(* The delay queue dead-letters a copy when its time is over.                *)
expires(s) ==
  /\ place[s] = "delay"
  /\ place' = [place EXCEPT ![s] = "queue"]
  /\ UNCHANGED <<vars, subscription, sub, retriesCount, header, handling, failures, handled,
                 unrecoverable>>
-----------------------------------------------------------------------------
(* this.channel, which need not be the one that delivered: it throws when it *)
(* is missing or known to be closed, loses what it is given when it is       *)
(* closed and has not told yet, and is closed by the broker for an ack of    *)
(* what it has not delivered.                                                *)
Own == channel \in channels /\ channel = sub
Foreign == channel \in channels /\ channel # sub
Dying == channel \notin channels /\ \E e \in coming : e.conn = channel
Throws == channel \notin channels

brokerRefusesAck ==
  /\ channels' = channels \ {channel}
  /\ coming' = coming \cup EventsOf("channel", channel)
  /\ UNCHANGED <<clientVars, runVars, open, refused>>

(* ack of the copy s alone.                                                  *)
acks(s) ==
  \/ Own /\ place' = [place EXCEPT ![s] = "none"] /\ UNCHANGED vars
  \/ Foreign /\ brokerRefusesAck /\ UNCHANGED place
  \/ Dying /\ UNCHANGED <<vars, place>>

(* Mutant: the copy is acknowledged before it is sent on.                    *)
acksAndSends(s, t, to) ==
  \/ Own /\ place' = [place EXCEPT ![s] = "none", ![t] = to] /\ UNCHANGED vars
  \/ Foreign /\ brokerRefusesAck /\ UNCHANGED place
  \/ /\ Dying /\ UNCHANGED vars
     /\ \/ UNCHANGED place
        \/ place' = [place EXCEPT ![s] = "none"]

(* Mutant: what is sent on is not acknowledged.                              *)
sendsOnly(s, t, to) ==
  \/ channel \in channels /\ place' = [place EXCEPT ![t] = to] /\ UNCHANGED vars
  \/ Dying /\ UNCHANGED <<vars, place>>

(* sendToQueue of a copy t, then ack of s.  Of what a dying channel is given *)
(* the broker may have read the first half.                                  *)
sendsAndAcks(s, t, to) ==
  \/ Own /\ place' = [place EXCEPT ![s] = "none", ![t] = to] /\ UNCHANGED vars
  \/ Foreign /\ brokerRefusesAck /\ place' = [place EXCEPT ![t] = to]
  \/ /\ Dying /\ UNCHANGED vars
     /\ \/ UNCHANGED place
        \/ place' = [place EXCEPT ![t] = to]

(* A retriesCount of NaN allows none.                                        *)
allowRetry(n) == header = "count" /\ MaxRetries >= n

(* Mutant: nothing is done without a count.                                  *)
retriesCounted(s, forGood) ==
  \/ /\ header # "count" \/ Throws
     /\ UNCHANGED <<vars, place, retriesCount>>
  \/ \E t \in Slots \ Copies :
       /\ header = "count"
       /\ IF forGood \/ ~allowRetry(retriesCount[s] + 1)
          THEN sendsAndAcks(s, t, "dlq") /\ UNCHANGED retriesCount
          ELSE /\ sendsAndAcks(s, t, "delay")
               /\ retriesCount' = [retriesCount EXCEPT ![t] = retriesCount[s] + 1]

(* The catch of handleMessage(): the copy goes to the delay queue or to the  *)
(* dead letter queue; or nothing happens, because there are no headers to    *)
(* count in, or because the channel throws, and then nack throws as well.    *)
retries(s, forGood) ==
  \/ /\ header = "missing" \/ Throws
     /\ UNCHANGED <<vars, place, retriesCount>>
  \/ \E t \in Slots \ Copies :
       /\ header # "missing"
       /\ IF forGood \/ ~allowRetry(retriesCount[s] + 1)
          THEN sendsAndAcks(s, t, "dlq") /\ UNCHANGED retriesCount
          ELSE /\ sendsAndAcks(s, t, "delay")
               /\ retriesCount' = [retriesCount EXCEPT ![t] = retriesCount[s] + 1]

(* When the ack throws, its own success is handled as a failure, on the      *)
(* channel that just threw.                                                  *)
handlerResolves(s) ==
  /\ s \in handling
  /\ handled' = TRUE
  /\ acks(s) \/ (Throws /\ UNCHANGED <<vars, place>>)
  /\ handling' = handling \ {s}
  /\ UNCHANGED <<subscription, sub, retriesCount, header, failures, unrecoverable>>

handlerRejects(s) ==
  /\ s \in handling
  /\ failures' = failures + 1
  /\ \E forGood \in BOOLEAN :
       /\ unrecoverable' = (unrecoverable \/ forGood)
       /\ retries(s, forGood)
  /\ handling' = handling \ {s}
  /\ UNCHANGED <<subscription, sub, header, handled>>
-----------------------------------------------------------------------------
handleMessage(s) == handlerResolves(s) \/ handlerRejects(s)

ConsumerNext ==
  \/ ConnectionStep
  \/ subscribe
  \/ \E s \in Slots : delivers(s) \/ expires(s) \/ handleMessage(s)

(* The broker delivers, time passes, and a handler settles.                  *)
Fairness ==
  \A s \in Slots :
    /\ WF_consumerVars(delivers(s)) /\ WF_consumerVars(expires(s))
    /\ WF_consumerVars(handleMessage(s))

Spec == ConsumerInit /\ [][ConsumerNext]_consumerVars
FairSpec == Spec /\ Fairness
-----------------------------------------------------------------------------
(* A message whose handler has not succeeded lies in some queue, or is still *)
(* to be acknowledged, whatever happened to channels in the meantime; in the *)
(* dead letter queue only after its handler failed for good, or more often   *)
(* than there are retries, or if the failures could not be counted.          *)
NeverLost ==
  /\ handled \/ Copies # {}
  /\ (\E s \in Slots : place[s] = "dlq") =>
       unrecoverable \/ failures > MaxRetries \/ header = "no count"

(* There is a second copy only after the channel that delivered the first    *)
(* was lost: in all other cases what is sent on is acknowledged.             *)
OneCopy == sub # NoConn \/ subscription = "none" => Cardinality(Copies) <= 1

(* While the subscription lasts, a message is handled or given up in the     *)
(* end, unless it has no headers and its handler fails.                      *)
MessagesSettle ==
  (sub # NoConn /\ \E s \in Slots : place[s] \in {"queue", "delay", "unacked"}) ~>
    \/ handled \/ \E s \in Slots : place[s] = "dlq"
    \/ sub = NoConn
    \/ header = "missing" /\ failures > 0
=============================================================================
