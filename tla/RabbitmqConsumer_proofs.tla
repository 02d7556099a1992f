---------------------- MODULE RabbitmqConsumer_proofs -----------------------
(* Theorems about a message and a RabbitmqConsumer, for every number of      *)
(* retries, connections and reconnection attempts, and whatever happens to   *)
(* the channels in the meantime.                                             *)
EXTENDS RabbitmqConsumer, RabbitmqConnection_proofs, FiniteSetTheorems

ConsumerTypeOK ==
  /\ subscription \in {"none", "on", "failed"}
  /\ sub \in Conns \cup {NoConn}
  /\ place \in [Slots -> Live \cup {"none"}]
  /\ retriesCount \in [Slots -> Nat]
  /\ header \in {"count", "no count", "missing"}
  /\ handling \subseteq Slots
  /\ failures \in Nat

(* No copy has counted more retries than the handler has failed.             *)
CountsFailures == \A s \in Slots : retriesCount[s] <= failures

(* The subscription delivers on the channel in hand, until that closes.      *)
SubscribedInHand ==
  /\ sub # NoConn => sub \in channels
  /\ subscription = "none" => sub = NoConn /\ handling = {}

(* While it lasts there is one copy, and what is handled is not acknowledged.*)
(* After that a handler may still run, of a copy that lies in the queue.     *)
HandledOnce ==
  sub # NoConn \/ subscription = "none" =>
    /\ \A s, t \in Copies : s = t
    /\ \A s \in handling : place[s] = "unacked"

ConsumerIInv ==
  /\ IInv
  /\ ConsumerTypeOK
  /\ CountsFailures
  /\ SubscribedInHand /\ HandledOnce
  /\ NeverLost
-----------------------------------------------------------------------------
LEMMA ConsumerInitImplies ==
  ASSUME ConsumerInit
  PROVE  ConsumerIInv
<1> USE DEF ConsumerInit
<1>1. IInv
  BY InitImpliesIInv
<1>2. ConsumerTypeOK /\ CountsFailures
  <2>1. retriesCount \in [Slots -> Nat] /\ failures \in Nat /\ \A s \in Slots : retriesCount[s] = 0
    OBVIOUS
  <2>2. place \in [Slots -> Live \cup {"none"}]
    BY DEF Live
  <2>3. CountsFailures
    <3>1. failures = 0
      OBVIOUS
    <3> HIDE DEF ConsumerInit
    <3> QED BY <2>1, <3>1 DEF CountsFailures
  <2>4. handling \subseteq Slots /\ sub \in Conns \cup {NoConn}
    OBVIOUS
  <2> QED BY <2>1, <2>2, <2>3, <2>4 DEF ConsumerTypeOK
<1>3. SubscribedInHand /\ HandledOnce
  BY DEF SubscribedInHand, HandledOnce, Copies, Live
<1>4. NeverLost
  <2>1. first \in Copies
    BY ConsumerAssumption DEF Copies, Live
  <2> QED BY <2>1 DEF NeverLost
<1> QED BY <1>1, <1>2, <1>3, <1>4 DEF ConsumerIInv

(* A copy that was not acknowledged lies in the queue again: it is not lost, *)
(* and nothing gets into the dead letter queue.                              *)
LEMMA ConnectionStepKeeps ==
  ASSUME ConsumerIInv, ConnectionStep
  PROVE  ConsumerIInv'
<1> USE DEF ConnectionStep
<1>1. IInv'
  BY StepPreserves DEF ConsumerIInv
<1>2. ConsumerTypeOK'
  BY DEF ConsumerIInv, ConsumerTypeOK, Returned, Live
<1>3. CountsFailures'
  BY DEF ConsumerIInv, CountsFailures
<1>4. /\ Copies' = Copies
      /\ \A s \in Slots : place'[s] = "dlq" => place[s] = "dlq"
  BY DEF ConsumerIInv, ConsumerTypeOK, Returned, Live, Copies
<1>5. NeverLost'
  BY <1>4 DEF ConsumerIInv, NeverLost
<1>6. SubscribedInHand'
  BY DEF ConsumerIInv, SubscribedInHand
<1>7. HandledOnce'
  BY <1>4 DEF ConsumerIInv, HandledOnce, SubscribedInHand
<1> QED BY <1>1, <1>2, <1>3, <1>5, <1>6, <1>7 DEF ConsumerIInv

(* What leaves the connection alone leaves its invariant alone.              *)
LEMMA ConnectionUndisturbed ==
  ASSUME IInv, UNCHANGED vars
  PROVE  IInv'
BY StepPreserves

LEMMA SubscribeKeeps ==
  ASSUME ConsumerIInv, subscribe
  PROVE  ConsumerIInv'
<1> USE DEF subscribe, messageVars
<1>1. IInv'
  BY ConnectionUndisturbed DEF ConsumerIInv
<1>2. ConsumerTypeOK'
  BY DEF ConsumerIInv, ConsumerTypeOK, IInv, TypeOK
<1>3. CountsFailures' /\ NeverLost'
  BY DEF ConsumerIInv, CountsFailures, NeverLost, Copies
<1>4. SubscribedInHand' /\ HandledOnce'
  BY DEF ConsumerIInv, SubscribedInHand, HandledOnce, Copies, vars, brokerVars
<1> QED BY <1>1, <1>2, <1>3, <1>4 DEF ConsumerIInv

LEMMA DeliversKeeps ==
  ASSUME ConsumerIInv, NEW s \in Slots, delivers(s)
  PROVE  ConsumerIInv'
<1> USE DEF delivers
<1>1. IInv'
  BY ConnectionUndisturbed DEF ConsumerIInv
<1>2. ConsumerTypeOK'
  BY DEF ConsumerIInv, ConsumerTypeOK, Live
<1>3. /\ Copies' = Copies /\ s \in Copies
      /\ place'[s] = "unacked"
      /\ \A t \in Slots : t # s => place'[t] = place[t]
  BY DEF ConsumerIInv, ConsumerTypeOK, Live, Copies
<1>4. CountsFailures'
  BY DEF ConsumerIInv, CountsFailures
<1>5. NeverLost'
  BY <1>3 DEF ConsumerIInv, NeverLost
<1>6. SubscribedInHand'
  BY DEF ConsumerIInv, SubscribedInHand, vars, brokerVars
<1>7. HandledOnce'
  BY <1>3 DEF ConsumerIInv, HandledOnce
<1> QED BY <1>1, <1>2, <1>4, <1>5, <1>6, <1>7 DEF ConsumerIInv

LEMMA ExpiresKeeps ==
  ASSUME ConsumerIInv, NEW s \in Slots, expires(s)
  PROVE  ConsumerIInv'
<1> USE DEF expires
<1>1. IInv'
  BY ConnectionUndisturbed DEF ConsumerIInv
<1>2. ConsumerTypeOK'
  BY DEF ConsumerIInv, ConsumerTypeOK, Live
<1>3. /\ Copies' = Copies
      /\ place'[s] = "queue"
      /\ \A t \in Slots : t # s => place'[t] = place[t]
  BY DEF ConsumerIInv, ConsumerTypeOK, Live, Copies
<1>4. CountsFailures'
  BY DEF ConsumerIInv, CountsFailures
<1>5. NeverLost'
  BY <1>3 DEF ConsumerIInv, NeverLost
<1>6. SubscribedInHand'
  BY DEF ConsumerIInv, SubscribedInHand, vars, brokerVars
<1>7. HandledOnce'
  BY <1>3 DEF ConsumerIInv, HandledOnce
<1> QED BY <1>1, <1>2, <1>4, <1>5, <1>6, <1>7 DEF ConsumerIInv
-----------------------------------------------------------------------------
(* The subscription is over when another channel than its own is open, or    *)
(* when the one in hand is not.                                              *)
LEMMA OwnWhileSubscribed ==
  ASSUME ConsumerIInv, Foreign \/ Dying \/ Throws
  PROVE  sub = NoConn
BY DEF ConsumerIInv, SubscribedInHand, IInv, ChannelInHand, Foreign, Dying, Throws

(* The broker closes a channel that has acknowledged what is not its own.    *)
LEMMA RefusedAckKeepsConnection ==
  ASSUME IInv, channel \in channels, brokerRefusesAck
  PROVE  IInv'
<1> PICK c \in {channel} : TRUE
  OBVIOUS
<1>1. c \in Conns /\ channelDies(c)
  BY DEF IInv, TypeOK, brokerRefusesAck, channelDies
<1> QED BY <1>1, ChannelDeathPreserves

(* What acks and sends do to the connection, as the handlers meet it.        *)
LEMMA AnsweringKeepsConnection ==
  ASSUME ConsumerIInv, UNCHANGED vars \/ (Foreign /\ brokerRefusesAck), UNCHANGED <<sub, subscription>>
  PROVE  /\ IInv'
         /\ sub # NoConn => UNCHANGED vars
         /\ sub # NoConn => sub \in channels'
<1>1. CASE UNCHANGED vars
  BY <1>1, ConnectionUndisturbed DEF ConsumerIInv, SubscribedInHand, vars, brokerVars
<1>2. CASE Foreign /\ brokerRefusesAck
  BY <1>2, OwnWhileSubscribed, RefusedAckKeepsConnection DEF ConsumerIInv, Foreign
<1> QED BY <1>1, <1>2

LEMMA HandlerResolvesKeeps ==
  ASSUME ConsumerIInv, NEW s \in Slots, handlerResolves(s)
  PROVE  ConsumerIInv'
<1> USE DEF handlerResolves
<1>1. /\ UNCHANGED vars \/ (Foreign /\ brokerRefusesAck)
      /\ place' = place \/ (Own /\ place' = [place EXCEPT ![s] = "none"])
  BY DEF acks
<1>2. IInv' /\ (sub # NoConn => sub \in channels')
  BY <1>1, AnsweringKeepsConnection
<1>3. ConsumerTypeOK'
  BY <1>1 DEF ConsumerIInv, ConsumerTypeOK
<1>4. /\ Copies' \subseteq Copies
      /\ \A t \in Slots : t # s => place'[t] = place[t]
      /\ \A t \in Slots : place'[t] = "dlq" => place[t] = "dlq"
  BY <1>1 DEF ConsumerIInv, ConsumerTypeOK, Copies, Live
<1>5. CountsFailures'
  BY DEF ConsumerIInv, CountsFailures
<1>6. NeverLost'
  BY <1>4 DEF ConsumerIInv, NeverLost
<1>7. SubscribedInHand'
  BY <1>2 DEF ConsumerIInv, SubscribedInHand
<1>8. HandledOnce'
  BY <1>4 DEF ConsumerIInv, HandledOnce, ConsumerTypeOK
<1> QED BY <1>2, <1>3, <1>5, <1>6, <1>7, <1>8 DEF ConsumerIInv

(* What sending a copy t on, and acknowledging s, does to the copies: there  *)
(* is one at least, and just one where the subscription lasts.               *)
LEMMA SendingKeepsACopy ==
  ASSUME ConsumerIInv, NEW s \in Slots, NEW t \in Slots \ Copies, NEW to \in {"dlq", "delay"},
         sendsAndAcks(s, t, to)
  PROVE  /\ UNCHANGED vars \/ (Foreign /\ brokerRefusesAck)
         /\ \/ place' = place /\ sub = NoConn
            \/ place' = [place EXCEPT ![t] = to] /\ sub = NoConn
            \/ place' = [place EXCEPT ![s] = "none", ![t] = to]
BY OwnWhileSubscribed DEF sendsAndAcks

LEMMA HandlerRejectsKeeps ==
  ASSUME ConsumerIInv, NEW s \in Slots, handlerRejects(s)
  PROVE  ConsumerIInv'
<1>1. PICK forGood \in BOOLEAN :
        unrecoverable' = (unrecoverable \/ forGood) /\ retries(s, forGood)
  BY DEF handlerRejects
<1>2. /\ s \in handling /\ handling' = handling \ {s}
      /\ failures \in Nat /\ failures' = failures + 1 /\ failures' \in Nat
      /\ UNCHANGED <<subscription, sub, header, handled>>
      /\ unrecoverable => unrecoverable'
      /\ forGood => unrecoverable'
  <2>1. s \in handling /\ handling' = handling \ {s} /\ failures' = failures + 1
        /\ UNCHANGED <<subscription, sub, header, handled>>
    BY DEF handlerRejects
  <2>2. failures \in Nat
    BY DEF ConsumerIInv, ConsumerTypeOK
  <2>3. failures' \in Nat
    BY <2>1, <2>2
  <2>4. (unrecoverable => unrecoverable') /\ (forGood => unrecoverable')
    BY <1>1, Zenon
  <2> QED BY <2>1, <2>2, <2>3, <2>4
<1>0. /\ retriesCount \in [Slots -> Nat]
      /\ \A u \in Slots : retriesCount[u] \in Nat /\ retriesCount[u] <= failures
  BY DEF ConsumerIInv, ConsumerTypeOK, CountsFailures
<1>3. CASE UNCHANGED <<vars, place, retriesCount>>
  <2>1. IInv' /\ (sub # NoConn => sub \in channels')
    BY <1>2, <1>3, AnsweringKeepsConnection
  <2>2. ConsumerTypeOK'
    BY <1>2, <1>3 DEF ConsumerIInv, ConsumerTypeOK
  <2>3. CountsFailures'
    BY <1>0, <1>2, <1>3 DEF CountsFailures
  <2>4. NeverLost'
    <3>1. failures > MaxRetries => failures' > MaxRetries
      BY <1>2, ConsumerAssumption
    <3>2. Copies' = Copies
      BY <1>3 DEF Copies
    <3> QED BY <1>2, <1>3, <3>1, <3>2 DEF ConsumerIInv, NeverLost
  <2>5. SubscribedInHand' /\ HandledOnce'
    BY <1>2, <1>3, <2>1 DEF ConsumerIInv, SubscribedInHand, HandledOnce, Copies
  <2> QED BY <2>1, <2>2, <2>3, <2>4, <2>5 DEF ConsumerIInv
<1>4. ASSUME NEW t \in Slots \ Copies, NEW to \in {"dlq", "delay"}, sendsAndAcks(s, t, to),
             to = "dlq" => forGood \/ header = "no count" \/ MaxRetries < retriesCount[s] + 1,
             \/ UNCHANGED retriesCount
             \/ retriesCount' = [retriesCount EXCEPT ![t] = retriesCount[s] + 1]
      PROVE  ConsumerIInv'
  <2>1. /\ UNCHANGED vars \/ (Foreign /\ brokerRefusesAck)
        /\ place' \in [Slots -> Live \cup {"none"}]
        /\ Copies # {} => Copies' # {}
        /\ \A u \in Slots : place'[u] = "dlq" => place[u] = "dlq" \/ to = "dlq"
        /\ \A u \in Slots : u # s /\ u # t => place'[u] = place[u]
        /\ sub # NoConn /\ t # s => place'[s] = "none" /\ place'[t] = to
    <3>1. UNCHANGED vars \/ (Foreign /\ brokerRefusesAck)
      BY <1>4, SendingKeepsACopy
    <3>2. \/ place' = place /\ sub = NoConn
          \/ place' = [place EXCEPT ![t] = to] /\ sub = NoConn
          \/ place' = [place EXCEPT ![s] = "none", ![t] = to]
      BY <1>4, SendingKeepsACopy
    <3>3. place \in [Slots -> Live \cup {"none"}] /\ to \in Live
      BY DEF ConsumerIInv, ConsumerTypeOK, Live
    <3>4. /\ place' \in [Slots -> Live \cup {"none"}]
          /\ \A u \in Slots : u # s /\ u # t => place'[u] = place[u]
          /\ place' = place \/ place'[t] = to
          /\ place'[s] \in {place[s], "none", to}
      BY <3>2, <3>3
    <3>5. Copies # {} => Copies' # {}
      BY <3>3, <3>4 DEF Copies
    <3>6. \A u \in Slots : place'[u] = "dlq" => place[u] = "dlq" \/ to = "dlq"
      BY <3>4
    <3>7. sub # NoConn /\ t # s => place'[s] = "none" /\ place'[t] = to
      BY <3>2, <3>3
    <3> QED BY <3>1, <3>4, <3>5, <3>6, <3>7
  <2>2. IInv' /\ (sub # NoConn => sub \in channels')
    BY <1>2, <2>1, AnsweringKeepsConnection
  <2>3. retriesCount' \in [Slots -> Nat] /\ \A u \in Slots : retriesCount'[u] <= failures + 1
    <3>1. retriesCount[s] + 1 \in Nat /\ retriesCount[s] + 1 <= failures + 1
      BY <1>0, <1>2
    <3>2. CASE UNCHANGED retriesCount
      BY <1>0, <1>2, <3>2
    <3>3. CASE retriesCount' = [retriesCount EXCEPT ![t] = retriesCount[s] + 1]
      <4>1. \A u \in Slots : retriesCount'[u] = IF u = t THEN retriesCount[s] + 1 ELSE retriesCount[u]
        BY <1>0, <3>3
      <4> QED BY <1>0, <1>2, <3>1, <3>3, <4>1
    <3> QED BY <1>4, <3>2, <3>3
  <2>4. ConsumerTypeOK' /\ CountsFailures'
    BY <1>2, <2>1, <2>3 DEF ConsumerIInv, ConsumerTypeOK, CountsFailures
  <2>5. NeverLost'
    <3>1. to = "dlq" => unrecoverable' \/ failures' > MaxRetries \/ header = "no count"
      <4>1. retriesCount[s] \in Nat /\ retriesCount[s] <= failures
        BY <1>0
      <4>2. MaxRetries < retriesCount[s] + 1 => failures' > MaxRetries
        BY <1>2, <4>1, ConsumerAssumption
      <4> QED BY <1>2, <1>4, <4>2
    <3>2. (\E u \in Slots : place[u] = "dlq") =>
            unrecoverable' \/ failures' > MaxRetries \/ header = "no count"
      <4>1. failures > MaxRetries => failures' > MaxRetries
        BY <1>2, ConsumerAssumption
      <4> QED BY <1>2, <4>1 DEF ConsumerIInv, NeverLost
    <3>3. handled' \/ Copies' # {}
      BY <1>2, <2>1 DEF ConsumerIInv, NeverLost
    <3> QED BY <1>2, <2>1, <3>1, <3>2, <3>3 DEF NeverLost
  <2>6. SubscribedInHand'
    BY <1>2, <2>2 DEF ConsumerIInv, SubscribedInHand
  <2>7. HandledOnce'
    <3> SUFFICES ASSUME sub # NoConn \/ subscription = "none"
                 PROVE  /\ \A u, v \in Copies' : u = v
                        /\ \A u \in handling' : place'[u] = "unacked"
      BY <1>2 DEF HandledOnce
    <3>1. sub # NoConn /\ place[s] = "unacked" /\ s \in Copies
      BY <1>2 DEF ConsumerIInv, SubscribedInHand, HandledOnce, Copies, Live
    <3>2. Copies = {s} /\ handling' = {}
      BY <1>2, <3>1 DEF ConsumerIInv, HandledOnce, Copies, Live, ConsumerTypeOK
    <3>3. \A u \in Copies' : u = t
      BY <2>1, <3>1, <3>2 DEF Copies, Live
    <3> QED BY <3>2, <3>3
  <2> QED BY <2>2, <2>4, <2>5, <2>6, <2>7 DEF ConsumerIInv
<1>5. CASE \E t \in Slots \ Copies :
             /\ header # "missing"
             /\ IF forGood \/ ~allowRetry(retriesCount[s] + 1)
                THEN sendsAndAcks(s, t, "dlq") /\ UNCHANGED retriesCount
                ELSE /\ sendsAndAcks(s, t, "delay")
                     /\ retriesCount' = [retriesCount EXCEPT ![t] = retriesCount[s] + 1]
  <2>1. PICK t \in Slots \ Copies :
             /\ header # "missing"
             /\ IF forGood \/ ~allowRetry(retriesCount[s] + 1)
                THEN sendsAndAcks(s, t, "dlq") /\ UNCHANGED retriesCount
                ELSE /\ sendsAndAcks(s, t, "delay")
                     /\ retriesCount' = [retriesCount EXCEPT ![t] = retriesCount[s] + 1]
    BY <1>5
  <2>2. ~allowRetry(retriesCount[s] + 1) => header = "no count" \/ MaxRetries < retriesCount[s] + 1
    <3>1. header \in {"count", "no count"}
      BY <2>1 DEF ConsumerIInv, ConsumerTypeOK
    <3>2. retriesCount[s] + 1 \in Nat
      BY <1>0
    <3>3. ~(MaxRetries >= retriesCount[s] + 1) => MaxRetries < retriesCount[s] + 1
      BY <3>2, ConsumerAssumption
    <3> QED BY <3>1, <3>3 DEF allowRetry
  <2>3. CASE forGood \/ ~allowRetry(retriesCount[s] + 1)
    BY <1>4, <2>1, <2>2, <2>3
  <2>4. CASE ~(forGood \/ ~allowRetry(retriesCount[s] + 1))
    BY <1>4, <2>1, <2>4
  <2> QED BY <2>3, <2>4
<1> QED BY <1>1, <1>3, <1>5 DEF retries

-----------------------------------------------------------------------------
LEMMA ConsumerStepPreserves ==
  ASSUME ConsumerIInv, [ConsumerNext]_consumerVars
  PROVE  ConsumerIInv'
<1>1. CASE ConnectionStep
  BY <1>1, ConnectionStepKeeps
<1>2. CASE subscribe
  BY <1>2, SubscribeKeeps
<1>3. ASSUME NEW s \in Slots, delivers(s) \/ expires(s) \/ handleMessage(s)
      PROVE  ConsumerIInv'
  BY <1>3, DeliversKeeps, ExpiresKeeps, HandlerResolvesKeeps, HandlerRejectsKeeps
     DEF handleMessage
<1>4. CASE UNCHANGED consumerVars
  <2>1. IInv'
    BY <1>4, ConnectionUndisturbed DEF consumerVars, ConsumerIInv
  <2>2. ConsumerTypeOK' /\ CountsFailures' /\ NeverLost' /\ SubscribedInHand' /\ HandledOnce'
    BY <1>4 DEF consumerVars, messageVars, vars, brokerVars, ConsumerIInv, ConsumerTypeOK,
       CountsFailures, NeverLost, SubscribedInHand, HandledOnce, Copies
  <2> QED BY <2>1, <2>2 DEF ConsumerIInv
<1> QED BY <1>1, <1>2, <1>3, <1>4 DEF ConsumerNext

THEOREM ConsumerInductive == Spec => []ConsumerIInv
BY ConsumerInitImplies, ConsumerStepPreserves, PTL DEF Spec

(* Through any number of failed handlers, lost channels and reconnections, a *)
(* message that was not handled lies in a queue or is not acknowledged yet;  *)
(* and it is dead-lettered only when its retries are spent, it failed for    *)
(* good, or it cannot count.                                                 *)
THEOREM NoMessageIsLost == Spec => []NeverLost
BY ConsumerInductive, PTL DEF ConsumerIInv

(* While the subscription lasts what is sent on is acknowledged: there are   *)
(* never two copies of a message.                                            *)
THEOREM OneCopyWhileSubscribed == Spec => []OneCopy
<1>1. ConsumerIInv => OneCopy
  <2> SUFFICES ASSUME ConsumerIInv, sub # NoConn \/ subscription = "none"
               PROVE  Cardinality(Copies) <= 1
    BY DEF OneCopy
  <2>1. \A s, t \in Copies : s = t
    BY DEF ConsumerIInv, HandledOnce
  <2>2. CASE Copies = {}
    BY <2>2, FS_EmptySet
  <2>3. CASE Copies # {}
    <3>1. PICK s : Copies = {s}
      BY <2>1, <2>3
    <3> QED BY <3>1, FS_Singleton
  <2> QED BY <2>2, <2>3
<1> QED BY <1>1, ConsumerInductive, PTL
=============================================================================
