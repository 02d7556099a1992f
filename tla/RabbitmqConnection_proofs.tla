--------------------- MODULE RabbitmqConnection_proofs ----------------------
(* The inductive invariant of the connection of a RabbitMQ client, for every *)
(* number of connections and attempts, and what the client is to its users.  *)
EXTENDS RabbitmqConnection, TLAPS

(* init() is never in a reconnection's places, nor the other way round.      *)
Places ==
  /\ at[init] \notin {"closing", "backoff"}
  /\ \A r \in Repairs : at[r] \notin {"done", "failed"}

(* While a reconnection runs the gate is shut and there is no channel.       *)
GateShut == \A r \in Running : channel = NoConn /\ ~ready

(* close() comes after init().                                               *)
ClosedAfterInit ==
  /\ closed <=> closing # "no"
  /\ closed => at[init] = "done"

(* There is one channel to hear of, the one in hand, and it belongs to the   *)
(* connection in hand.  A channel that opens while close() runs has lost its *)
(* connection, and with it the listeners of the connection.                  *)
ChannelInHand ==
  /\ channels \subseteq {channel}
  /\ \A e \in coming : e.of = "channel" => e.conn = channel
  /\ channel # NoConn =>
       \/ channel = connection
       \/ /\ closed /\ connection = NoConn
          /\ channel \notin open
          /\ \A e \in coming : e.of = "connection" => e.conn # channel

(* Nothing happens before init() has a connection.                           *)
NothingYet ==
  at[init] \in {"idle", "connecting"} =>
    /\ connection = NoConn /\ channel = NoConn
    /\ open = {} /\ coming = {} /\ ~ready
    /\ Running = {}

(* A reconnection that overtakes init() is waiting or still closing when     *)
(* init() asks for its channel.                                              *)
InitOvertaken ==
  at[init] = "connected" => \A r \in Repairs : at[r] \in {"idle", "closing", "backoff"}

(* As long as init() can still succeed, nothing else has happened.           *)
InitMaySucceed ==
  \/ at[init] = "connected" /\ connection \in open
  \/ at[init] = "opening" /\ on[init] \in open
  => /\ open = {connection} /\ channel = NoConn
     /\ coming = {} /\ ~ready
     /\ Running = {}
     /\ at[init] = "opening" => on[init] = connection

(* The channel of a reconnection is asked of the connection in hand.         *)
RepairInHand ==
  \A r \in Repairs : at[r] = "opening" =>
    \/ connection = on[r]
    \/ connection = NoConn /\ on[r] \notin open

(* The connection of a failed attempt is over, or refused a channel.         *)
BetweenAttempts ==
  \A r \in Repairs :
    /\ at[r] \in {"backoff", "connecting"} => connection \notin open \/ connection \in refused
    /\ at[r] = "connecting" =>
         (\A e \in coming : e.conn # connection) \/ connection \in refused

IInv ==
  /\ TypeOK /\ Places
  /\ OneReconnection /\ GateShut
  /\ ClosedAfterInit
  /\ ChannelInHand
  /\ NothingYet /\ InitOvertaken /\ InitMaySucceed
  /\ RepairInHand /\ BetweenAttempts
  /\ GateTruth
  /\ NothingLeftBehind
-----------------------------------------------------------------------------
(* The events of one source.                                                 *)
LEMMA EventsOfMembers ==
  ASSUME NEW of \in {"connection", "channel"}, NEW c, NEW e \in Event
  PROVE  e \in EventsOf(of, c) <=> e.of = of /\ e.conn = c
  BY DEF Event, EventsOf

(* What is to come after the connection has been let go of.                  *)
LEMMA ComingAfterClose ==
  ASSUME TypeOK, closeConnection
  PROVE  /\ coming' \subseteq Event
         /\ \A e \in coming' :
              \/ e \in coming /\ ~(e.of = "connection" /\ e.conn = connection)
              \/ e.of = "channel" /\ e.conn = connection /\ connection \in channels
<1>1. \A e \in [of : {"channel"}, conn : channels \cap {connection}, kind : {"close"}] :
        /\ e \in Event
        /\ e.of = "channel" /\ e.conn = connection /\ connection \in channels
  BY DEF TypeOK, Event
<1>2. coming' = (coming \ EventsOf("connection", connection))
               \cup [of : {"channel"}, conn : channels \cap {connection}, kind : {"close"}]
  BY DEF closeConnection
<1>3. coming \subseteq Event
  BY DEF TypeOK
<1> QED BY <1>1, <1>2, <1>3, EventsOfMembers

(* The loop of attemptReconnection keeps to its places and its limit.        *)
LEMMA AttemptTypes ==
  ASSUME TypeOK, NEW r \in Runs, attemptReconnection(r)
  PROVE  /\ at' \in [Runs -> Place]
         /\ attempts' \in [Runs -> 0 .. MaxAttempts]
         /\ reconnecting' \in BOOLEAN /\ gaveUp' \in BOOLEAN
<1>1. at' \in [Runs -> Place]
  BY DEF TypeOK, attemptReconnection, Move, Place
<1>2. attempts' \in [Runs -> 0 .. MaxAttempts]
  <2>1. attempts[r] < MaxAttempts => attempts[r] + 1 \in 0 .. MaxAttempts
    BY RabbitmqAssumption DEF TypeOK
  <2>2. 0 \in 0 .. MaxAttempts
    BY RabbitmqAssumption
  <2> QED BY <2>1, <2>2 DEF TypeOK, attemptReconnection
<1>3. reconnecting' \in BOOLEAN /\ gaveUp' \in BOOLEAN
  BY DEF TypeOK, attemptReconnection
<1> QED BY <1>1, <1>2, <1>3
-----------------------------------------------------------------------------
(* init() begins.                                                            *)
LEMMA InitBeginsPreserves ==
  ASSUME IInv, initBegins
  PROVE  IInv'
<1>1. TypeOK'
  BY RabbitmqAssumption DEF IInv, TypeOK, Runs, Place, Event, clientVars, brokerVars,
     initBegins, Move
<1>2. (Places /\ OneReconnection /\ GateShut /\ ClosedAfterInit /\ ChannelInHand /\
       NothingYet /\ InitOvertaken /\ InitMaySucceed /\ RepairInHand /\
       BetweenAttempts /\ GateTruth /\ NothingLeftBehind)'
  BY RabbitmqAssumption DEF IInv, Places, OneReconnection, GateShut, ClosedAfterInit,
     ChannelInHand, NothingYet, InitOvertaken, InitMaySucceed, RepairInHand, BetweenAttempts,
     GateTruth, NothingLeftBehind, Runs, Running, clientVars, brokerVars, initBegins, Move
<1> QED BY <1>1, <1>2 DEF IInv

(* The first event of an outage: the channel goes, the connection stays for  *)
(* one more step.                                                            *)
LEMMA EventPreserves ==
  ASSUME IInv, NEW e, NEW r \in Repairs, closeAllAndScheduleReconnection(e, r)
  PROVE  IInv'
<1>1. coming \subseteq Event
  BY DEF IInv, TypeOK
<1>2. TypeOK'
  <2>1. at' \in [Runs -> Place]
    BY DEF IInv, TypeOK, closeAllAndScheduleReconnection, Move, Runs, Place
  <2> QED BY <2>1 DEF IInv, TypeOK, closeAllAndScheduleReconnection
<1>3. OneReconnection'
  BY RabbitmqAssumption DEF IInv, TypeOK, OneReconnection, Runs, Running,
     closeAllAndScheduleReconnection, Move, EventsOf
<1>4. ChannelInHand'
  BY <1>1, EventsOfMembers DEF IInv, ChannelInHand, closeAllAndScheduleReconnection
<1>5. NothingLeftBehind'
  <2>1. \A x \in coming' : x \in coming /\ x.of = "connection"
    BY <1>1, EventsOfMembers DEF IInv, Event, ChannelInHand, closeAllAndScheduleReconnection
  <2>2. channel \notin {NoConn, connection} =>
          channel \notin open /\ \A x \in coming' : x.conn # channel
    BY <2>1 DEF IInv, ChannelInHand
  <2> QED
    BY <2>1, <2>2, RabbitmqAssumption DEF IInv, NothingLeftBehind, closeAllAndScheduleReconnection
<1>6. (Places /\ GateShut /\ ClosedAfterInit /\ NothingYet /\ InitOvertaken /\
       InitMaySucceed /\ RepairInHand /\ BetweenAttempts /\ GateTruth)'
  BY RabbitmqAssumption DEF IInv, Places, GateShut, ClosedAfterInit, NothingYet, InitOvertaken,
     InitMaySucceed, RepairInHand, BetweenAttempts, GateTruth, Runs, Running,
     closeAllAndScheduleReconnection, Move, EventsOf
<1> QED BY <1>2, <1>3, <1>4, <1>5, <1>6 DEF IInv

(* An event of an outage that is being dealt with.                           *)
LEMMA IgnoredEventPreserves ==
  ASSUME IInv, NEW e, eventIgnored(e)
  PROVE  IInv'
<1>1. TypeOK'
  BY RabbitmqAssumption DEF IInv, TypeOK, Runs, Place, Event, clientVars, runVars, eventIgnored
<1>2. GateTruth'
  BY RabbitmqAssumption DEF IInv, OneReconnection, GateShut, GateTruth, Runs, Running,
     clientVars, runVars, eventIgnored
<1>3. (Places /\ OneReconnection /\ GateShut /\ ClosedAfterInit /\ ChannelInHand /\
       NothingYet /\ InitOvertaken /\ InitMaySucceed /\ RepairInHand /\
       BetweenAttempts /\ NothingLeftBehind)'
  BY RabbitmqAssumption DEF IInv, Places, OneReconnection, GateShut, ClosedAfterInit,
     ChannelInHand, NothingYet, InitOvertaken, InitMaySucceed, RepairInHand, BetweenAttempts,
     NothingLeftBehind, Runs, Running, clientVars, runVars, eventIgnored
<1> QED BY <1>1, <1>2, <1>3 DEF IInv

(* The reconnection lets go of the connection.  There is no channel any      *)
(* more, so nothing of it is heard again.                                    *)
LEMMA LettingGoPreserves ==
  ASSUME IInv, NEW r \in Runs, connectionLetGo(r)
  PROVE  IInv'
<1>1. TypeOK'
  BY AttemptTypes, ComingAfterClose, RabbitmqAssumption
     DEF IInv, TypeOK, connectionLetGo, closeConnection
<1>2. ChannelInHand'
  BY RabbitmqAssumption DEF IInv, Places, GateShut, ChannelInHand, Runs, Running,
     connectionLetGo, closeConnection, attemptReconnection, Move, EventsOf
<1>3. BetweenAttempts'
  BY RabbitmqAssumption DEF IInv, TypeOK, Places, OneReconnection, BetweenAttempts, Runs,
     Running, connectionLetGo, closeConnection, attemptReconnection, Move, EventsOf
<1>4. GateTruth'
  BY RabbitmqAssumption DEF IInv, Places, GateShut, GateTruth, Runs, Running, connectionLetGo,
     closeConnection, attemptReconnection, Move, EventsOf
<1>5. NothingLeftBehind'
  <2>1. channel = NoConn /\ channels = {}
    BY RabbitmqAssumption
       DEF IInv, TypeOK, Places, GateShut, Running, Runs, ChannelInHand, connectionLetGo
  <2>2. \A e \in coming' : e \in coming /\ e.of = "connection" /\ e.conn # connection
    BY <2>1, ComingAfterClose, RabbitmqAssumption
       DEF IInv, TypeOK, Event, ChannelInHand, connectionLetGo
  <2> QED
    BY <2>1, <2>2 DEF IInv, NothingLeftBehind, connectionLetGo, closeConnection
<1>6. (Places /\ OneReconnection /\ GateShut /\ ClosedAfterInit /\ NothingYet /\
       InitOvertaken /\ InitMaySucceed /\ RepairInHand)'
  BY RabbitmqAssumption DEF IInv, TypeOK, Places, OneReconnection, GateShut, ClosedAfterInit,
     NothingYet, InitOvertaken, InitMaySucceed, RepairInHand, Runs, Running, connectionLetGo,
     closeConnection, attemptReconnection, Move, EventsOf
<1> QED BY <1>1, <1>2, <1>3, <1>4, <1>5, <1>6 DEF IInv

(* The timer.                                                                *)
LEMMA BackoffPreserves ==
  ASSUME IInv, NEW r \in Runs, backoffEnds(r)
  PROVE  IInv'
<1>1. TypeOK'
  BY RabbitmqAssumption DEF IInv, TypeOK, Runs, Place, Event, clientVars, brokerVars,
     backoffEnds, Move
<1>2. NothingYet'
  BY RabbitmqAssumption DEF IInv, Places, NothingYet, Runs, Running, clientVars, brokerVars,
     backoffEnds, Move
<1>3. (Places /\ OneReconnection /\ GateShut /\ ClosedAfterInit /\ ChannelInHand /\
       InitOvertaken /\ InitMaySucceed /\ RepairInHand /\ BetweenAttempts /\ GateTruth /\
       NothingLeftBehind)'
  BY RabbitmqAssumption DEF IInv, Places, OneReconnection, GateShut, ClosedAfterInit,
     ChannelInHand, InitOvertaken, InitMaySucceed, RepairInHand, BetweenAttempts, GateTruth,
     NothingLeftBehind, Runs, Running, clientVars, brokerVars, backoffEnds, Move
<1> QED BY <1>1, <1>2, <1>3 DEF IInv

(* A new connection.  The one it replaces is over, or refused a channel.     *)
LEMMA ConnectPreserves ==
  ASSUME IInv, NEW r \in Runs, NEW c \in Conns, connectResolves(r, c)
  PROVE  IInv'
<1>1. TypeOK'
  BY RabbitmqAssumption DEF IInv, TypeOK, Runs, Place, Event, connectResolves, Unused, Move
<1>2. ChannelInHand'
  BY RabbitmqAssumption DEF IInv, GateShut, ChannelInHand, NothingYet, Runs, Running,
     connectResolves, Unused, Move
<1>3. NothingYet'
  BY RabbitmqAssumption DEF IInv, TypeOK, NothingYet, Runs, Running, connectResolves, Unused,
     Move
<1>4. InitOvertaken'
  BY RabbitmqAssumption DEF IInv, NothingYet, InitOvertaken, Runs, Running, connectResolves,
     Unused, Move
<1>5. InitMaySucceed'
  BY RabbitmqAssumption DEF IInv, NothingYet, InitOvertaken, InitMaySucceed, Runs, Running,
     connectResolves, Unused, Move
<1>6. RepairInHand'
  BY RabbitmqAssumption DEF IInv, OneReconnection, NothingYet, RepairInHand, Runs, Running,
     connectResolves, Unused, Move
<1>7. BetweenAttempts'
  BY RabbitmqAssumption DEF IInv, TypeOK, OneReconnection, NothingYet, BetweenAttempts, Runs,
     Running, connectResolves, Unused, Move
<1>8. GateTruth'
  BY RabbitmqAssumption DEF IInv, GateShut, NothingYet, GateTruth, Runs, Running,
     connectResolves, Unused, Move
<1>9. NothingLeftBehind'
  BY RabbitmqAssumption DEF IInv, NothingYet, BetweenAttempts, NothingLeftBehind, Runs, Running,
     connectResolves, Unused, Move
<1>10. (Places /\ OneReconnection /\ GateShut /\ ClosedAfterInit)'
  BY RabbitmqAssumption DEF IInv, Places, OneReconnection, GateShut, ClosedAfterInit, Runs,
     Running, connectResolves, Unused, Move
<1> QED BY <1>1, <1>2, <1>3, <1>4, <1>5, <1>6, <1>7, <1>8, <1>9, <1>10 DEF IInv

(* No connection.                                                            *)
LEMMA RefusedConnectPreserves ==
  ASSUME IInv, NEW r \in Runs, connectRejects(r)
  PROVE  IInv'
<1>1. TypeOK'
  BY AttemptTypes DEF IInv, TypeOK, connectRejects, brokerVars
<1>2. (Places /\ OneReconnection /\ GateShut /\ ClosedAfterInit /\ NothingYet /\
       InitOvertaken /\ InitMaySucceed /\ RepairInHand /\ BetweenAttempts)'
  BY RabbitmqAssumption DEF IInv, TypeOK, Places, OneReconnection, GateShut, ClosedAfterInit,
     NothingYet, InitOvertaken, InitMaySucceed, RepairInHand, BetweenAttempts, Runs, Running,
     brokerVars, connectRejects, attemptReconnection, Move
<1>3. (ChannelInHand /\ GateTruth /\ NothingLeftBehind)'
  BY RabbitmqAssumption DEF IInv, ChannelInHand, GateTruth, NothingLeftBehind, Runs, brokerVars,
     connectRejects, attemptReconnection, Move
<1> QED BY <1>1, <1>2, <1>3 DEF IInv

(* The channel is asked for.                                                 *)
LEMMA CreateChannelPreserves ==
  ASSUME IInv, NEW r \in Runs, createChannel(r)
  PROVE  IInv'
<1>1. TypeOK'
  <2>1. CASE /\ Move(r, "opening") /\ on' = [on EXCEPT ![r] = connection]
             /\ UNCHANGED <<reconnecting, gaveUp, attempts>>
    BY <2>1 DEF IInv, TypeOK, createChannel, Move, Place, brokerVars
  <2>2. CASE attemptReconnection(r) /\ UNCHANGED on
    BY <2>2, AttemptTypes DEF IInv, TypeOK, createChannel, brokerVars
  <2> QED BY <2>1, <2>2 DEF createChannel
<1>2. (Places /\ OneReconnection /\ GateShut /\ ClosedAfterInit /\ NothingYet /\
       InitOvertaken /\ InitMaySucceed /\ RepairInHand /\ BetweenAttempts)'
  BY RabbitmqAssumption DEF IInv, TypeOK, Places, OneReconnection, GateShut, ClosedAfterInit,
     NothingYet, InitOvertaken, InitMaySucceed, RepairInHand, BetweenAttempts, Runs, Running,
     brokerVars, createChannel, attemptReconnection, Move
<1>3. (ChannelInHand /\ GateTruth /\ NothingLeftBehind)'
  BY RabbitmqAssumption DEF IInv, ChannelInHand, GateTruth, NothingLeftBehind, Runs, brokerVars,
     createChannel, attemptReconnection, Move
<1> QED BY <1>1, <1>2, <1>3 DEF IInv

(* The channel opens.  It belongs to the connection in hand, and nobody else *)
(* is at work.                                                               *)
LEMMA ChannelOpensPreserves ==
  ASSUME IInv, NEW r \in Runs, channelOpens(r)
  PROVE  IInv'
<1>1. TypeOK'
  <2>1. at' \in [Runs -> Place]
    BY DEF IInv, TypeOK, channelOpens, Move, Place
  <2>2. attempts' \in [Runs -> 0 .. MaxAttempts]
    BY RabbitmqAssumption DEF IInv, TypeOK, channelOpens
  <2> QED BY <2>1, <2>2 DEF IInv, TypeOK, channelOpens
<1>2. OneReconnection'
  BY RabbitmqAssumption DEF IInv, TypeOK, OneReconnection, InitMaySucceed, Runs, Running,
     channelOpens, Move
<1>3. GateShut'
  BY RabbitmqAssumption DEF IInv, TypeOK, OneReconnection, GateShut, InitMaySucceed, Runs,
     Running, channelOpens, Move
<1>4. ChannelInHand'
  <2>1. channel = NoConn /\ on[r] = connection
    BY RabbitmqAssumption
       DEF IInv, Runs, Running, GateShut, InitMaySucceed, RepairInHand, channelOpens
  <2>2. \A e \in coming : e.of # "channel"
    BY <2>1, RabbitmqAssumption DEF IInv, TypeOK, Event, ChannelInHand
  <2> QED
    BY <2>1, <2>2, RabbitmqAssumption DEF IInv, TypeOK, ChannelInHand, channelOpens
<1>5. GateTruth'
  BY RabbitmqAssumption DEF IInv, TypeOK, InitMaySucceed, RepairInHand, GateTruth, Runs,
     Running, channelOpens, Move
<1>6. NothingLeftBehind'
  BY RabbitmqAssumption DEF IInv, GateShut, ClosedAfterInit, ChannelInHand, NothingLeftBehind,
     Runs, Running, channelOpens, Move
<1>7. (InitMaySucceed /\ RepairInHand)'
  BY RabbitmqAssumption DEF IInv, TypeOK, InitMaySucceed, RepairInHand, Runs, Running,
     channelOpens, Move
<1>8. (Places /\ ClosedAfterInit /\ NothingYet /\ InitOvertaken /\ BetweenAttempts)'
  BY RabbitmqAssumption DEF IInv, Places, ClosedAfterInit, NothingYet, InitOvertaken,
     BetweenAttempts, Runs, Running, channelOpens, Move
<1> QED BY <1>1, <1>2, <1>3, <1>4, <1>5, <1>6, <1>7, <1>8 DEF IInv

(* No channel.                                                               *)
LEMMA RefusedChannelPreserves ==
  ASSUME IInv, NEW r \in Runs, channelRejects(r)
  PROVE  IInv'
<1>1. TypeOK'
  BY AttemptTypes DEF IInv, TypeOK, channelRejects
<1>2. BetweenAttempts'
  BY RabbitmqAssumption DEF IInv, TypeOK, RepairInHand, BetweenAttempts, Runs, channelRejects,
     attemptReconnection, Move
<1>3. (Places /\ OneReconnection /\ GateShut /\ ClosedAfterInit /\ NothingYet /\
       InitOvertaken /\ InitMaySucceed /\ RepairInHand)'
  BY RabbitmqAssumption DEF IInv, TypeOK, Places, OneReconnection, GateShut, ClosedAfterInit,
     NothingYet, InitOvertaken, InitMaySucceed, RepairInHand, Runs, Running, channelRejects,
     attemptReconnection, Move
<1>4. (ChannelInHand /\ GateTruth /\ NothingLeftBehind)'
  BY RabbitmqAssumption DEF IInv, ChannelInHand, GateTruth, NothingLeftBehind, Runs,
     channelRejects, attemptReconnection, Move
<1> QED BY <1>1, <1>2, <1>3, <1>4 DEF IInv

(* close() lets go of the channel.                                           *)
LEMMA ClosePreserves ==
  ASSUME IInv, close
  PROVE  IInv'
<1>1. TypeOK'
  BY RabbitmqAssumption DEF IInv, TypeOK, Runs, Place, Event, runVars, close, closeChannel,
     EventsOf
<1>2. ChannelInHand'
  <2>1. coming \subseteq Event
    BY DEF IInv, TypeOK
  <2> QED
    BY <2>1, EventsOfMembers DEF IInv, ChannelInHand, close, closeChannel, runVars
<1>3. NothingLeftBehind'
  BY RabbitmqAssumption DEF IInv, ClosedAfterInit, ChannelInHand, NothingLeftBehind, Runs,
     runVars, close, closeChannel, EventsOf
<1>4. (Places /\ OneReconnection /\ GateShut /\ ClosedAfterInit /\ NothingYet /\
       InitOvertaken /\ InitMaySucceed /\ RepairInHand /\ BetweenAttempts /\ GateTruth)'
  BY RabbitmqAssumption DEF IInv, Places, OneReconnection, GateShut, ClosedAfterInit,
     NothingYet, InitOvertaken, InitMaySucceed, RepairInHand, BetweenAttempts, GateTruth, Runs,
     Running, runVars, close, closeChannel, EventsOf
<1> QED BY <1>1, <1>2, <1>3, <1>4 DEF IInv

(* close() lets go of the connection.                                        *)
LEMMA CloseEndsPreserves ==
  ASSUME IInv, closeEnds
  PROVE  IInv'
<1>1. TypeOK'
  BY RabbitmqAssumption DEF IInv, TypeOK, Runs, Place, Event, runVars, closeEnds,
     closeConnection, EventsOf
<1>2. ChannelInHand'
  BY ComingAfterClose, RabbitmqAssumption
     DEF IInv, TypeOK, ChannelInHand, ClosedAfterInit, closeEnds, closeConnection
<1>3. BetweenAttempts'
  BY ComingAfterClose, RabbitmqAssumption
     DEF IInv, TypeOK, Event, BetweenAttempts, closeEnds, closeConnection, runVars
<1>4. GateTruth'
  BY RabbitmqAssumption DEF IInv, ClosedAfterInit, GateTruth, Runs, runVars, closeEnds,
     closeConnection, EventsOf
<1>5. NothingLeftBehind'
  BY ComingAfterClose, RabbitmqAssumption
     DEF IInv, TypeOK, Event, ChannelInHand, NothingLeftBehind, closeEnds, closeConnection, runVars
<1>6. (NothingYet /\ InitMaySucceed)'
  BY RabbitmqAssumption DEF IInv, TypeOK, NothingYet, InitMaySucceed, Runs, Running, runVars,
     closeEnds, closeConnection, EventsOf
<1>7. (Places /\ OneReconnection /\ GateShut /\ ClosedAfterInit /\ InitOvertaken /\
       RepairInHand)'
  BY RabbitmqAssumption DEF IInv, Places, OneReconnection, GateShut, ClosedAfterInit,
     InitOvertaken, RepairInHand, Runs, Running, runVars, closeEnds, closeConnection, EventsOf
<1> QED BY <1>1, <1>2, <1>3, <1>4, <1>5, <1>6, <1>7 DEF IInv

(* A connection ends, and says so.                                           *)
LEMMA DeathPreserves ==
  ASSUME IInv, NEW c \in Conns, connectionDies(c)
  PROVE  IInv'
<1>1. TypeOK'
  BY RabbitmqAssumption DEF IInv, TypeOK, Runs, Place, Event, clientVars, runVars,
     connectionDies
<1>2. GateTruth'
  <2>1. CASE channel = c /\ c \in channels
    <3>1. [of |-> "channel", conn |-> c, kind |-> "close"] \in coming'
      BY <2>1 DEF connectionDies
    <3> QED BY <2>1, <3>1 DEF IInv, GateTruth, connectionDies, clientVars
  <2>2. CASE ~(channel = c /\ c \in channels)
    BY <2>2 DEF IInv, GateTruth, connectionDies, clientVars
  <2> QED BY <2>1, <2>2
<1>3. (Places /\ OneReconnection /\ GateShut /\ ClosedAfterInit /\ ChannelInHand /\
       NothingYet /\ InitOvertaken /\ InitMaySucceed /\ RepairInHand /\
       BetweenAttempts /\ NothingLeftBehind)'
  BY RabbitmqAssumption DEF IInv, Places, OneReconnection, GateShut, ClosedAfterInit,
     ChannelInHand, NothingYet, InitOvertaken, InitMaySucceed, RepairInHand, BetweenAttempts,
     NothingLeftBehind, Runs, Running, clientVars, runVars, connectionDies
<1> QED BY <1>1, <1>2, <1>3 DEF IInv

(* A channel ends, and says so.                                              *)
LEMMA ChannelDeathPreserves ==
  ASSUME IInv, NEW c \in Conns, channelDies(c)
  PROVE  IInv'
<1>1. TypeOK'
  BY RabbitmqAssumption DEF IInv, TypeOK, Runs, Place, Event, clientVars, runVars, channelDies,
     EventsOf
<1>2. InitMaySucceed'
  BY RabbitmqAssumption DEF IInv, ChannelInHand, InitMaySucceed, Runs, Running, clientVars,
     runVars, channelDies, EventsOf
<1>3. GateTruth'
  <2>1. [of |-> "channel", conn |-> c, kind |-> "close"] \in coming'
    BY DEF channelDies, EventsOf
  <2> QED BY <2>1 DEF IInv, GateTruth, channelDies, clientVars
<1>4. (NothingYet /\ BetweenAttempts /\ NothingLeftBehind)'
  BY RabbitmqAssumption DEF IInv, TypeOK, NothingYet, BetweenAttempts, NothingLeftBehind, Runs,
     Running, clientVars, runVars, channelDies, EventsOf
<1>5. (Places /\ OneReconnection /\ GateShut /\ ClosedAfterInit /\ ChannelInHand /\
       InitOvertaken /\ RepairInHand)'
  BY RabbitmqAssumption DEF IInv, Places, OneReconnection, GateShut, ClosedAfterInit,
     ChannelInHand, InitOvertaken, RepairInHand, Runs, Running, clientVars, runVars,
     channelDies, EventsOf
<1> QED BY <1>1, <1>2, <1>3, <1>4, <1>5 DEF IInv

-----------------------------------------------------------------------------
LEMMA InitImpliesIInv ==
  ASSUME Init
  PROVE  IInv
<1>1. TypeOK
  <2>1. 0 \in 0 .. MaxAttempts
    BY RabbitmqAssumption
  <2> QED BY <2>1 DEF Init, TypeOK, Place
<1>2. Places /\ OneReconnection /\ GateShut /\ NothingYet
  BY RabbitmqAssumption
     DEF Init, Places, OneReconnection, GateShut, NothingYet, Running, Runs
<1>3. ClosedAfterInit /\ ChannelInHand /\ InitOvertaken /\ InitMaySucceed
  BY DEF Init, ClosedAfterInit, ChannelInHand, InitOvertaken, InitMaySucceed, Runs
<1>4. RepairInHand /\ BetweenAttempts /\ GateTruth /\ NothingLeftBehind
  BY DEF Init, RepairInHand, BetweenAttempts, GateTruth, NothingLeftBehind, Runs
<1> QED BY <1>1, <1>2, <1>3, <1>4 DEF IInv

(* Every step of the client, of the broker and of the network.               *)
LEMMA StepPreserves ==
  ASSUME IInv, [Next]_vars
  PROVE  IInv'
<1>1. CASE Next
  <2>1. CASE initBegins
    BY <2>1, InitBeginsPreserves
  <2>2. CASE EventNext
    BY <2>2, EventPreserves, IgnoredEventPreserves DEF EventNext
  <2>3. ASSUME NEW r \in Runs, RunNext(r) PROVE IInv'
    BY <2>3, LettingGoPreserves, BackoffPreserves, ConnectPreserves, RefusedConnectPreserves,
       CreateChannelPreserves, ChannelOpensPreserves, RefusedChannelPreserves DEF RunNext
  <2>4. CASE close \/ closeEnds
    BY <2>4, ClosePreserves, CloseEndsPreserves
  <2>5. ASSUME NEW c \in Conns, connectionDies(c) \/ channelDies(c) PROVE IInv'
    BY <2>5, DeathPreserves, ChannelDeathPreserves
  <2> QED BY <1>1, <2>1, <2>2, <2>3, <2>4, <2>5 DEF Next
<1>2. CASE UNCHANGED vars
  BY <1>2 DEF vars, clientVars, runVars, brokerVars, IInv, TypeOK, Places, OneReconnection, GateShut,
     ClosedAfterInit, ChannelInHand, NothingYet, InitOvertaken, InitMaySucceed, RepairInHand,
     BetweenAttempts, GateTruth, NothingLeftBehind, Running
<1> QED BY <1>1, <1>2

THEOREM Inductive == Init /\ [][Next]_vars => []IInv
BY InitImpliesIInv, StepPreserves, PTL

-----------------------------------------------------------------------------
(* That the client is a ReconnectingClient to its users needs a little more  *)
(* of the invariant.                                                         *)

(* The attempts of a reconnection are counted from its first to its last.    *)
Counted ==
  \A r \in Repairs :
    /\ at[r] \in {"idle", "closing"} => attempts[r] = 0
    /\ at[r] \in {"backoff", "connecting", "connected", "opening"} => attempts[r] > 0

(* A client that has started is ready or has done something about it, and    *)
(* one that has given up before it started does not start any more.          *)
Attentive ==
  /\ at[init] = "done" => ready \/ reconnecting \/ gaveUp
  /\ gaveUp => ~reconnecting /\ ~ready /\ at[init] \notin {"idle", "connecting"}
  /\ \/ at[init] = "connected" /\ connection \in open
     \/ at[init] = "opening" /\ on[init] \in open
     => ~gaveUp

UserIInv == IInv /\ Counted /\ Attentive

(* What the loop of attemptReconnection() does, of a reconnection.           *)
LEMMA AttemptIs ==
  ASSUME UserIInv, NEW r \in Repairs, attemptReconnection(r)
  PROVE  \/ /\ at' = [at EXCEPT ![r] = "backoff"] /\ attempts[r] < MaxAttempts
            /\ attempts' = [attempts EXCEPT ![r] = @ + 1]
            /\ UNCHANGED <<reconnecting, gaveUp>>
         \/ /\ at' = [at EXCEPT ![r] = "idle"] /\ attempts[r] = MaxAttempts
            /\ attempts' = [attempts EXCEPT ![r] = 0]
            /\ ~reconnecting' /\ gaveUp'
<1>1. r # init /\ r \in Runs
  BY RabbitmqAssumption DEF Runs
<1>2. attempts[r] \in 0 .. MaxAttempts
  BY <1>1 DEF UserIInv, IInv, TypeOK
<1>3. attempts[r] >= MaxAttempts => attempts[r] = MaxAttempts
  BY <1>2, RabbitmqAssumption
<1> QED BY <1>1, <1>3 DEF attemptReconnection, Move

LEMMA InitAttemptIs ==
  ASSUME attemptReconnection(init)
  PROVE  /\ at' = [at EXCEPT ![init] = "failed"]
         /\ UNCHANGED <<attempts, reconnecting, gaveUp>>
BY DEF attemptReconnection, Move

(* Of a run that ends unsuccessfully, the rest of the invariant.             *)
LEMMA AttemptKeeps ==
  ASSUME UserIInv, NEW r \in Runs, attemptReconnection(r),
         at[r] \in {"closing", "connecting", "connected", "opening"},
         at[init] = "opening" => on'[init] \in {on[init], NoConn},
         connection' \in {connection, NoConn}, open' \subseteq open, UNCHANGED ready
  PROVE  Counted' /\ Attentive'
<1>1. NoConn \notin open'
  BY RabbitmqAssumption DEF UserIInv, IInv, TypeOK
<1>2. CASE r = init
  <2>1. at' = [at EXCEPT ![init] = "failed"] /\ UNCHANGED <<attempts, reconnecting, gaveUp>>
    BY <1>2, InitAttemptIs
  <2>2. at \in [Runs -> Place] /\ init \notin Repairs /\ init \in Runs /\ Repairs \subseteq Runs
    BY RabbitmqAssumption DEF UserIInv, IInv, TypeOK, Runs
  <2>3. Counted'
    BY <2>1, <2>2 DEF UserIInv, Counted
  <2>4. Attentive'
    BY <2>1, <2>2 DEF UserIInv, Attentive
  <2> QED BY <2>3, <2>4
<1>3. CASE r \in Repairs
  <2>1. at \in [Runs -> Place] /\ init \notin Repairs /\ init \in Runs /\ Repairs \subseteq Runs
    BY RabbitmqAssumption DEF UserIInv, IInv, TypeOK, Runs
  <2>2. attempts \in [Runs -> 0 .. MaxAttempts] /\ attempts[r] \in Nat
    BY <2>1, RabbitmqAssumption DEF UserIInv, IInv, TypeOK
  <2>3. reconnecting /\ Running = {r} /\ ~ready
    BY <1>3 DEF UserIInv, IInv, OneReconnection, GateShut, Running
  <2>4. at[init] \notin {"idle", "connecting"}
    BY <1>3, <2>3 DEF UserIInv, IInv, NothingYet
  <2>5. /\ ~(at[init] = "connected" /\ connection \in open)
        /\ ~(at[init] = "opening" /\ on[init] \in open)
    BY <2>3 DEF UserIInv, IInv, InitMaySucceed
  <2>6. \/ at' = [at EXCEPT ![r] = "backoff"] /\ attempts' = [attempts EXCEPT ![r] = @ + 1]
           /\ UNCHANGED <<reconnecting, gaveUp>>
        \/ at' = [at EXCEPT ![r] = "idle"] /\ attempts' = [attempts EXCEPT ![r] = 0]
           /\ ~reconnecting' /\ gaveUp'
    BY <1>3, AttemptIs
  <2>7. Counted'
    BY <1>3, <2>1, <2>2, <2>6 DEF UserIInv, Counted
  <2>8. at'[init] = at[init]
    BY <1>3, <2>1, <2>6
  <2>9. /\ ~(at'[init] = "connected" /\ connection' \in open')
        /\ ~(at'[init] = "opening" /\ on'[init] \in open')
    BY <1>1, <2>5, <2>8
  <2>10. ~ready' /\ ~(gaveUp' /\ reconnecting') /\ (reconnecting' \/ gaveUp')
    <3>1. ~ready'
      BY <2>3
    <3>2. reconnecting = TRUE /\ gaveUp = FALSE
      BY <2>3 DEF UserIInv, Attentive, IInv, TypeOK
    <3>3. CASE UNCHANGED <<reconnecting, gaveUp>>
      BY <3>1, <3>2, <3>3
    <3>4. CASE ~reconnecting' /\ gaveUp'
      BY <3>1, <3>4
    <3> QED BY <2>6, <3>3, <3>4
  <2>11. at'[init] \notin {"idle", "connecting"}
    BY <2>4, <2>8
  <2>12. Attentive'
    BY <2>9, <2>10, <2>11 DEF Attentive
  <2> QED BY <2>7, <2>12
<1> QED BY <1>2, <1>3 DEF Runs

LEMMA UserIInvStep ==
  ASSUME UserIInv, [Next]_vars
  PROVE  UserIInv'
<1> USE DEF UserIInv
<1>1. IInv'
  BY StepPreserves
<1>2. at \in [Runs -> Place] /\ init \notin Repairs /\ init \in Runs /\ Repairs \subseteq Runs
  BY RabbitmqAssumption DEF IInv, TypeOK, Runs
<1>3. attempts \in [Runs -> 0 .. MaxAttempts] /\ NoConn \notin open
  BY RabbitmqAssumption DEF IInv, TypeOK
<1>4. CASE initBegins
  BY <1>1, <1>2, <1>4 DEF initBegins, Move, clientVars, brokerVars, Counted, Attentive
<1>5. CASE EventNext
  <2>1. ASSUME NEW e, eventIgnored(e) PROVE Counted' /\ Attentive'
    BY <2>1 DEF eventIgnored, clientVars, runVars, Counted, Attentive
  <2>2. ASSUME NEW e, NEW r \in Repairs, closeAllAndScheduleReconnection(e, r)
        PROVE  Counted' /\ Attentive'
    BY <1>2, <2>2 DEF closeAllAndScheduleReconnection, Move, Counted, Attentive
  <2> QED BY <1>1, <1>5, <2>1, <2>2 DEF EventNext
<1>6. ASSUME NEW r \in Runs, RunNext(r)
      PROVE  Counted' /\ Attentive'
  <2>1. r \in Repairs /\ at[r] # "idle" => reconnecting
    BY DEF IInv, OneReconnection, Running
  <2>2. CASE connectionLetGo(r)
    BY <2>2, AttemptKeeps DEF connectionLetGo, closeConnection
  <2>3. CASE backoffEnds(r)
    BY <1>2, <2>3 DEF backoffEnds, Move, clientVars, brokerVars, Counted, Attentive, IInv, Places
  <2>4. ASSUME NEW c \in Conns, connectResolves(r, c)
        PROVE  Counted' /\ Attentive'
    <3>1. Counted'
      BY <1>2, <2>4 DEF connectResolves, Move, Counted
    <3>2. ~gaveUp
      BY <2>1, <2>4 DEF connectResolves, Runs, Attentive
    <3>3. at[init] = "done" <=> at'[init] = "done"
      BY <1>2, <2>4 DEF connectResolves, Move
    <3> QED BY <2>4, <3>1, <3>2, <3>3 DEF connectResolves, Attentive
  <2>5. CASE connectRejects(r)
    BY <2>5, AttemptKeeps DEF connectRejects, brokerVars
  <2>6. CASE createChannel(r)
    <3>1. CASE attemptReconnection(r) /\ UNCHANGED on
      BY <2>6, <3>1, AttemptKeeps DEF createChannel, brokerVars
    <3>2. CASE on' = [on EXCEPT ![r] = connection] /\ Move(r, "opening")
               /\ UNCHANGED <<reconnecting, gaveUp, attempts>>
      <4>1. Counted'
        BY <1>2, <2>6, <3>2 DEF createChannel, Move, Counted
      <4>2. CASE r \in Repairs
        BY <1>2, <2>1, <2>6, <3>2, <4>1, <4>2 DEF createChannel, Move, brokerVars, Attentive
      <4>3. CASE r = init
        <5>1. on'[init] = connection
          BY <1>2, <3>2, <4>3 DEF IInv, TypeOK
        <5> QED BY <1>2, <2>6, <3>2, <4>1, <4>3, <5>1 DEF createChannel, Move, brokerVars, Attentive
      <4> QED BY <4>2, <4>3 DEF Runs
    <3> QED BY <2>6, <3>1, <3>2 DEF createChannel
  <2>7. CASE channelOpens(r)
    <3>1. ~gaveUp
      BY <2>1, <2>7 DEF channelOpens, Runs, Attentive
    <3>2. Counted'
      BY <1>2, <1>3, <2>7 DEF channelOpens, Move, Counted
    <3> QED BY <2>7, <3>1, <3>2 DEF channelOpens, Attentive
  <2>8. CASE channelRejects(r)
    <3>1. on'[init] \in {on[init], NoConn}
      BY <1>2, <2>8 DEF channelRejects, IInv, TypeOK
    <3> QED BY <2>8, <3>1, AttemptKeeps DEF channelRejects
  <2> QED BY <1>6, <2>2, <2>3, <2>4, <2>5, <2>6, <2>7, <2>8 DEF RunNext
<1>7. CASE close \/ closeEnds
  BY <1>1, <1>3, <1>7 DEF close, closeEnds, closeChannel, closeConnection, runVars, Counted, Attentive
<1>8. ASSUME NEW c \in Conns, connectionDies(c) \/ channelDies(c)
      PROVE  Counted' /\ Attentive'
  BY <1>8 DEF connectionDies, channelDies, clientVars, runVars, Counted, Attentive
<1>9. CASE UNCHANGED vars
  BY <1>1, <1>9 DEF vars, clientVars, runVars, brokerVars, Counted, Attentive
<1> QED BY <1>1, <1>4, <1>5, <1>6, <1>7, <1>8, <1>9 DEF Next

-----------------------------------------------------------------------------
(* What users see.                                                           *)
LEMMA AttemptsAre ==
  /\ Running = {} => Attempts = 0
  /\ \A r \in Repairs : Running = {r} => Attempts = attempts[r]
  /\ Running' = {} => Attempts' = 0
  /\ \A r \in Repairs : Running' = {r} => Attempts' = attempts'[r]
<1>1. \A r \in Repairs : (CHOOSE q \in {r} : TRUE) = r /\ {r} # {}
  OBVIOUS
<1> QED BY <1>1 DEF Attempts

(* A step after which the client is where it was.                            *)
Looks(r) == at'[r] = at[r] \/ (r \in Repairs /\ at[r] # "idle" /\ at'[r] # "idle")

LEMMA UnseenStep ==
  ASSUME UserIInv, UNCHANGED <<ready, reconnecting, gaveUp, closed, attempts>>,
         \A r \in Runs : Looks(r), at'[init] = "failed" <=> at[init] = "failed",
         Usable' = Usable
  PROVE  UNCHANGED <<Phase, Usable, Attempts, closed>>
<1>1. Running' = Running
  BY DEF Looks, Running, Runs
<1>2. UNCHANGED Attempts
  BY <1>1 DEF Attempts
<1>3. UNCHANGED Phase
  BY DEF Phase
<1> QED BY <1>2, <1>3

(* An attempt of a reconnection has failed: another one, or the end.         *)
LEMMA AttemptSeen ==
  ASSUME UserIInv, UserIInv', NEW r \in Repairs, attemptReconnection(r),
         at[r] \in {"closing", "connecting", "connected", "opening"},
         channels' \subseteq channels, UNCHANGED <<ready, closed, channel>>
  PROVE  User!Tries \/ User!GivesUp
<1>1. r \in Runs /\ r # init /\ at \in [Runs -> Place] /\ attempts \in [Runs -> 0 .. MaxAttempts]
  BY RabbitmqAssumption DEF UserIInv, IInv, TypeOK, Runs
<1>2. Running = {r} /\ reconnecting /\ ~ready /\ ~gaveUp /\ channel = NoConn
  BY DEF UserIInv, IInv, OneReconnection, GateShut, Running, Attentive
<1>3. ~Usable /\ Usable' = Usable
  BY <1>2, RabbitmqAssumption DEF UserIInv, IInv, TypeOK, Usable
<1>4. Attempts = attempts[r] /\ Phase = "mending"
  BY <1>2, AttemptsAre DEF Phase
<1>5. CASE /\ at' = [at EXCEPT ![r] = "backoff"] /\ attempts[r] < MaxAttempts
           /\ attempts' = [attempts EXCEPT ![r] = @ + 1]
           /\ UNCHANGED <<reconnecting, gaveUp>>
  <2>1. Running' = {r} /\ attempts'[r] = attempts[r] + 1
    BY <1>1, <1>2, <1>5 DEF Running, Runs
  <2>2. Attempts' = attempts[r] + 1
    BY <2>1, AttemptsAre
  <2>3. Phase' = "mending"
    BY <1>2, <1>5 DEF Phase
  <2> QED BY <1>3, <1>4, <1>5, <2>2, <2>3 DEF User!Tries
<1>6. CASE /\ at' = [at EXCEPT ![r] = "idle"] /\ attempts[r] = MaxAttempts
           /\ attempts' = [attempts EXCEPT ![r] = 0]
           /\ ~reconnecting' /\ gaveUp'
  <2>1. Running' = {}
    BY <1>1, <1>2, <1>6 DEF Running, Runs
  <2>2. Attempts' = 0
    BY <2>1, AttemptsAre
  <2>3. Phase' = "gave up"
    BY <1>2, <1>6 DEF Phase
  <2> QED BY <1>3, <1>4, <1>6, <2>2, <2>3 DEF User!GivesUp
<1> QED BY <1>5, <1>6, AttemptIs

(* init() has failed; a reconnection may have got the better of it.          *)
LEMMA FailedStartSeen ==
  ASSUME UserIInv, attemptReconnection(init), at[init] \notin {"done", "failed"},
         UNCHANGED <<ready, closed, channel, channels>>
  PROVE  User!StartFails \/ UNCHANGED <<Phase, Usable, Attempts, closed>>
<1>1. at' = [at EXCEPT ![init] = "failed"] /\ UNCHANGED <<attempts, reconnecting, gaveUp>>
  BY InitAttemptIs
<1>2. init \in Runs /\ init \notin Repairs /\ Repairs \subseteq Runs /\ at \in [Runs -> Place]
  BY RabbitmqAssumption DEF UserIInv, IInv, TypeOK, Runs
<1>3. Running' = Running
  BY <1>1, <1>2 DEF Running
<1>4. UNCHANGED <<Attempts, Usable>>
  BY <1>1, <1>3 DEF Attempts, Usable
<1>5. Phase' = Phase \/ (Phase = "starting" /\ Phase' = "failed")
  BY <1>1, <1>2 DEF Phase
<1> QED BY <1>4, <1>5 DEF User!StartFails

LEMMA StepSeen ==
  ASSUME UserIInv, UserIInv', [Next]_vars
  PROVE  [User!Next]_<<Phase, Usable, Attempts, closed>>
<1> DEFINE Unseen == UNCHANGED <<Phase, Usable, Attempts, closed>>
<1> SUFFICES User!Next \/ Unseen
  OBVIOUS
<1>1. at \in [Runs -> Place] /\ init \notin Repairs /\ init \in Runs /\ Repairs \subseteq Runs
  BY RabbitmqAssumption DEF UserIInv, IInv, TypeOK, Runs
<1>2. NoConn \notin channels /\ NoConn \notin channels'
  BY RabbitmqAssumption DEF UserIInv, IInv, TypeOK
<1>3. CASE initBegins
  <2>1. Usable' = Usable /\ \A r \in Runs : r # init => at'[r] = at[r]
    BY <1>1, <1>3 DEF initBegins, Move, Usable, clientVars, brokerVars
  <2>2. Running' = Running
    BY <1>1, <2>1 DEF Running
  <2>3. Attempts' = Attempts
    BY <1>3, <2>2 DEF initBegins, Attempts
  <2>4. Phase' = Phase /\ closed' = closed
    BY <1>1, <1>3 DEF initBegins, Move, Phase, clientVars
  <2> QED BY <2>1, <2>3, <2>4
<1>4. ASSUME NEW e, eventIgnored(e)
      PROVE  Unseen
  BY <1>4, UnseenStep DEF eventIgnored, clientVars, runVars, Looks, Usable
<1>5. ASSUME NEW e, NEW r \in Repairs, closeAllAndScheduleReconnection(e, r)
      PROVE  User!Mends
  <2>1. Phase # "mending" /\ Phase' = "mending"
    BY <1>5 DEF closeAllAndScheduleReconnection, Phase
  <2>2. ~Usable'
    BY <1>2, <1>5 DEF closeAllAndScheduleReconnection, Usable
  <2>3. Running = {} /\ Running' = {r}
    BY <1>1, <1>5 DEF closeAllAndScheduleReconnection, Move, UserIInv, IInv, OneReconnection, Running
  <2>4. attempts'[r] = 0
    BY <1>5 DEF closeAllAndScheduleReconnection, UserIInv, Counted
  <2>5. Attempts' = Attempts
    BY <2>3, <2>4, AttemptsAre
  <2> QED BY <1>5, <2>1, <2>2, <2>5 DEF closeAllAndScheduleReconnection, User!Mends
<1>6. ASSUME NEW r \in Runs, RunNext(r)
      PROVE  User!Next \/ Unseen
  <2>1. ASSUME attemptReconnection(r), UNCHANGED <<ready, closed, channel>>,
               at[r] \in {"closing", "connecting", "connected", "opening"},
               channels' \subseteq channels, r = init => UNCHANGED channels
        PROVE  User!Next \/ Unseen
    <3>1. CASE r = init
      <4>1. at[init] \notin {"done", "failed"}
        BY <2>1, <3>1
      <4> QED BY <2>1, <3>1, <4>1, FailedStartSeen DEF User!Next
    <3>2. CASE r \in Repairs
      BY <2>1, <3>2, AttemptSeen DEF User!Next
    <3> QED BY <3>1, <3>2 DEF Runs
  <2>2. CASE connectionLetGo(r)
    <3>1. r # init
      BY <2>2 DEF connectionLetGo, UserIInv, IInv, Places
    <3> QED BY <2>1, <2>2, <3>1 DEF connectionLetGo, closeConnection
  <2>3. CASE backoffEnds(r)
    <3>1. r \in Repairs
      BY <2>3 DEF backoffEnds, UserIInv, IInv, Places, Runs
    <3>2. \A q \in Runs : Looks(q)
      BY <1>1, <2>3, <3>1 DEF backoffEnds, Move, Looks
    <3>3. at'[init] = at[init]
      BY <1>1, <2>3, <3>1 DEF backoffEnds, Move
    <3> QED BY <2>3, <3>2, <3>3, UnseenStep DEF backoffEnds, clientVars, brokerVars, Usable
  <2>4. ASSUME NEW c \in Conns, connectResolves(r, c)
        PROVE  Unseen
    <3>1. Running' = Running
      BY <1>1, <2>4 DEF connectResolves, Move, Running
    <3>2. Attempts' = Attempts /\ Usable' = Usable
      BY <2>4, <3>1 DEF connectResolves, Attempts, Usable
    <3>3. at'[init] = "failed" <=> at[init] = "failed"
      BY <1>1, <2>4 DEF connectResolves, Move
    <3> QED BY <2>4, <3>2, <3>3 DEF connectResolves, Phase
  <2>5. CASE connectRejects(r)
    BY <2>1, <2>5 DEF connectRejects, brokerVars
  <2>6. CASE createChannel(r)
    <3>1. CASE attemptReconnection(r)
      BY <2>1, <2>6, <3>1 DEF createChannel, brokerVars
    <3>2. CASE Move(r, "opening") /\ UNCHANGED <<reconnecting, gaveUp, attempts>>
      <4>1. Running' = Running
        BY <1>1, <2>6, <3>2 DEF createChannel, Move, Running
      <4>2. Attempts' = Attempts /\ Usable' = Usable
        BY <2>6, <3>2, <4>1 DEF createChannel, brokerVars, Attempts, Usable
      <4>3. at'[init] = "failed" <=> at[init] = "failed"
        BY <1>1, <2>6, <3>2 DEF createChannel, Move
      <4> QED BY <2>6, <3>2, <4>2, <4>3 DEF createChannel, Phase
    <3> QED BY <2>6, <3>1, <3>2 DEF createChannel
  <2>7. CASE channelOpens(r)
    <3>1. Usable' /\ Phase' = "ready"
      BY <2>7 DEF channelOpens, Usable, Phase
    <3>2. CASE r = init
      <4>1. ~ready /\ Running = {} /\ ~reconnecting /\ ~gaveUp /\ at[init] = "opening"
        BY <2>7, <3>2 DEF channelOpens, UserIInv, IInv, InitMaySucceed, OneReconnection, Attentive
      <4>2. Running' = {}
        BY <1>1, <2>7, <3>2, <4>1 DEF channelOpens, Move, Running
      <4>3. Attempts' = Attempts /\ Phase = "starting"
        BY <4>1, <4>2, AttemptsAre DEF Phase
      <4> QED BY <2>7, <3>1, <4>3 DEF channelOpens, User!Started, User!Next
    <3>3. CASE r \in Repairs
      <4>1. Running = {r} /\ reconnecting /\ ~ready /\ attempts[r] > 0
        BY <2>7, <3>3 DEF channelOpens, UserIInv, IInv, OneReconnection, GateShut, Running, Counted
      <4>2. Running' = {}
        BY <1>1, <2>7, <3>3, <4>1 DEF channelOpens, Move, Running
      <4>3. Attempts > 0 /\ Attempts' = 0 /\ Phase = "mending"
        BY <3>3, <4>1, <4>2, AttemptsAre DEF Phase
      <4> QED BY <2>7, <3>1, <4>3 DEF channelOpens, User!Mended, User!Next
    <3> QED BY <3>2, <3>3 DEF Runs
  <2>8. CASE channelRejects(r)
    BY <2>1, <2>8 DEF channelRejects
  <2> QED BY <1>6, <2>2, <2>3, <2>4, <2>5, <2>6, <2>7, <2>8 DEF RunNext
<1>7. CASE close
  <2>1. Phase \in {"ready", "mending", "gave up"}
    BY <1>7 DEF close, UserIInv, Attentive, Phase
  <2>2. ~closed
    BY <1>7 DEF close, UserIInv, IInv, ClosedAfterInit
  <2>3. Usable' = FALSE
    BY <1>2, <1>7 DEF close, closeChannel, Usable
  <2>4. UNCHANGED <<ready, reconnecting, gaveUp, at, attempts>>
    BY <1>7 DEF close, runVars
  <2>5. Phase' = Phase /\ Attempts' = Attempts
    BY <2>4 DEF Phase, Attempts, Running
  <2>6. User!Closes
    BY <1>7, <2>1, <2>2, <2>3, <2>5 DEF close, User!Closes
  <2> QED BY <2>6 DEF User!Next
<1>8. CASE closeEnds \/ \E c \in Conns : connectionDies(c) \/ channelDies(c)
  <2>1. UNCHANGED <<ready, reconnecting, gaveUp, closed, runVars, channel>> /\ channels' \subseteq channels
    BY <1>8 DEF closeEnds, closeConnection, connectionDies, channelDies, clientVars, runVars
  <2>2. Phase' = Phase /\ Attempts' = Attempts
    BY <2>1 DEF runVars, Phase, Attempts, Running
  <2>3. Usable' = Usable \/ (Usable /\ ~Usable')
    BY <2>1 DEF Usable
  <2> QED BY <2>1, <2>2, <2>3 DEF User!Breaks, User!Next
<1>9. CASE UNCHANGED vars
  BY <1>9 DEF vars, clientVars, runVars, brokerVars, Phase, Usable, Attempts, Running
<1> QED BY <1>3, <1>4, <1>5, <1>6, <1>7, <1>8, <1>9 DEF Next, EventNext, User!Next

LEMMA InitSeen ==
  ASSUME Init
  PROVE  UserIInv /\ User!Init
<1>1. IInv
  BY InitImpliesIInv
<1>2. Counted /\ Attentive
  BY RabbitmqAssumption DEF Init, Counted, Attentive, Runs
<1>3. Running = {}
  BY DEF Init, Running, Runs
<1>4. Phase = "starting" /\ Attempts = 0 /\ ~Usable /\ ~closed
  BY <1>3, AttemptsAre DEF Init, Phase, Usable, Runs
<1> QED BY <1>1, <1>2, <1>4 DEF UserIInv, User!Init, Usable

(* The client as amqplib drives it implements what its users rely on: see    *)
(* ImplementsClient.                                                         *)
THEOREM ConnectionImplementsClient == Init /\ [][Next]_vars => ImplementsClient
BY InitSeen, UserIInvStep, StepSeen, PTL DEF ImplementsClient, User!Spec, User!reconnectingVars
=============================================================================
