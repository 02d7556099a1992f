------------------------- MODULE RabbitmqConnection -------------------------
(* The connection of a RabbitmqClient (src/src/rabbitmq/RabbitmqClient.ts):  *)
(* init(), the reconnection that an error or close event starts, and         *)
(* close().  amqplib and the broker are external.                            *)
(*                                                                           *)
(* createChannel() is asked once of every connection, so a channel is named  *)
(* by its connection.  An open connection or channel always has the client's *)
(* listeners, and removing them drops the events still to come: events are   *)
(* kept and the listeners are not.                                           *)
(*                                                                           *)
(* A step is what runs between two awaits.  Events and answers of amqplib    *)
(* come in any order; a timer of a second overtakes neither a reaction that  *)
(* is already due nor an event of what has already ended.                    *)
EXTENDS Naturals

CONSTANTS
  Conns,        \* bound: the connections that may exist or be heard of at once
  Repairs,      \* bound: the runs of closeAllAndScheduleReconnection() at once
  NoConn,
  init,         \* the run of init(), beside the Repairs
  MaxAttempts   \* clientConfig.maxConnectionAttempts

ASSUME RabbitmqAssumption ==
  /\ NoConn \notin Conns /\ init \notin Repairs
  /\ MaxAttempts \in Nat

VARIABLES
  connection,   \* this.connection
  channel,      \* this.channel
  closed,       \* this.closed
  reconnecting, \* this.reconnecting
  ready,        \* the ready gate lets publishers pass
  at,           \* at[r]: where the run r of init() or of a reconnection is
  on,           \* on[r]: the connection r has asked for a channel
  attempts,     \* attempts[r]: its attempts so far
  closing,      \* how far close() is
  gaveUp,       \* the last reconnection has used up its attempts.  Unless
                \* exitOnIrrecoverableReconnect is false the shutdown function
                \* is called then, to which the client owes its close(); that
                \* may come at any time, or never
  open,         \* the connections that are open
  channels,     \* the connections whose channel is open
  refused,      \* the connections on which a channel was refused
  coming        \* the events that the client's listeners will be called with

clientVars == <<connection, channel, closed, reconnecting, ready, closing, gaveUp>>
runVars == <<at, on, attempts>>
brokerVars == <<open, channels, refused, coming>>
vars == <<clientVars, runVars, brokerVars>>

Runs == Repairs \cup {init}
Place == {"idle", "closing", "backoff", "connecting", "connected", "opening", "done", "failed"}
Event == [of : {"connection", "channel"}, conn : Conns, kind : {"error", "close"}]

EventsOf(of, c) == [of : {of}, conn : {c}, kind : {"error", "close"}]

(* The reconnections that are under way.                                     *)
Running == {r \in Repairs : at[r] # "idle"}

(* A connection that is over, forgotten and will not be heard of again.      *)
Unused(c) ==
  /\ c \notin open \cup {connection, channel} \cup {on[r] : r \in Runs}
  /\ \A e \in coming : e.conn # c

Init ==
  /\ connection = NoConn /\ channel = NoConn
  /\ closed = FALSE /\ reconnecting = FALSE
  /\ ready = FALSE
  /\ at = [r \in Runs |-> "idle"]
  /\ on = [r \in Runs |-> NoConn]
  /\ attempts = [r \in Runs |-> 0]
  /\ closing = "no" /\ gaveUp = FALSE
  /\ open = {} /\ channels = {} /\ refused = {} /\ coming = {}
-----------------------------------------------------------------------------
(* Letting go of the channel: its listeners are removed and it is closed.    *)
(* Whether close() succeeds is not waited for.                               *)
closeChannel ==
  /\ channels' = channels \ {channel}
  /\ coming' = coming \ EventsOf("channel", channel)
  /\ channel' = NoConn

(* Mutant: closeConnection without removeAllListeners.                       *)
closeConnectionListening ==
  /\ open' = open \ {connection}
  /\ channels' = channels \ {connection}
  /\ refused' = refused \ {connection}
  /\ UNCHANGED coming
  /\ connection' = NoConn

(* Letting go of the connection.  A channel on it that still has listeners   *)
(* is heard to close.                                                        *)
closeConnection ==
  /\ open' = open \ {connection}
  /\ channels' = channels \ {connection}
  /\ refused' = refused \ {connection}
  /\ coming' = (coming \ EventsOf("connection", connection))
               \cup [of : {"channel"}, conn : channels \cap {connection}, kind : {"close"}]
  /\ connection' = NoConn

Move(r, place) == at' = [at EXCEPT ![r] = place]

(* The loop of attemptReconnection(): another attempt after a backoff, or    *)
(* the end of it.  A failed init() is not tried again.                       *)
attemptReconnection(r) ==
  \/ /\ r # init /\ attempts[r] < MaxAttempts
     /\ Move(r, "backoff")
     /\ attempts' = [attempts EXCEPT ![r] = @ + 1]
     /\ UNCHANGED <<reconnecting, gaveUp>>
  \/ /\ r # init /\ attempts[r] >= MaxAttempts
     /\ Move(r, "idle")
     /\ attempts' = [attempts EXCEPT ![r] = 0]
     /\ reconnecting' = FALSE
     /\ gaveUp' = TRUE
  \/ /\ r = init
     /\ Move(r, "failed")
     /\ UNCHANGED <<attempts, reconnecting, gaveUp>>
-----------------------------------------------------------------------------
(* init() begins the first connect().                                        *)
initBegins ==
  /\ at[init] = "idle"
  /\ Move(init, "connecting")
  /\ UNCHANGED <<clientVars, on, attempts, brokerVars>>

(* Mutant: `reconnecting` is not looked at.                                  *)
everyEventReconnects(e, r) ==
  /\ e \in coming
  /\ at[r] = "idle"
  /\ ready' = FALSE
  /\ reconnecting' = TRUE
  /\ gaveUp' = FALSE
  /\ channels' = channels \ {channel}
  /\ coming' = coming \ ({e} \cup EventsOf("channel", channel))
  /\ channel' = NoConn
  /\ Move(r, "closing")
  /\ UNCHANGED <<connection, closed, closing, on, attempts, open, refused>>

(* Mutant: the gate is left open.                                            *)
reconnectsBehindTheGate(e, r) ==
  /\ e \in coming
  /\ ~reconnecting
  /\ at[r] = "idle"
  /\ reconnecting' = TRUE
  /\ gaveUp' = FALSE
  /\ channels' = channels \ {channel}
  /\ coming' = coming \ ({e} \cup EventsOf("channel", channel))
  /\ channel' = NoConn
  /\ Move(r, "closing")
  /\ UNCHANGED <<connection, closed, ready, closing, on, attempts, open, refused>>

(* An event reaches its listener.  The first one closes the gate and lets    *)
(* go of the channel; the connection goes one await later.                   *)
closeAllAndScheduleReconnection(e, r) ==
  /\ e \in coming
  /\ ~reconnecting
  /\ at[r] = "idle"
  /\ ready' = FALSE
  /\ reconnecting' = TRUE
  /\ gaveUp' = FALSE
  /\ channels' = channels \ {channel}
  /\ coming' = coming \ ({e} \cup EventsOf("channel", channel))
  /\ channel' = NoConn
  /\ Move(r, "closing")
  /\ UNCHANGED <<connection, closed, closing, on, attempts, open, refused>>

eventIgnored(e) ==
  /\ e \in coming
  /\ reconnecting
  /\ coming' = coming \ {e}
  /\ UNCHANGED <<clientVars, runVars, open, channels, refused>>

connectionLetGo(r) ==
  /\ at[r] = "closing"
  /\ closeConnection
  /\ attemptReconnection(r)
  /\ UNCHANGED <<channel, closed, ready, closing, on>>

backoffEnds(r) ==
  /\ at[r] = "backoff"
  /\ coming = {}
  /\ \A q \in Runs : at[q] \notin {"closing", "connected"}
  /\ closing # "channel"
  /\ Move(r, "connecting")
  /\ UNCHANGED <<clientVars, on, attempts, brokerVars>>

(* createConnection(): the new connection takes the place of the old one,    *)
(* which is not closed.                                                      *)
connectResolves(r, c) ==
  /\ at[r] = "connecting"
  /\ Unused(c)
  /\ open' = open \cup {c}
  /\ refused' = refused \ {c}
  /\ connection' = c
  /\ Move(r, "connected")
  /\ UNCHANGED <<channel, closed, reconnecting, ready, closing, gaveUp, on, attempts,
                 channels, coming>>

connectRejects(r) ==
  /\ at[r] = "connecting"
  /\ attemptReconnection(r)
  /\ UNCHANGED <<connection, channel, closed, ready, closing, on, brokerVars>>

(* createChannel() asks this.connection, which may be gone by now.           *)
createChannel(r) ==
  /\ at[r] = "connected"
  /\ \/ /\ connection # NoConn
        /\ on' = [on EXCEPT ![r] = connection]
        /\ Move(r, "opening")
        /\ UNCHANGED <<reconnecting, gaveUp, attempts>>
     \/ /\ connection = NoConn
        /\ attemptReconnection(r)
        /\ UNCHANGED on
  /\ UNCHANGED <<connection, channel, closed, ready, closing, brokerVars>>

(* Mutant: the gate is not opened again.                                     *)
channelOpensSilently(r) ==
  /\ at[r] = "opening" /\ on[r] \in open
  /\ channels' = channels \cup {on[r]}
  /\ channel' = on[r]
  /\ on' = [on EXCEPT ![r] = NoConn]
  /\ Move(r, IF r = init THEN "done" ELSE "idle")
  /\ attempts' = [attempts EXCEPT ![r] = 0]
  /\ reconnecting' = FALSE
  /\ UNCHANGED <<connection, closed, ready, closing, gaveUp, open, refused, coming>>

(* The channel is open, and connect() ends: the client is ready.             *)
channelOpens(r) ==
  /\ at[r] = "opening" /\ on[r] \in open
  /\ channels' = channels \cup {on[r]}
  /\ channel' = on[r]
  /\ on' = [on EXCEPT ![r] = NoConn]
  /\ Move(r, IF r = init THEN "done" ELSE "idle")
  /\ attempts' = [attempts EXCEPT ![r] = 0]
  /\ reconnecting' = FALSE
  /\ ready' = TRUE
  /\ UNCHANGED <<connection, closed, closing, gaveUp, open, refused, coming>>

(* The channel is refused, or its connection has ended.  The connection is   *)
(* not closed.                                                               *)
channelRejects(r) ==
  /\ at[r] = "opening"
  /\ refused' = refused \cup ({on[r]} \cap open)
  /\ on' = [on EXCEPT ![r] = NoConn]
  /\ attemptReconnection(r)
  /\ UNCHANGED <<connection, channel, closed, ready, closing, open, channels, coming>>

(* close() is the stop function of the client: it is called once, and after  *)
(* init() has resolved.  No reconnection that is running is told.            *)
close ==
  /\ closing = "no" /\ at[init] = "done"
  /\ closed' = TRUE
  /\ closing' = "channel"
  /\ closeChannel
  /\ UNCHANGED <<connection, reconnecting, ready, gaveUp, runVars, open, refused>>

closeEnds ==
  /\ closing = "channel"
  /\ closing' = "done"
  /\ closeConnection
  /\ UNCHANGED <<channel, closed, reconnecting, ready, gaveUp, runVars>>
-----------------------------------------------------------------------------
(* The broker and the network.  A connection ends with or without an error   *)
(* before the close, and its channel with it; a channel may end alone.       *)
connectionDies(c) ==
  /\ c \in open
  /\ open' = open \ {c} /\ channels' = channels \ {c}
  /\ \E kinds \in {{"close"}, {"error", "close"}} :
       coming' = coming \cup [of : {"connection"}, conn : {c}, kind : kinds]
                        \cup [of : {"channel"}, conn : channels \cap {c}, kind : kinds]
  /\ UNCHANGED <<clientVars, runVars, refused>>

channelDies(c) ==
  /\ c \in channels
  /\ channels' = channels \ {c}
  /\ coming' = coming \cup EventsOf("channel", c)
  /\ UNCHANGED <<clientVars, runVars, open, refused>>
-----------------------------------------------------------------------------
RunNext(r) ==
  \/ connectionLetGo(r) \/ backoffEnds(r)
  \/ \E c \in Conns : connectResolves(r, c)
  \/ connectRejects(r)
  \/ createChannel(r)
  \/ channelOpens(r) \/ channelRejects(r)

EventNext ==
  \E e \in coming : eventIgnored(e) \/ \E r \in Repairs : closeAllAndScheduleReconnection(e, r)

Next ==
  \/ initBegins
  \/ EventNext
  \/ \E r \in Runs : RunNext(r)
  \/ close \/ closeEnds
  \/ \E c \in Conns : connectionDies(c) \/ channelDies(c)

-----------------------------------------------------------------------------
TypeOK ==
  /\ connection \in Conns \cup {NoConn} /\ channel \in Conns \cup {NoConn}
  /\ closed \in BOOLEAN /\ reconnecting \in BOOLEAN /\ ready \in BOOLEAN /\ gaveUp \in BOOLEAN
  /\ at \in [Runs -> Place] /\ on \in [Runs -> Conns \cup {NoConn}]
  /\ attempts \in [Runs -> 0 .. MaxAttempts]
  /\ closing \in {"no", "channel", "done"}
  /\ open \subseteq Conns /\ channels \subseteq open /\ refused \subseteq Conns
  /\ coming \subseteq Event

(* However many events tell of an outage, in whatever order, one             *)
(* reconnection runs, and `reconnecting` is set exactly while it does.       *)
OneReconnection ==
  /\ \A q, r \in Running : q = r
  /\ reconnecting <=> Running # {}

(* While the gate of a client that was not closed is open, the channel       *)
(* publishers get belongs to the connection in hand, and both are open or    *)
(* an event that will repair them is on its way.                             *)
GateTruth ==
  ready /\ ~closed =>
    /\ channel # NoConn /\ channel = connection
    /\ channel \in channels \/ \E e \in coming : e.conn = channel

(* No connection is left behind, open or with its listeners, except one on   *)
(* which a channel was refused: attemptReconnection does not close that one. *)
NothingLeftBehind ==
  \A c \in Conns \ {connection, channel} :
    (c \in open \/ \E e \in coming : e.conn = c) => c \in refused
-----------------------------------------------------------------------------
(* What the client is to those who use it.                                   *)
Phase ==
  IF ready THEN "ready"
  ELSE IF reconnecting THEN "mending"
  ELSE IF gaveUp THEN "gave up"
  ELSE IF at[init] = "failed" THEN "failed"
  ELSE "starting"

Attempts == IF Running = {} THEN 0 ELSE attempts[CHOOSE r \in Running : TRUE]

Usable == channel \in channels

User == INSTANCE ReconnectingClient WITH
  phase <- Phase, usable <- Usable, tries <- Attempts

(* Seen by its users the client is a ReconnectingClient: a client that has   *)
(* started never stops being ready without mending, it becomes ready again   *)
(* with a channel that is open, and before it gives up it has made           *)
(* maxConnectionAttempts attempts.                                           *)
ImplementsClient == User!Spec
=============================================================================
