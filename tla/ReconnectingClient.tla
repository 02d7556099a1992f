------------------------- MODULE ReconnectingClient -------------------------
(* What a RabbitMQ client promises to the producer or consumer built on it,  *)
(* whatever the broker and the network do.  Once it has started it is ready, *)
(* or mending, or it has given up, which is when it calls its shutdown       *)
(* function unless configured not to: publishers are never kept waiting by a *)
(* client that has not tried.  It becomes ready only together with a channel *)
(* that can be used, it makes no attempt but while it mends, and it gives up *)
(* after exactly MaxAttempts of them.                                        *)
EXTENDS Naturals

CONSTANT MaxAttempts

VARIABLES
  phase,   \* "starting", "failed" (to start), "ready", "mending" or "gave up"
  usable,  \* the channel that users are given is open
  tries,   \* the attempts made since mending began
  closed   \* close() was called

reconnectingVars == <<phase, usable, tries, closed>>

Init == phase = "starting" /\ usable = FALSE /\ tries = 0 /\ closed = FALSE

Started ==
  /\ phase = "starting"
  /\ phase' = "ready" /\ usable' = TRUE
  /\ UNCHANGED <<tries, closed>>

StartFails ==
  /\ phase = "starting"
  /\ phase' = "failed"
  /\ UNCHANGED <<usable, tries, closed>>

(* The channel ends, and the client has not heard of it.                     *)
Breaks ==
  /\ usable /\ usable' = FALSE
  /\ UNCHANGED <<phase, tries, closed>>

(* An event reaches the client; one may come from what a start or an earlier *)
(* mending that failed has left.                                             *)
Mends ==
  /\ phase # "mending"
  /\ phase' = "mending" /\ usable' = FALSE
  /\ UNCHANGED <<tries, closed>>

Tries ==
  /\ phase = "mending" /\ tries < MaxAttempts
  /\ tries' = tries + 1
  /\ UNCHANGED <<phase, usable, closed>>

Mended ==
  /\ phase = "mending" /\ tries > 0
  /\ phase' = "ready" /\ usable' = TRUE /\ tries' = 0
  /\ UNCHANGED closed

GivesUp ==
  /\ phase = "mending" /\ tries = MaxAttempts
  /\ phase' = "gave up" /\ tries' = 0
  /\ UNCHANGED <<usable, closed>>

(* Only a client that has started is closed; it goes on mending.             *)
Closes ==
  /\ phase \in {"ready", "mending", "gave up"} /\ ~closed
  /\ closed' = TRUE /\ usable' = FALSE
  /\ UNCHANGED <<phase, tries>>

Next ==
  Started \/ StartFails \/ Breaks \/ Mends \/ Tries \/ Mended \/ GivesUp \/ Closes

Spec == Init /\ [][Next]_reconnectingVars
=============================================================================
