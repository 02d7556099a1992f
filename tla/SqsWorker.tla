----------------------------- MODULE SqsWorker -----------------------------
(* The message handler of an SqsWorker (sqs/SqsWorker.ts) between a queue    *)
(* that counts how often it hands a message out and a handler that is given  *)
(* done() and returns a promise: both count as its answer.                   *)
(*                                                                           *)
(* The queue and sqs-consumer are external: done() without an error deletes  *)
(* the message, done(err) leaves it in the queue, and a second done() of one *)
(* delivery does nothing.  A message whose handler takes too long is handed  *)
(* out again while that handler runs on.                                     *)
EXTENDS Naturals, FiniteSets

CONSTANTS
  Message,
  maxRetries,   \* SqsWorker.maxRetries
  MaxReceives   \* bound: how often the queue hands a message out

ASSUME SqsBounds == maxRetries \in Nat /\ MaxReceives \in Nat /\ MaxReceives > maxRetries

VARIABLES
  queued,    \* the messages that are in the queue: visible or invisible
  received,  \* ApproximateReceiveCount
  delivery,  \* delivery[m][n]: how the n-th delivery of m fares
  runs,      \* how often handle() was called for m
  fulfilled, \* the messages of which a handler has said that they are done,
             \* by done() or by its promise
  polling    \* the consumer has been started and not stopped

sqsVars == <<queued, received, delivery, runs, fulfilled, polling>>

SqsInit ==
  /\ queued = [m \in Message |-> "visible"]
  /\ received = [m \in Message |-> 0]
  /\ delivery = [m \in Message |-> [n \in 1..MaxReceives |-> "none"]]
  /\ runs = [m \in Message |-> 0]
  /\ fulfilled = {}
  /\ polling = FALSE

(* done() of a delivery that has not been answered.                          *)
Answer(m, n, err) ==
  /\ delivery[m][n] = "unanswered"
  /\ queued' = [queued EXCEPT ![m] = IF err THEN (IF @ = "deleted" THEN @ ELSE "visible") ELSE "deleted"]

initialise ==
  /\ ~polling /\ polling' = TRUE
  /\ UNCHANGED <<queued, received, delivery, runs, fulfilled>>

shutdown ==
  /\ polling /\ polling' = FALSE
  /\ UNCHANGED <<queued, received, delivery, runs, fulfilled>>

(* A message that comes too often is deleted; the others are handled.  What  *)
(* the handler throws at once is an error.                                   *)
handleMessage(m) ==
  LET n == received[m] + 1 IN
  /\ polling /\ queued[m] = "visible" /\ n <= MaxReceives
  /\ received' = [received EXCEPT ![m] = n]
  /\ IF n > maxRetries
     THEN /\ delivery' = [delivery EXCEPT ![m][n] = "skipped"]
          /\ queued' = [queued EXCEPT ![m] = "deleted"]
          /\ UNCHANGED runs
     ELSE /\ runs' = [runs EXCEPT ![m] = @ + 1]
          /\ \/ delivery' = [delivery EXCEPT ![m][n] = "unanswered"]
                /\ queued' = [queued EXCEPT ![m] = "invisible"]
             \/ delivery' = [delivery EXCEPT ![m][n] = "settled"]
                /\ UNCHANGED queued
  /\ UNCHANGED <<fulfilled, polling>>

(* The handler calls done() before its promise settles.                      *)
handlerCallsDone(m, n, err) ==
  /\ Answer(m, n, err)
  /\ delivery' = [delivery EXCEPT ![m][n] = "answered"]
  /\ fulfilled' = IF err THEN fulfilled ELSE fulfilled \cup {m}
  /\ UNCHANGED <<received, runs, polling>>

(* then(done, done): the value a promise resolves with is an error to done().*)
promiseResolves(m, n, value) ==
  /\ delivery[m][n] \in {"unanswered", "answered"}
  /\ delivery' = [delivery EXCEPT ![m][n] = "settled"]
  /\ IF delivery[m][n] = "unanswered" THEN Answer(m, n, value = "something") ELSE UNCHANGED queued
  /\ fulfilled' = fulfilled \cup {m}
  /\ UNCHANGED <<received, runs, polling>>

(* Mutant: a rejection is answered like a success.                           *)
promiseRejectsDone(m, n) ==
  /\ delivery[m][n] \in {"unanswered", "answered"}
  /\ delivery' = [delivery EXCEPT ![m][n] = "settled"]
  /\ IF delivery[m][n] = "unanswered" THEN Answer(m, n, FALSE) ELSE UNCHANGED queued
  /\ UNCHANGED <<received, runs, fulfilled, polling>>

promiseRejects(m, n) ==
  /\ delivery[m][n] \in {"unanswered", "answered"}
  /\ delivery' = [delivery EXCEPT ![m][n] = "settled"]
  /\ IF delivery[m][n] = "unanswered" THEN Answer(m, n, TRUE) ELSE UNCHANGED queued
  /\ UNCHANGED <<received, runs, fulfilled, polling>>

visibilityTimeout(m) ==
  /\ queued[m] = "invisible" /\ queued' = [queued EXCEPT ![m] = "visible"]
  /\ UNCHANGED <<received, delivery, runs, fulfilled, polling>>

SqsNext ==
  \/ initialise \/ shutdown
  \/ \E m \in Message :
       \/ handleMessage(m) \/ visibilityTimeout(m)
       \/ \E n \in 1..MaxReceives :
            \/ promiseRejects(m, n)
            \/ \E err \in BOOLEAN : handlerCallsDone(m, n, err)
            \/ \E value \in {"nothing", "something"} : promiseResolves(m, n, value)

-----------------------------------------------------------------------------
(* A message leaves the queue only when a handler has said that it is done,  *)
(* or when it has been handed out more than maxRetries times, however its    *)
(* deliveries overlap and whoever answers first; and it is not handled more  *)
(* than maxRetries times (initialise(), handleMessage).                      *)
DeletedWhenDone ==
  \A m \in Message :
    /\ queued[m] = "deleted" => m \in fulfilled \/ received[m] > maxRetries
    /\ runs[m] <= maxRetries
=============================================================================
