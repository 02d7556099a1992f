---------------------------- MODULE WebRequests ----------------------------
(* A request through the middlewares of an application with WebPlugin and    *)
(* SwaggerPlugin: the gauge, swagger-tools, CORS, the SwaggerRouterMiddleware*)
(* with its cache of handlers, the plain routes, and the error middlewares.  *)
(*                                                                           *)
(* What express runs synchronously is one step.  A handler may write, end,   *)
(* resolve and reject as it likes, and the client may leave at any moment.   *)
EXTENDS Naturals, Sequences, FiniteSets

CONSTANTS
  Request,      \* the requests
  Kinds,        \* bound: what may be asked for, see below
  Controllers   \* Controllers[name]: the methods of the object the context has
                \* under this name; names are sequences of words joined by '_'

ASSUME RequestsAreFinite == IsFiniteSet(Request)

(* A kind: how much of it the swagger document knows ("nothing", "path" or   *)
(* "operation"), whether it is a preflight, its security, the controller it  *)
(* names (<<>>: none) and where, its operation, and whether a plain route    *)
(* fits.                                                                     *)
VARIABLES
  kind,       \* what each request asks for
  configured, \* which of jwt secret and apiKey the configuration has, and
              \* whether the document has a basePath; NewRelic is there
  at,         \* where the request is
  headersSent,
  reply,      \* "none", "open" while being written, or the status
  gone,       \* the connection has been closed
  ran,        \* the controller and method that have run
  settled,    \* the promise of the handler: "no", "resolved" or "rejected"
  handlerCache,
  active,     \* activeRequestsGauge
  noticed     \* noticed[r]: how many errors errorMiddleware told NewRelic of

webVars == <<kind, configured, at, headersSent, reply, gone, ran, settled, handlerCache, active, noticed>>
fixed == <<kind, configured>>

NoHandler == [controller |-> <<>>, method |-> <<>>]
Finished(r) == reply[r] \notin {"none", "open"}

WebInit ==
  /\ kind \in [Request -> Kinds]
  /\ configured \in SUBSET {"jwt", "apiKey", "basePath"}
  /\ at = [r \in Request |-> "client"]
  /\ headersSent = [r \in Request |-> FALSE]
  /\ reply = [r \in Request |-> "none"]
  /\ gone = [r \in Request |-> FALSE]
  /\ ran = [r \in Request |-> NoHandler]
  /\ settled = [r \in Request |-> "no"]
  /\ handlerCache = <<>>
  /\ active = 0
  /\ noticed = [r \in Request |-> 0]

-----------------------------------------------------------------------------
(* The response, and the errors                                              *)

(* on-finished runs its listener once: when the response has ended, or when  *)
(* the connection is closed before.                                          *)
onFinished(r, over) ==
  active' = IF over /\ ~gone[r] /\ ~Finished(r) THEN active - 1 ELSE active

Send(r, status) ==
  /\ headersSent' = [headersSent EXCEPT ![r] = TRUE]
  /\ reply' = [reply EXCEPT ![r] = status]
  /\ onFinished(r, TRUE)
  /\ UNCHANGED gone

(* An error has the status of its HttpError, or is "plain".                  *)
IsClientError(err) == err \in {"400", "401", "404"}
Pass(err) == [sends |-> "nothing", next |-> err, notices |-> 0]

(* send() throws when the headers are out: express goes on with that error.  *)
clientErrorMiddleware(err, sent) ==
  CASE ~IsClientError(err) -> Pass(err)
    [] IsClientError(err) /\ sent  -> Pass("plain")
    [] IsClientError(err) /\ ~sent -> [sends |-> err, next |-> "nothing", notices |-> 0]

(* Mutant: NewRelic is told before the headers are looked at.                *)
noticesFirst(err, sent) ==
  IF sent THEN [Pass(err) EXCEPT !.notices = 1]
  ELSE [sends |-> IF err = "plain" THEN "500" ELSE err, next |-> "nothing",
        notices |-> IF IsClientError(err) THEN 0 ELSE 1]

errorMiddleware(err, sent) ==
  IF sent THEN Pass(err)
  ELSE [sends |-> IF err = "plain" THEN "500" ELSE err, next |-> "nothing",
        notices |-> IF IsClientError(err) THEN 0 ELSE 1]

(* next(err).  What neither of them answers comes to express, which closes   *)
(* the connection of a response that has begun.                              *)
Fail(r, err) ==
  LET first == clientErrorMiddleware(err, headersSent[r])
      second == IF first.next = "nothing" THEN first
                ELSE errorMiddleware(first.next, headersSent[r])
  IN /\ at' = [at EXCEPT ![r] = "done"]
     /\ noticed' = [noticed EXCEPT ![r] = @ + second.notices]
     /\ IF second.next = "nothing" THEN Send(r, second.sends)
        ELSE /\ gone' = [gone EXCEPT ![r] = TRUE]
             /\ onFinished(r, TRUE)
             /\ UNCHANGED <<headersSent, reply>>

-----------------------------------------------------------------------------
(* Up to the router                                                          *)

arrives(r) ==
  /\ at[r] = "client"
  /\ at' = [at EXCEPT ![r] = "metadata"]
  /\ active' = active + 1
  /\ UNCHANGED <<fixed, headersSent, reply, gone, ran, settled, handlerCache, noticed>>

(* jwtHandler() and verifyApiKey(): without a secret or a key in the         *)
(* configuration nothing is accepted.                                        *)
Accepts(r, right) == kind[r].security \in configured /\ right

(* swagger-tools: the metadata, the security of the operation, and its       *)
(* validation, whose error is a plain one.                                   *)
swaggerTools(r) ==
  /\ at[r] = "metadata"
  /\ \/ /\ at' = [at EXCEPT ![r] = "CORS"]
        /\ kind[r].known = "operation" /\ kind[r].security # "none" => Accepts(r, TRUE)
        /\ UNCHANGED <<headersSent, reply, gone, active, noticed>>
     \/ /\ kind[r].known = "operation" /\ kind[r].security # "none"
        /\ Fail(r, "401")
     \/ /\ kind[r].known = "operation"
        /\ kind[r].security # "none" => Accepts(r, TRUE)
        /\ Fail(r, "plain")
  /\ UNCHANGED <<fixed, ran, settled, handlerCache>>

(* The OPTIONS of a path the document knows are answered.                    *)
CORSMiddleware(r) ==
  /\ at[r] = "CORS"
  /\ IF kind[r].known # "nothing" /\ kind[r].preflight
     THEN Send(r, "200") /\ at' = [at EXCEPT ![r] = "done"]
     ELSE at' = [at EXCEPT ![r] = "router"] /\ UNCHANGED <<headersSent, reply, gone, active>>
  /\ UNCHANGED <<fixed, ran, settled, handlerCache, noticed>>

-----------------------------------------------------------------------------
(* SwaggerRouterMiddleware                                                   *)

hasController(r) == kind[r].known # "nothing" /\ kind[r].controller # <<>>

(* Mutant: one handler for each controller.                                  *)
KeyOfController(r) == kind[r].controller

(* `${controllerName}_${operationId}`                                        *)
Key(r) == kind[r].controller \o kind[r].operation

Handler(r) == [controller |-> kind[r].controller, method |-> kind[r].operation]

(* The name of the transaction begins with the basePath.                     *)
transactionNamed(r) == kind[r].known = "nothing" \/ "basePath" \in configured

(* Without a basePath the middleware throws before its try: a promise that   *)
(* express drops, and nobody answers.                                        *)
routerThrows(r) ==
  /\ at[r] = "router" /\ ~transactionNamed(r)
  /\ at' = [at EXCEPT ![r] = "thrown"]
  /\ UNCHANGED <<fixed, headersSent, reply, gone, active, noticed, ran, settled, handlerCache>>

(* A handler of the cache is called at once; an operation that the document  *)
(* does not know throws where its name is read.                              *)
router(r) ==
  /\ at[r] = "router" /\ transactionNamed(r)
  /\ CASE ~hasController(r) ->
            /\ at' = [at EXCEPT ![r] = "routes"]
            /\ UNCHANGED <<headersSent, reply, gone, active, noticed, ran>>
       [] hasController(r) /\ kind[r].known = "path" -> Fail(r, "plain") /\ UNCHANGED ran
       [] hasController(r) /\ kind[r].known = "operation" /\ Key(r) \in DOMAIN handlerCache ->
            /\ at' = [at EXCEPT ![r] = "handling"]
            /\ ran' = [ran EXCEPT ![r] = handlerCache[Key(r)]]
            /\ UNCHANGED <<headersSent, reply, gone, active, noticed>>
       [] OTHER ->
            /\ at' = [at EXCEPT ![r] = "looking"]
            /\ UNCHANGED <<headersSent, reply, gone, active, noticed, ran>>
  /\ UNCHANGED <<fixed, settled, handlerCache>>

(* getObjectByName() has settled.  It may also reject, for an object that    *)
(* does not start.                                                           *)
getControllerHandler(r) ==
  /\ at[r] = "looking"
  /\ \/ /\ Handler(r).controller \in DOMAIN Controllers
        /\ Handler(r).method \in Controllers[Handler(r).controller]
        /\ handlerCache' = [k \in DOMAIN handlerCache \cup {Key(r)} |->
                              IF k = Key(r) THEN Handler(r) ELSE handlerCache[k]]
        /\ ran' = [ran EXCEPT ![r] = Handler(r)]
        /\ at' = [at EXCEPT ![r] = "handling"]
        /\ UNCHANGED <<headersSent, reply, gone, active, noticed>>
     \/ /\ Fail(r, "plain")
        /\ UNCHANGED <<handlerCache, ran>>
  /\ UNCHANGED <<fixed, settled>>

(* Mutant: whoever resolves has answered.                                    *)
resolvesUnchecked(r) ==
  /\ at[r] = "handling"
  /\ settled' = [settled EXCEPT ![r] = "resolved"]
  /\ at' = [at EXCEPT ![r] = "done"]
  /\ UNCHANGED <<fixed, headersSent, reply, gone, active, noticed, ran, handlerCache>>

handlerResolves(r) ==
  /\ at[r] = "handling"
  /\ settled' = [settled EXCEPT ![r] = "resolved"]
  /\ IF headersSent[r]
     THEN at' = [at EXCEPT ![r] = "done"] /\ UNCHANGED <<headersSent, reply, gone, active, noticed>>
     ELSE Fail(r, "plain")
  /\ UNCHANGED <<fixed, ran, handlerCache>>

handlerRejects(r, err) ==
  /\ at[r] = "handling"
  /\ settled' = [settled EXCEPT ![r] = "rejected"]
  /\ Fail(r, err)
  /\ UNCHANGED <<fixed, ran, handlerCache>>

(* A handler writes without ending, or ends, before it settles; what it has  *)
(* begun to write it may end afterwards.  To an answered response it cannot. *)
handlerWrites(r) ==
  /\ at[r] \in {"handling", "routed"} /\ ~headersSent[r]
  /\ headersSent' = [headersSent EXCEPT ![r] = TRUE]
  /\ reply' = [reply EXCEPT ![r] = "open"]
  /\ UNCHANGED <<fixed, at, gone, active, noticed, ran, settled, handlerCache>>

handlerEnds(r) ==
  /\ at[r] \in {"handling", "routed"} \/ reply[r] = "open"
  /\ ~Finished(r)
  /\ Send(r, "200")
  /\ UNCHANGED <<fixed, at, noticed, ran, settled, handlerCache>>

-----------------------------------------------------------------------------
(* The routes of RouteRegisterUtil.  What the method throws express catches; *)
(* a promise it returns is dropped, and with it a rejection.                 *)
route(r) ==
  /\ at[r] = "routes"
  /\ IF kind[r].route
     THEN \/ /\ at' = [at EXCEPT ![r] = "routed"]
             /\ UNCHANGED <<headersSent, reply, gone, active, noticed>>
          \/ \E err \in {"404", "500", "plain"} : Fail(r, err)
     ELSE /\ Send(r, "404") /\ at' = [at EXCEPT ![r] = "done"]
          /\ UNCHANGED noticed
  /\ UNCHANGED <<fixed, ran, settled, handlerCache>>

clientLeaves(r) ==
  /\ at[r] # "client" /\ ~gone[r]
  /\ gone' = [gone EXCEPT ![r] = TRUE]
  /\ onFinished(r, TRUE)
  /\ UNCHANGED <<fixed, at, headersSent, reply, noticed, ran, settled, handlerCache>>

WebNext ==
  \E r \in Request :
    \/ arrives(r) \/ swaggerTools(r) \/ CORSMiddleware(r) \/ router(r) \/ routerThrows(r)
    \/ getControllerHandler(r) \/ route(r) \/ handlerResolves(r) \/ handlerWrites(r) \/ handlerEnds(r) \/ clientLeaves(r)
    \/ \E err \in {"404", "500", "plain"} : handlerRejects(r, err)

-----------------------------------------------------------------------------
(* Who gets into the router is answered or cut off: at the latest when the   *)
(* handler settles, unless the handler has begun an answer itself            *)
(* (SwaggerRouterMiddleware.register()).  Only where the router throws       *)
(* outside its try, for want of a basePath, the client is left waiting.      *)
AnsweredOnceSettled ==
  \A r \in Request :
    /\ at[r] = "done" /\ reply[r] \in {"none", "open"} =>
         gone[r] \/ (settled[r] = "resolved" /\ headersSent[r])
    /\ at[r] = "thrown" => ~transactionNamed(r)

(* A request runs the method of the controller that its operation names,     *)
(* whichever requests came before or in between; but for operations whose    *)
(* joined names are the same (getControllerHandler()).                       *)
ServedByItsController ==
  \A r \in Request :
    ran[r] \notin {NoHandler, Handler(r)} => ran[r].controller \o ran[r].method
                                                = kind[r].controller \o kind[r].operation

(* What is reported of the requests is true.  NewRelic hears once of one     *)
(* whose error was answered as the server's and of no other, whatever comes  *)
(* after the answer; the gauge counts those under way, in whichever order    *)
(* the client leaves and the handler answers (errorMiddleware(),             *)
(* activeRequestsGauge).                                                     *)
RequestsAccountedFor ==
  /\ \A r \in Request : noticed[r] = IF reply[r] = "500" THEN 1 ELSE 0
  /\ active = Cardinality({r \in Request : at[r] # "client" /\ ~gone[r] /\ ~Finished(r)})
=============================================================================
