# Inceptum, specified

TLA+ models of the framework in `src/` (paths below are relative to `src/src/`
unless they say otherwise), model-checked with TLC on small instances, with
theorems checked by TLAPS for every value of the constants.

`PROJECT.json` lists the components, the runs, the definition-to-source map, the
hazards of the code and the findings. Definitions carry the names of the methods
they model. Operators introduced by a comment that begins `Mutant` are broken
variants of the definition that follows them: each property of a run is violated
when one of them takes that definition's place.

## 1. The system

Inceptum is a Node.js application framework. All concurrency is that of one event
loop: synchronous code is never interrupted, and every `await` or `.then` is a
place where anything else may happen. What can go wrong is therefore the *order* of
promise reactions, events, timers and answers of external services.

| Component | State it keeps | Operations | What is hard | What makes it correct |
|---|---|---|---|---|
| `Lifecycle` (`ioc/Lifecycle.ts`) | `status`, listeners | `lcStart`, `lcStop`, `setStatus` | callers racing; a stop overtaking a start that waits for `doStart` | status only climbs; `doStart`/`doStop` once; a resolved call has reached its state |
| `Context` and definitions (`ioc/Context.ts`, `ioc/objectdefinition/*`) | the definitions, their status and promises, `startedObjects` | `getInstance`, property injection, start and stop | cycles; failures while others start; a stop in the middle; clients asking at any time | dependencies ready before use; cycles do not deadlock; constructor cycles refused; started means ready; stopped means stopped |
| Context hierarchy and registry (`ioc/Context.ts`) | definition maps, groups, parent, resolved parameters | `registerDefinition`, `clone`, `importContext`, lookups, start and stop through parents | partial failures, shadowed names, shared definitions and parameters | what a started context resolves is settled; groups are complete; a stop leaves nothing running |
| Decorators and inspectors (`ioc/Decorators.ts`, `ioc/autoconfig/*`, `web/WebRoutingInspector.ts`) | metadata of prototypes, static properties, routes | declaring classes, inspecting definitions | metadata inherited and shared; two sources for the same thing | a class is wired with what it and its superclasses have written, routes reach their controller |
| `DBClient`, `DBTransaction`, `Transaction`, `InstrumentedConnectionPool` | connection per transaction, error mark, listeners, two pools, gauges | `initialise`, `stop`, `runInTransaction`, `ping`, `begin`, `end` | every statement may fail; timeouts; stray queries; stop with loans outstanding | one call per connection; nothing leaks; the caller hears what the server did |
| RabbitMQ client (`rabbitmq/RabbitmqClient.ts`, `util/ReadyGate.ts`) | connection, channel, `reconnecting`, `closed`, the gate | `init`, `connect`, event handlers, `attemptReconnection`, `close` | events during reconnection, close during backoff, failed channels | one live connection; publishers get through or are told |
| RabbitMQ consumer and producer | retry header, delay and dead-letter queues, drain listeners | `handleMessage`, `publish` | acks on a replaced channel, redelivery, back pressure | no message lost; bounded retries |
| Health checks (`health/*`) | timer, `checkRunning`, last result, groups | `start`, `runCheck`, `stop`, `addCheck`, `getLastResult` | overlapping and hanging runs, staleness, nested groups | a hung check turns CRITICAL and no other; timers end with the manager |
| Application and plugins (`app/*`, `web/AdminPortPlugin.ts`, `web/WebPlugin.ts`) | plugins, plugin context, context | `register`, `start`, `stop`, signal handlers | a signal during the start, two signals, a failing plugin | phases in order; a signal ends the process; `/health` tells the truth |
| Web requests (`web/WebPlugin.ts`, `swagger/*`) | handler cache, gauge | middlewares, router, error middlewares | handlers that write, resolve and reject in any order; clients that leave | each request answered by its own controller, and accounted for |
| SQS worker (`sqs/SqsWorker.ts`) | the consumer | `handleMessage` | `done` called twice, overlapping deliveries | nothing deleted that is not done |
| Logging (`log/LogManager.ts`) | stream cache, directories | `getLogger`, `closeStreams`, event handlers | streams ended and used again, directories of another process | logging does not end the process |
| Metrics (`metrics/*`) | last reading, counter, timers | `registerOSMetrics`, `pushStats` | failed readings, numbers that go down | nothing counted twice |
| Configuration, New Relic, Elasticsearch, utilities | little or none | | | |

How they interact: the application owns a `Context`; the context drives the
`Lifecycle` of every definition, and is a `Lifecycle` itself; definitions start
the clients (database, RabbitMQ, SQS) through their start and stop functions;
plugins register definitions before the start and run their own phases around it;
health checks call the clients; the RabbitMQ client can ask the application to shut
down (`shutdownFunction`); the web plugin injects the controllers of the context into
its routes.

## 2. Modules

| Module | Models | Notes |
|---|---|---|
| `LifecycleStates` | the numbered status chain, and what `setStatus` accepts | used by all the others |
| `StatusChain` | abstract specification: a status that begins NOT_STARTED and only climbs | |
| `Lifecycle` | one `Lifecycle` object and any number of callers | implements `StatusChain` |
| `Lifecycle_proofs` | theorems about `Lifecycle` | TLAPS |
| `DependencyGraph` | the two dependency questions of `BaseSingletonDefinition`, as sets | no recursion, so usable in proofs |
| `CircularityCheck` | the recursion of `getInstance()` and its two walks, call by call | what it finds is what `DependencyGraph` says |
| `ContextWiring` | a context, its definitions, and clients | the core of the framework |
| `ContextWiring_proofs` | theorems about `ContextWiring` | TLAPS |
| `ContextRegistry` | registration, parents, copies, imports, groups, lookups, `startedObjects` | |
| `Decorators` | decorators, static properties and the inspectors | |
| `ConnectionLease` | abstract specification: what a database client promises its callers | |
| `DBTransactions` | transactions and pings over the pools of a client | generic-pool and the server are external; implements `ConnectionLease` |
| `DBTransactions_proofs` | theorems about them | TLAPS |
| `ReconnectingClient` | abstract specification: what a RabbitMQ client is to those who use it | |
| `RabbitmqConnection` | a RabbitMQ client: `init`, reconnections, `close` | amqplib and the broker are external; implements `ReconnectingClient` |
| `RabbitmqConnection_proofs` | the inductive invariant of the client, and the refinement | TLAPS |
| `RabbitmqProducer` | publishers over that client, with the ready gate | the specification of the RabbitMQ runs |
| `RabbitmqProducer_proofs` | theorems about the client with its publishers | TLAPS |
| `RabbitmqConsumer` | a message and its consumer over that client | the broker is external |
| `RabbitmqConsumer_proofs` | theorems about the message | TLAPS |
| `HealthCheck` | the checks, their group and their manager, over time | |
| `Application` | `start`, `stop`, signals and plugins | composes `Lifecycle` (the context) and `HealthCheck` |
| `Application_proofs` | theorems about the shutdown and the checks | TLAPS, over `Lifecycle_proofs` |
| `WebRequests` | a request through the middlewares | |
| `SqsWorker` | the message handler between the queue and the handler | sqs-consumer is external |
| `LogManager` | loggers, streams, directories, event handlers | |
| `OSMetrics` | the counter that follows the operating system's | |
| `Parts_proofs` | theorems about the last four, `ContextRegistry`, `Decorators` and `CircularityCheck` | TLAPS |
| `MC*` | instances for TLC | `MCParts` holds the parts that stand by themselves |

### Lifecycle

A call of `lcStart` is three steps: the synchronous `setStatus(STARTING)`
(`lcStart`; refused when `setStatus` returns false or throws), the answer of the
subclass's `doStart` followed by the second `setStatus` (`doStartResolves`), or
its failure (`doStartRejects`). `lcStop` alike. The second `setStatus` matters: a
false result is ignored by the code and an exception rejects (`Closed`). `emitted`
records the events in order. Removing the listeners of passed states cannot be
observed, since no emit can reach them, and is left out.

### ContextWiring

The unit of atomicity is a synchronous stretch of code. `getInstance(D)` is the
synchronous part of `getInstance()` on a set of definitions: it begins the
construction of everything below them along constructor arguments (`Closure`) or
refuses a constructor cycle. `inst[d]` is the promise of `instantiate()`,
`wired[d]` is `wiredInstancePromise`. `Awaited(d)` is the choice the code makes at
`BaseSingletonDefinition.ts:281`: dependants of a definition from which *some* cycle
can be reached wait for its construction only. `setAllProperties`, `lcStart`,
`doStartResolves`... are the reactions; the order in which the microtask queue runs
those that are ready is left open. The context has its own status, the one
`lcStart` and the one `lcStop` that were accepted (`startCall`, `stopCall`), the
failing start that stops the context itself (`contextStartRejects`), and
`startedObjects`, kept by listeners. An `lcStart` or `lcStop` refused by its first
`setStatus` changes nothing and is not a step (module `Lifecycle` has it).

Abstracted: constructor arguments and properties are sets of references (values
and configuration never wait); references by type, group and array are the set of
what they resolve to, which is `ContextRegistry`'s subject, as are names that are not
registered.

### CircularityCheck

What `ContextWiring` does in one step (`getInstance(D)`, with `ReachesCycle` and `Closure` of
`DependencyGraph`) is a recursion in the code: `getInstance()` walks the constructor arguments with
a trace, calls `instantiate()`, which calls `getInstance()` on each argument, and walks again along
all references. Here each of these calls is on a stack (`calls` with the arguments left to ask, `argsLeft`;
`trace` with the definitions left to call, `toCheck`), and each step is one call, one return or one
throw that is caught in `getInstance()` (`circular`). `promise` is `instancePromise`, which is set only when
`getInstance()` returns: a cycle is refused by the walk, not by the promise. Only `asked` is not in the code: it remembers
which definitions a client asked for. References are sets, taken in any order; the code has lists, in which a
second visit of the same definition finds what the first one found. Definitions are configured
(`constructorParamByRef`, `setPropertyByRef`) whenever nothing runs and their own
`instantiate()` has not been called, as the status they assert allows: also after others have been
asked for.

### ContextRegistry

A definition is `<<b, t>>`: `b` is what the application wrote, `t` tells the original
from the copy that `clone()` makes. `defs`, `groups` and `started` are the maps of
each context; `def[d]` has what the definition itself keeps: its context, laziness,
status, parameters, and the contexts that listen to it (`hears`: a definition that
changes hands keeps the listeners of the old context). `resolved` is
`ParamDefinition.objectDefinitions`, which copies share because the parameters are the
same objects. `Enter` is `objectDefinitions.set`, `setContext` and the two listeners,
with the failure of the second step. `importContext` ends at the first definition that
is refused, in an order the map decides: any subset of the others may have been
entered. `applyObjectDefinitionModifiers` and `doStart` are one synchronous stretch, in
two steps here (`inspected`) with nothing in between: `RegistryNext` lets a context that is inspected go
first. Coming up is one step
(`Instantiate`), and the graphs have no cycle.

### Decorators

`Writes` declares the classes one by one, decorators of members before those of the
class. `ioc` and `web` are the metadata, by the class whose prototype has it:
`Holder` is the nearest one on the prototype chain, which is where
`getOrCreateMetadata` writes (`HolderOrNew`, `Mine`, `Update`). `applyInspector` runs the five inspectors over one
definition of each class. A string such as `~Name` or `#key:default` is a tuple.

### DBTransactions

`client` follows `initialise()` and `stop()` of the client, the master's pool before the
slave's; `via[t]` is the pool a call was given (`getPoolForReadonly`). `pc[t]` follows a
call of `runInTransaction` (or `ping`): acquiring, beginning,
running, ending, settled. A connection runs the statements sent on it in order
(`queue`), and the answer of the server to the oldest one is a step
(`beginResolves`, `endRejects`...). `session` and `fate` are what the server knows:
the open transaction of a connection and what became of each transaction. `held` is
`DBTransaction.connection`. The pool's `conn` states, the drain and the acquire
timeout stand for generic-pool. `MayFail` says what may go wrong in an instance, and
`MayStray` which functions issue queries they do not await. With `"abort"` a query that fails may
abort its transaction (`aborted`), as Postgres does; without, the server keeps the
transaction open, as MySQL does.

### RabbitmqConnection and RabbitmqProducer

`at[r]` follows a run of `connect()`: that of `init()`, or one of a
`closeAllAndScheduleReconnection()` (`Repairs`), which first lets go of the channel, one
await later of the connection (`connectionLetGo`), and then goes round the loop of
`attemptReconnection` (backoff, connecting, connected, opening). `open` and `channels` are
what the broker has, `coming` the events amqplib will call the client's listeners
with. Listeners are on every open connection and channel, so removing them is
removing their events. A connection that is replaced keeps its listeners, as in the
code: `refused` remembers the only ones that can happen to. `gaveUp` says that the
attempts are used up. The client then calls `shutdownFunction`, which stops the context and so closes the
client, unless `exitOnIrrecoverableReconnect` is false: as `close` may come at any time or never, the model
has both.

Two assumptions about amqplib. The answer to `createChannel` and the code that runs on it are
one step. And the events of what has ended are all delivered before a backoff of
at least a second is over, which is what "RabbitMQ Connection Lifecycle.md" (line 41)
has the timer for; their order is open.

`pc[p]` follows a call of `publish`: waiting at the gate, let through by
`channelReady` (`ClientStep`), resumed (`awaitChannelReady`), waiting for drain. A channel that
has died without having been noticed accepts or refuses a message at random. The
strategy of the producer is chosen in the initial state.

### RabbitmqConsumer

One message, with the copies that exist of it (`place[s]`: in the queue, unacknowledged, in
the delay queue, in the dead letter queue). `subscribe` is the end of the consumer's
`init()`; `sub` is the channel the broker delivers on. `ConnectionStep` is a step of
`RabbitmqConnection`: when the channel `sub` ends, the broker takes back what was not
acknowledged, and no subscription replaces it. `handlerResolves` and `handlerRejects` are
`handleMessage` after its await, on `this.channel`, which may be the one that delivered
(`Own`), a later one (`Foreign`: the broker closes it for the unknown tag), one that is
closed and has not told (`Dying`), or none (`Throws`). The header of the message may have a
count, none, or be missing.

### HealthCheck and Application

Time passes in ticks, and a timer that is due fires before the next. Nested groups are
always as far as the manager above them, so the tree is kept as the paths of its
checks. `Application` is `start()`, `stop()` and the signal handlers; the context is the
`Lifecycle` of module `Lifecycle` with the callers `app`, the signals, a failed start
(`failure`) and a RabbitMQ client that gives up (`giveUp`). Plugins run one after the other
and are synchronous but for one (`"async"`: a swagger file is read, New Relic is shut
down, or a plugin of the application waits), so that a phase is two steps: `Before` it and
`After` it. The health of the context is what `ContextReadyHealthCheck` sees of the status.

### WebRequests, LogManager, SqsWorker, OSMetrics

`WebRequests`: `at[r]` is the middleware a request is at; what express runs synchronously
is one step. `Fail` is `next(err)` through both error middlewares to express. Handlers
write, end, resolve and reject as they like. New Relic is taken to be there, so that the router reads the
`basePath` of the document, which it need not have, before its `try` (`routerThrows`): the promise of the middleware
rejects, express does not look at it, and the request stays where it was (`thrown`). `noticed` counts what
`errorMiddleware` reports; the handler of unhandled rejections reports that one and those of plain routes.

`LogManager`: processes come and go (`restart`), environment and directories stay.
`LoggerConfig`, `getEffectiveLevel` and `beSmartOnThePath` are the pure part. The code compares paths and names by
their characters, so that a logger `db` gets `dbase` too, and `/application` begins with the directory `/app`: names
are sequences of pieces, each `/` among them, and words that begin alike are cut where they part. `raised` is an
exception nobody has caught yet, which `uncaughtException` logs.

`SqsWorker`: `delivery[m][n]` is the n-th time the queue handed the message out; `done` of a
delivery counts once. `OSMetrics`: `stat` is what the kernel counts; a reading may fail, and
the counter throws when it is to go down.

`MCParts` chooses one of the parts that do not interact (`part`) at the start of a
behaviour and runs it alone; what is one composition there is seven systems in the
code that share no state.

## 3. Runs

| Run | Instance | Shows |
|---|---|---|
| `lifecycle` | 3 starters, 3 stoppers | at most one `doStart` and `doStop`; an overtaken start fails |
| `context_pairs` | every registration of 2 definitions | the safety of wiring, start and stop; nobody waits in a circle |
| `context_triples` | a chain, a property cycle and a constructor cycle on 3 definitions | every promise settles; starts are bottom-up over two levels; objects implement `StatusChain` |
| `db_failures` | 2 transactions, 1 ping, 2 connections of one pool, all failures, stray queries | exclusive connections, clean hand-over, implements `ConnectionLease` |
| `db_outcomes` | a client with master, slave, both or neither, 1 connection each; a read-write and a readonly transaction; any statement fails, functions await | truthful outcomes, queries inside, exact gauges, every call settles even on a pool with no connection left, `stop()` ends with nothing open unless a connection has leaked |
| `rabbitmq_outages` | 2 connections, 2 attempts, 1 publisher, `close` at any time | the client implements `ReconnectingClient`: one reconnection at a time with all its attempts; a gate that tells the truth, nothing left behind but refused connections, publishers pass |
| `rabbitmq_delivery` | 2 connections, 1 attempt, 1 message in 2 copies, 2 retries | nothing lost, one copy while the channel lives, messages settle while the subscription lasts |
| `application` | 2 signals, the plugins of an `InceptumApp` in the orders that differ, 3 health checks | an orderly shutdown, `/health` tells of a stop, stale means hanging, timers follow the manager, a signal exits |
| `parts` | see below | walks exact; nothing left running, lookups fixed, groups complete; wired as written; requests answered by their controller and accounted for; logging harmless; nothing deleted undone; nothing counted twice |
| `eager_failure` | 2 non-lazy definitions, each a property of the other | an expectation the repository states and the code does not meet (section 6) |
| `blocked_publish`, `routes_collide` | as above | two more expectations the repository states and the code does not meet (section 6) |

Bounds. Three callers of each kind let one call run while a second is refused and a
third comes later. Two definitions show every pairwise dependency, three add
transitivity, sharing and an object that is on no cycle but reaches one; the
theorems cover every number. In `eager_failure` no definition has a constructor argument, so that
nothing but a start function can fail once both are constructed. Two connections let one connection serve two calls in
turn while another is lent; one connection is the pool at its limit. `MaxQueries` = 1:
a second query of the same function meets the same states as the first.
`MaxWaiting` = 1 reaches the refusal of `maxWaitingClients`. Two RabbitMQ connections are
one in hand and one left behind; the safety properties are proved for every number of
connections and attempts. Two `Repairs` let a second reconnection start if the code allowed
it; `blocked_publish` needs one of each. Two copies of a message are all that is ever asked
for: the one the broker took back and the one its handler sent on. In `db_outcomes` both
transactions meet on one connection when there is no slave, and are apart when there is.

`application`: checks with periods of 1 and 2 ticks stale after 2 periods, so that one is due
twice while the other waits; ages stop counting where they no longer matter
(`AgeBound`, `RecentStop`). Time, signals and added checks come in setups of their own: a
started application sees either, the shutdown does not depend on the health.

`parts`: up to 5 references (`MaxReferences`) among 3 definitions for the walks, configured before and between the calls of
`getInstance()`, which is enough for a cycle with a tail to it and another way in, and for a constructor cycle beside one
through properties; four assemblies of contexts
(a family of a parent and two children, a context that is copied, one that is imported
from, and a group filled in a parent and a child that import from each other), each with two definitions; three classes of
which two inherit from the third, with every kind of decorator and static property; two
requests of nine kinds, among them operations whose joined names are equal, with and without a `basePath`; four
streams in three loggers, four files of which two are named like a logger or the current directory without
being below it, two processes, two records; two messages handed out three times
with two retries; two metrics, one of which may go down, three intervals. Each is the
smallest in which two of a kind meet (two controllers, two subclasses, two deliveries,
two processes). Nothing else is bounded.

`CHECK_DEADLOCK FALSE` in every configuration: callers do not have to call, and
when all calls are settled the system is at rest.

Fairness. `ContextWiring`: reactions of settled promises run (the
event loop), and constructors, start and stop functions settle (their documented
contract); nobody has to start, stop or ask. `DBTransactions`: the server answers a
statement it was sent, the caller's function settles, an acquire that is not served
times out (`acquireTimeoutMillis` has a default), creation and destruction of a
connection end, a pool that is being cleared evicts, and the timers of starting pools fire. `RabbitmqProducer`: attempts are answered, timers fire,
events are delivered, reactions run, and a channel under pressure drains or dies; no
connection has to last. `RabbitmqConsumer`: the broker delivers and dead-letters, and handlers
settle. `Application`: what the plugins and the objects of the context are asked for
settles (either way), the reactions of `stop()` run; the checks and timers need not. The other
modules state no liveness and no fairness. No fairness on calls, on
failures, or on a particular outcome of an answer.

## 4. Proofs

For every set of callers (`Lifecycle_proofs`): `LifecycleSafety`,
`OvertakenStartsFail` and `LifecycleImplementsChain`. The invariant adds to the checked
properties how the calls and the status belong together: a running start has seen
STARTING in `emitted`, nothing follows STOPPED, and so on.

For every set of definitions, every pair of dependency graphs and every choice of
lazy objects (`ContextWiring_proofs`): type correctness, `WiringOrder`,
`StartedBottomUp`, `CtorCyclesRefused`, `StartedContextIsReady`,
`StartedObjectsExact`, `CleanShutdown`, `NobodyIsStuck`, and that the context and its objects
implement the status chain. The inductive invariant `IInv` is
`TypeOK`, `PromisesMatchStatus` (the promises of a definition determine its
status), `CallsMatchStatus` (the same for the context and its calls),
`StartedObjectsExact`, `WiringOrder`, `NoCtorCycleBegun` (stronger than
`CtorCyclesRefused`: no promise of a refused definition but a rejected one) and
`ResolvedStartIsReady`. The first two are needed because the properties speak of statuses while the
guards of the code speak of promises: `ReadyIsResolved` translates between them.
`StartedBottomUp` is derived from `WiringOrder` with `ClosureLeast` (a closed set
contains the closure) and `AcyclicBelow` (below an object that reaches no cycle
nothing does). `NobodyIsStuck` is the part of `EveryPromiseSettles` that needs no fairness: no objects wait
for each other in a circle, so that as long as anybody waits some object can move. In a circle every
object would reach a cycle and so would be awaited only until it is constructed; the circle would then be one of
constructor arguments, and those are refused before anything of them begins (`NoCircle`). `AskedBelow` adds
that whatever is waited for has been asked for. This holds for infinitely many definitions as well.

For every number of calls, connections and queries, any division of the connections
between two pools, and every subset of the failures (`DBTransactions_proofs`):
`ExclusiveConnections`, `CleanHandover`, `LeaksOnlyByControl`, `OutcomeIsFate`,
`QueriesInside` and `GaugesExact`. What the code relies on without saying so is what lies in the
queue of a connection: every statement there is of the call that holds the connection and tells where
that call is (`QueuesFit`), at most one answer that moves its call on is awaited (`OneMove`), a
function runs inside its session (`RunsInSession`), and nothing is decided twice (`FatesSettle`).
Queries that a function did not await are the exception, so `QueuesFit` leaves those of `MayStray`
out. Two theorems have a hypothesis, which is the one the run has: `OutcomeIsFate` that no function
rejects with a falsy value (`ResolvedIsDecided` says what remains true with them), and `QueriesInside`
that every function awaits its queries (`OnlyStraysRunOutside` says who else can run outside). The
gauges are sums over sets of connections, hence the assumption that these are finite. `ImplementsLease` follows from the same
invariant: of the steps of pools, servers and functions a caller sees none, and each other step is one of
`ConnectionLease` (`Progress` maps where a call is to what its caller knows). `AnswersCome` is the other half of
`OneMove`: a call that waits for the server has its statement in the queue of the connection it holds, and the
oldest statement of every queue finds its call where an answer can move it on, which is the part
of `CallsSettle` that needs no fairness.

For every set of connections, every number of attempts and any publishers
(`RabbitmqConnection_proofs`, `RabbitmqProducer_proofs`): `OneReconnection`, `GateTruth`,
`NothingLeftBehind`, `ImplementsClient` and `GateIsWatched`. The invariant `IInv` adds what the code never says: while a reconnection runs
the gate is shut and there is
no channel (`GateShut`), every channel event belongs to the channel in hand
(`ChannelInHand`), `init()` can only succeed as long as no event has come
(`InitMaySucceed`: otherwise its `reconnecting = false` would end a reconnection
that is running), and the connection of a failed attempt is over or has been refused a channel
(`BetweenAttempts`), so that replacing it loses only that kind. Publishers read the client
and change nothing of it, so that theirs are stuttering steps. `ImplementsClient` maps the client to a
phase (`Phase`: ready, mending, given up, failed to start or starting), the attempts of the reconnection that runs
(`Attempts`) and whether its channel is open (`Usable`); every step is one of `ReconnectingClient` or is not seen
(`StepSeen`). It needs two more facts: attempts are counted from the first to the last of a
reconnection and of no other (`Counted`), and a client that has started is ready, mends or has given up, and one
that has given up before it started does not start any more (`Attentive`). From these also follows `GateIsWatched`: a
publisher waits only at a gate that is shut, of a client that has yet to start, mends, has given
up or failed to start, which is the part of `PublishersPass` that needs no fairness.

For a consumer over the same client, with any number of copies and retries
(`RabbitmqConsumer_proofs`): `NeverLost` and `OneCopy`. The invariant adds that no copy has counted more
retries than the handler has failed (`CountsFailures`), that the subscription delivers on the channel in
hand until that closes (`SubscribedInHand`, which is where the invariant of the client is needed: a
channel that is replaced has closed before), and that until then there is one copy and what is being
handled is not acknowledged (`HandledOnce`).

For any plugins, signals, checks, names and periods (`Application_proofs`): that the context of an
application is a `Lifecycle` object (`ContextIsALifecycle`: every step of the application is a
step of `Lifecycle` or leaves the context alone), so that the theorems about those apply;
`OrderlyShutdown`, `TimersFollowManager`, `StaleMeansHanging` and `HealthTellsOfStop`. `HealthIInv` says of each
check how timer, flag, result and age belong together (`CheckOK`: between two runs that do not overlap the
result is never older than the timer), and of the group which timers run at each point of the manager's
life (`GroupOK`). `ProcessIInv` relates the phases of `start()` (`StartOK`: who listens has been made
by a plugin of either half, behind a context that was STARTED) with the progress of each `stop()`
(`StopOK`: after the first half of `willStop` only servers of the second half listen). Hypotheses:
`staleNumFails` is not 0 (the default of the code is 2, and no check gives another; with 0 a result is stale
at once), and for `HealthTellsOfStop` that the check of the context keeps its name (`ContextCheckIsKept`: an
application that adds a check under `context` takes it out of the group).

For any messages, metrics, requests, loggers and files (`Parts_proofs`): `DeletedWhenDone`,
`CountsNothingTwice`, `AnsweredOnceSettled`, `ServedByItsController`, `RequestsAccountedFor` and
`LoggingIsHarmless`, each with the invariant of its part: runs are deliveries (`RunsAreDeliveries`), a
counter is not ahead of the last reading (`NotAhead`), what is known of a request at each place
(`RequestOK`, `GaugeIsTrue`, `ThrownOK`) and of the cache (`CacheOK`), which directories and streams there can be (`DirsOK`,
`StreamsOK`). The last theorem has the hypothesis that a logger named ROOT is configured, without which
every process ends as it loads the module.

For any contexts with parents, definitions and registrations (`Parts_proofs` as well):
`NothingLeftRunning`, `LookupsFixed` and `GroupsComplete` of `ContextRegistry`. The invariant says how the three places
that know of a definition agree: a context that listens to one has it in its map or has had it
(`Heard`), `startedObjects` holds only what runs and is listened to (`HeldRun`), and what runs is
held until its context stops and awaited from then on (`RunningHeld`). What an inspected start has
begun keeps its parent out of NOT_STARTED (`StartsOrdered`), which is what refuses further
definitions there. `GroupsComplete` needs more (`GroupIInv`): a parameter that is resolved belongs to what the
application wrote, or to a definition that no longer waits (`Owned`), and from the inspection on the names
of the members are in the group and whoever is wired to it has the parameter (`GroupsKnown`). Its hypothesis
`CopiedOrImported` is not for the prover's sake: where a context is both copied and imported
from, TLC finds a copy that shares the resolved group of another context. The assumption
`RegistryAssumption` fixes the depth of the model, a context and its parent, that the copy made by `clone()` is a
new context, and that definitions and parameters are finite in number.

For any hierarchy of classes and whatever they write (`Parts_proofs` again): `WiredAsWritten` of
`Decorators`. The invariant rests on the order in which classes are declared: when a class first gets
metadata of its own, none of its superclasses has any and none of its subclasses is declared
(`HeirsLater`), so that no class with metadata is ever an ancestor of another (`HoldersApart`), and
the nearest holder that an inspector finds is the only one and the one that every decorator wrote to
(`DecoratedHeld`). What it holds is what its heirs have written, all of it (`KeysHeld`) and nothing else
(`KeysOfHeirs`, `MethodsOfHeirs`); `Progress` says which of that each inspector has added. `Ancestors` is the
closure of `Super`, so that what the proof needs of it (`AncestorsLinear`, `AncestorsEarlier`) is proved.
The assumptions are `DeclarationOrder`, which JavaScript enforces, and `WrittenInTheBody`: a method that is
decorated is in the body of its class, and a static property has finitely many keys.

The assumptions are the named ones in the modules and nothing else: the shape of the registrations
(`ConfigsAssumption`), that model values are distinct, bounds are natural numbers and what is counted is
finite (`RabbitmqAssumption`, `ConsumerAssumption`, `DBAssumption`, `SqsBounds`, `MetricBounds`,
`RequestsAreFinite`), who calls the context (`ApplicationAssumption`), that
periods are not 0 and the check of the context is neither a dependency nor run immediately, as its class has
it (`HealthAssumption`), and that a configuration of loggers names streams it has, with one file at most
in a logger (`LogBounds`), with `RegistryAssumption` and the two of `Decorators` above. TLC evaluates them in every run, and the inductive invariants were checked with
TLC on the instances of the runs before they were proved.

For any definitions, finite in number or not, and any references (`Parts_proofs`): `WalksExact` of
`CircularityCheck`, which justifies `ReachesCycle` and `Closure` in the proofs about `ContextWiring`. `WalkInv` is the
depth-first search: each definition on the trace is referred to by the one before it, and whatever the walk has
come to and no longer has before it reaches no cycle, so that a walk that ends has found none and one that
meets its own trace has found a set in which everybody has a successor. `CallsInv` says of the calls of `getInstance()` that they
are a chain along constructor arguments, that all but the innermost have passed their first walk, and that the
arguments they are past have begun: this is what makes re-entry impossible, since a
definition that is called again while it runs would be on a cycle its own walk has excluded. `PromiseInv` has
the promises: a definition that has begun has no constructor cycle below it and everything below it has begun,
and configuring another one adds no reference to it.

Only model-checked: liveness (`CallsSettle`, `EveryPromiseSettles`, `StopEndsUnlessLeaked`,
`PublishersPass`, `MessagesSettle`, `SignalExits`), which is out of the prover's reach; of three of them the part that
needs no fairness is proved (`NobodyIsStuck`, `GateIsWatched`, `AnswersCome`). Every invariant, every action
property and every refinement of the runs is a theorem.

## 5. Not modelled

`components` in `PROJECT.json` says of each part what is left out. In short:

- The loops of `MysqlPlugin`, `PostgresPlugin`, `RabbitmqPlugin` and `SqsWorkerPlugin` that turn keys of
  the configuration into definitions: sequential, once, before the start. What they
  register is a definition like any other.
- One request per call and no state between them: `SqsClient`, `RabbitmqMgtHttpApi` (the
  management API), `ElasticsearchClient`, the New Relic utilities.
- Reading `/proc/stat` and `/proc/loadavg`, formatting of records and errors, the
  constructors of the individual log streams, `ContentNegotiationMiddleware` (parsing a header),
  the configuration tree, issuing and verifying a token: conversions of data, which a unit
  test reaches as well as a model does.
- Reading and checking a swagger document, the body parsers and security headers: third-party
  code.
- `TestUtil`, and the programs in `itest`.

In the models but without a property, as nothing in the repository says what is right: a copy made
by `clone()` shares the parameters with their resolved definitions (`ContextRegistry`; `GroupsComplete`
says nothing of a context that is both copied and imported from); a client whose slave's pool fails to start leaves the master's running (`DBTransactions`);
objects of a context are stopped at once and in no order (`ContextWiring`).

Left open: an unknown name in the static properties is noticed only after the construction has
begun (`BaseSingletonDefinition.ts:287`), which the wiring model leaves to registration; whether
amqplib can deliver an event between its answer to `createChannel` and the code that waits for it
(`RabbitmqClient.ts:93`), which the models exclude.

## 6. What the checks found

With a run of their own, as the repository states otherwise:

- A non-lazy object that can reach a dependency cycle may fail to start without
  anybody noticing: the context is STARTED (`eager_failure`).
- A publisher under the BLOCK strategy waits for ever once it has met back pressure:
  the drain listener throws before it resolves (`blocked_publish`).
- Routes of two controllers are injected under the same name and both end up at one of them
  (`routes_collide`).

Behaviours the models have, and the properties allow for, as nothing in the repository excludes them (the
`note` of a hazard in `PROJECT.json` says so where it concerns the hazard's own case):

- Objects that are still starting when a failed start stops the context come up
  later and are never stopped (`CleanShutdown` is about contexts that had started).
- A COMMIT, ROLLBACK or BEGIN that fails leaks its connection, and stopping a pool
  that has leaked one never ends; a slave's pool is then not stopped at all
  (`StopEndsUnlessLeaked` excepts a leak).
- A function that rejects with a falsy value is committed, as the error mark is a truth value
  (`MayFail` of `db_outcomes` leaves `"falsy"` out). A Postgres function that swallows the failure
  of a query is told that its transaction was committed, though the server has rolled it back (`OutcomeIsFate`
  excepts it).
- `close()` does not end a reconnection that is under way: the closed client connects again and
  stays connected. A connection on which `createChannel` was refused is never closed, and its later
  end closes the healthy one (`NothingLeftBehind` excepts it).
- A consumer does not subscribe again after a reconnection (`MessagesSettle` is about a
  subscription that lasts), and a message whose acknowledgement meets another channel is
  delivered again (`OneCopy` is about a channel that lives).
- A directory for a log file is made with its last part in the current directory, so that a second
  process that needs it throws; streams are used after they have been ended
  (`LoggingIsHarmless` says which of the two can end a process, and when).
- Without a `basePath` in the document, and with New Relic, a request that the document knows is not answered
  (`AnsweredOnceSettled` excepts those at which the router has thrown).
- A request is served by the handler of another whose joined names are equal (`ServedByItsController`
  excepts it), and a number of the kernel that goes down makes the counter run ahead (`CountsNothingTwice`).
- A query that is not awaited may run outside its transaction (`QueriesInside` is about functions that await).
- When a RabbitMQ client has used up its attempts and is configured not to exit, a publisher at the
  gate waits for ever (`PublishersPass` excepts a client that has given up).
- A health check that is added late or replaced may keep its timer (`TimersFollowManager` excepts both).
- An object asked for after the stop, or whose definition another took the name of, is not stopped
  (`NothingLeftRunning` excepts both); over a cycle an object may start before what it uses (`StartedBottomUp` is
  about objects that reach none).
- A stop that throws, or that comes upon a context which is not STARTED, keeps the process
  (`SignalExits` states the cases).

Metadata written by the decorators of a subclass goes to its superclass and from there to its
siblings (`WiredAsWritten` is stated with that sharing).

Seen while reading, and not followed by a property: a default given to `@AutowireConfig` is kept
and passed on, but `Context.getConfig` (`ioc/Context.ts:248` says so) throws for a missing key
before the default is looked at (`BaseSingletonDefinition.ts:434`); the candidates for a logger
are sorted by a length they do not have (`LogManager.ts:300`), so that the first one of the
configuration is chosen instead of the most specific.

## 7. Plan

Done, in this order, the most important behaviour first: `Lifecycle` and its proofs;
`ContextWiring` with `DependencyGraph` and `CircularityCheck`, and its proofs;
`DBTransactions`; `RabbitmqConnection` with `RabbitmqProducer`, and its proofs;
`RabbitmqConsumer` over the same connection; `HealthCheck`; `Application` over `Lifecycle` and
`HealthCheck`; `ContextRegistry` and `Decorators`; the two pools of `DBTransactions` and its Postgres
variant; `WebRequests`, `LogManager`, `SqsWorker` and `OSMetrics`; the proofs about `DBTransactions`, `RabbitmqConsumer`, `HealthCheck` and
`Application`, about these four, about `ContextRegistry`, about `Decorators` and about `CircularityCheck`. The abstract
specifications are `StatusChain`, `ConnectionLease` and `ReconnectingClient`.
