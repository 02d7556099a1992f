------------------------------ MODULE MCParts ------------------------------
(* Instances for TLC of the parts that stand by themselves.  A behaviour is  *)
(* one of the part chosen at its start; the others stay in a first state.    *)
EXTENDS CircularityCheck, ContextRegistry, Decorators, WebRequests, LogManager, SqsWorker, OSMetrics

VARIABLE part
Parts == {"circularity", "registry", "decorators", "web", "log", "sqs", "metrics"}

-----------------------------------------------------------------------------
(* ContextRegistry: two children of one parent, a context that is copied, one *)
(* that is imported from, and a group filled by both.                         *)
Nothing == [type |-> "nothing", target |-> "nothing"]
Ref(n) == [type |-> "ref", target |-> n]
MCBlueprint ==
  [svc |-> [name |-> "svc", clazz |-> "Svc", params |-> <<>>, decorated |-> FALSE, lazy |-> TRUE,
            group |-> "nothing", wired |-> Nothing],
   alt |-> [name |-> "svc", clazz |-> "Svc", params |-> <<>>, decorated |-> TRUE, lazy |-> TRUE,
            group |-> "g", wired |-> Nothing],
   ctl |-> [name |-> "ctl", clazz |-> "Ctl", params |-> <<Ref("svc")>>, decorated |-> FALSE,
            lazy |-> FALSE, group |-> "nothing", wired |-> Nothing],
   hub |-> [name |-> "hub", clazz |-> "Hub", params |-> <<>>, decorated |-> TRUE, lazy |-> FALSE,
            group |-> "nothing", wired |-> [type |-> "group", target |-> "g"]]]
Family == [parents |-> [app |-> "none", kid |-> "app", son |-> "app"],
           blueprints |-> {"svc", "ctl"}, may |-> {}]
Cloned == [parents |-> [app |-> "none"], blueprints |-> {"svc", "ctl"}, may |-> {"clone"}]
Imported == [parents |-> [app |-> "none", lib |-> "none"],
             blueprints |-> {"svc", "alt"}, may |-> {"import"}]
Grouped == [parents |-> [app |-> "none", kid |-> "app"], blueprints |-> {"alt", "hub"}, may |-> {"import"}]
MCAssemblies == {Family, Cloned, Imported, Grouped}

(* Decorators: two classes that inherit from one, with a member of each kind. *)
MCOrder == <<"Base", "Left", "Right">>
MCSuper == [Base |-> "Base", Left |-> "Base", Right |-> "Base"]
MCMethods == [Base |-> {"open", "list"}, Left |-> {"begin", "show"}, Right |-> {"show", "list"}]
Wire(k, what) == [kind |-> "Autowire", key |-> k, what |-> what]
MCMayWrite ==
  [Base |-> {Wire("repo", <<"~", "Repo">>), [kind |-> "StartMethod", key |-> "open"],
             [kind |-> "Route", verb |-> "get", key |-> "list"]},
   Left |-> {Wire("peers", <<"%", "g">>), [kind |-> "StartMethod", key |-> "begin"],
             [kind |-> "Lazy", lazy |-> FALSE], [kind |-> "Route", verb |-> "get", key |-> "show"]},
   Right |-> {[kind |-> "AutowireConfig", key |-> "limit", name |-> "k", default |-> "dflt"],
              [kind |-> "StopMethod", key |-> "list"], [kind |-> "RegisterInGroup", group |-> "g"]}]
MCMayKeep ==
  [Base |-> {<<>>, [startMethod |-> "open"]},
   Left |-> {<<>>, [autowire |-> [conn |-> <<"", "Conn">>, max |-> <<"#", "k", "9">>],
                    constructorArgs |-> <<<<"#", "k", "9">>, <<"~", "Repo">>>>]},
   Right |-> {<<>>, [lazy |-> FALSE, routes |-> <<[verb |-> "get", methodName |-> "show"]>>]}]

(* WebRequests: names that join to the same key, a document that knows less  *)
(* or more, and plain routes.                                                *)
K(known, preflight, security, controller, operation, plain) ==
  [known |-> known, preflight |-> preflight, security |-> security,
   controller |-> controller, operation |-> operation, route |-> plain]
MCKinds ==
  {K("operation", FALSE, "jwt", <<"user">>, <<"list">>, FALSE),
   K("operation", FALSE, "none", <<"user">>, <<"admin", "list">>, FALSE),
   K("operation", FALSE, "apiKey", <<"user", "admin">>, <<"list">>, FALSE),
   K("operation", FALSE, "none", <<"nobody">>, <<"list">>, FALSE),
   K("operation", FALSE, "none", <<>>, <<>>, TRUE),
   K("path", TRUE, "none", <<"user">>, <<"list">>, FALSE),
   K("path", FALSE, "none", <<"user">>, <<"list">>, TRUE),
   K("nothing", FALSE, "none", <<>>, <<>>, TRUE),
   K("nothing", FALSE, "none", <<>>, <<>>, FALSE)}
MCControllers ==
  [c \in {<<"user">>, <<"user", "admin">>} |->
     IF c = <<"user">> THEN {<<"list">>, <<"admin", "list">>} ELSE {<<"list">>}]

(* LogManager: every type of stream, a directory of which none, some or all  *)
(* is there, and names that begin with those of a logger or of the current   *)
(* directory without being below them.                                       *)
Root == <<"ROOT">>
MCLoggers ==
  <<[name |-> Root, streams |-> [console |-> "DEBUG", main |-> "INFO", queue |-> "WARN"]],
    [name |-> <<"db">>, streams |-> [console |-> "INFO", audit |-> "WARN"]],
    [name |-> <<"db", "/", "Pool">>, streams |-> [queue |-> "ERROR"]]>>
MCStreamType == [console |-> "console", main |-> "file", audit |-> "file", queue |-> "redis"]
MCDirectory == [main |-> <<"var", "log">>, audit |-> <<"var", "log", "db">>]
MCCwd == <<"app">>
MCFiles ==
  {Root, <<"/", "app", "/", "src", "/", "db", "/", "Pool", ".ts">>,
   <<"/", "app", "/", "dist", "/", "db", "ase", ".js">>,
   <<"/", "app", "lication", "/", "web", ".js">>}
MCMayExport == {[k \in S |-> "OFF"] : S \in SUBSET {<<Root, "queue">>, <<<<"db">>>>}}
MCFirstDirs ==
  {{<<"var">>}, {<<"var">>, <<"var", "log">>}, {<<"var">>, <<"var", "log">>, <<"var", "log", "db">>}}

MCMetricNames == <<"irq", "iowait">>

-----------------------------------------------------------------------------
partVars == <<part, circularityVars, registryVars, decoratorVars, webVars, logVars, sqsVars, metricVars>>

First(S) == CHOOSE x \in S : TRUE
Init ==
  /\ part \in Parts
  /\ CircularityInit /\ RegistryInit /\ DecoratorInit /\ WebInit /\ LogInit /\ SqsInit
  /\ registerOSMetrics
  /\ part # "registry" => assembly = Family
  /\ part # "decorators" => statics = [c \in Classes |-> <<>>]
  /\ part # "web" => kind = [r \in Request |-> First(MCKinds)] /\ configured = {}
  /\ part # "log" => env = <<>> /\ dirs = {MCCwd, <<"var">>}
  /\ part # "metrics" => lastMetrics = <<>>

Circularity == part = "circularity" /\ CircularityNext
  /\ UNCHANGED <<part, registryVars, decoratorVars, webVars, logVars, sqsVars, metricVars>>
Registry == part = "registry" /\ RegistryNext
  /\ UNCHANGED <<part, circularityVars, decoratorVars, webVars, logVars, sqsVars, metricVars>>
Decoration == part = "decorators" /\ DecoratorNext
  /\ UNCHANGED <<part, circularityVars, registryVars, webVars, logVars, sqsVars, metricVars>>
Web == part = "web" /\ WebNext
  /\ UNCHANGED <<part, circularityVars, registryVars, decoratorVars, logVars, sqsVars, metricVars>>
Log == part = "log" /\ LogNext
  /\ UNCHANGED <<part, circularityVars, registryVars, decoratorVars, webVars, sqsVars, metricVars>>
Sqs == part = "sqs" /\ SqsNext
  /\ UNCHANGED <<part, circularityVars, registryVars, decoratorVars, webVars, logVars, metricVars>>
Metrics == part = "metrics" /\ MetricsNext
  /\ UNCHANGED <<part, circularityVars, registryVars, decoratorVars, webVars, logVars, sqsVars>>

Next == Circularity \/ Registry \/ Decoration \/ Web \/ Log \/ Sqs \/ Metrics
Spec == Init /\ [][Next]_partVars
=============================================================================
