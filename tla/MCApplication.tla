--------------------------- MODULE MCApplication ---------------------------
(* Two signals, the plugins of an InceptumApp with a web server in the       *)
(* orders that differ, and three health checks: of the context, of a         *)
(* database (a dotted name), and one that the application adds.              *)
EXTENDS Application

MCStarters == {"app"}
MCStoppers == {"sigint", "sigterm", "failure", "giveUp"}

MCAutowired == [context |-> <<"context">>, mysql |-> <<"mysql", "main", "master">>]
MCAddedPaths == {<<"mysql">>, <<"mysql", "main">>, <<"context", "more">>, <<"other">>}
MCSleepMillis == [context |-> 1, mysql |-> 2, other |-> 1]

MCSetups ==
  {[options |-> {"admin", "metrics"}, use |-> <<"async", "web">>, comes |-> c] :
      c \in {"signals", "time", "checks"}}
  \cup {[options |-> {}, use |-> u, comes |-> "signals"] :
           u \in {<<"web", "async", "admin", "metrics">>, <<"async">>}}
=============================================================================
