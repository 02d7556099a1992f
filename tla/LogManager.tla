----------------------------- MODULE LogManager -----------------------------
(* The LogManager of a process: which configured logger a file gets, its     *)
(* streams and their cache, the directories of its files, what happens to    *)
(* the streams when a context has stopped, and the handlers of the process's *)
(* events, which log too.  Processes come and go; the file system stays.     *)
(*                                                                           *)
(* A file and a logger are named by a sequence of pieces, among them each    *)
(* "/" and the extension.  Words that begin alike are cut where they part,   *)
(* so that one name begins with the characters of another when it begins     *)
(* with its pieces: "db/Pool" is <<"db", "/", "Pool">>, and with a "db"      *)
(* about, "dbase" is <<"db", "ase">>.  A directory is absolute, and the      *)
(* sequence of its parts.                                                    *)
EXTENDS Naturals, Sequences, FiniteSets

CONSTANTS
  Loggers,     \* logging.loggers: sequence of [name, streams], where streams
               \* gives the level of each stream
  StreamType,  \* StreamType[s]: the type of logging.streams.s
  Directory,   \* Directory[s]: where a stream of type file is to write
  Cwd,         \* the directory the processes run in
  Files,       \* bound: the files that ask for a logger
  MayExport,   \* bound: the overrides the environment may have
  FirstDirs,   \* bound: what directories there may be, apart from the Cwd
  MaxRecords, MaxProcesses  \* bounds

(* Names are not empty, every stream is configured, and a logger has one of  *)
(* type file at most; no directory is without its parents.                   *)
ASSUME LogBounds ==
  /\ Cwd \in Seq(STRING) /\ DOMAIN Loggers = 1..Len(Loggers) /\ Len(Loggers) \in Nat
  /\ \A i \in DOMAIN Loggers :
       /\ Loggers[i].name \in Seq(STRING) /\ Loggers[i].name # <<>>
       /\ DOMAIN Loggers[i].streams \subseteq DOMAIN StreamType
       /\ \A s, t \in DOMAIN Loggers[i].streams : StreamType[s] = "file" /\ StreamType[t] = "file" => s = t
  /\ \A s \in DOMAIN StreamType : StreamType[s] = "file" => Directory[s] \in Seq(STRING)
  /\ \A D \in FirstDirs : \A d \in D : d \in Seq(STRING) /\ \A i \in 1..Len(d) : SubSeq(d, 1, i) \in D

VARIABLES
  env,        \* LOG_* variables: levels of <<logger>> and <<logger, stream>>
  dirs,       \* the directories that exist
  process,    \* "loading", "running" or "exited"
  streamCache,\* the streams that have been made: "open" or "ended"
  logger,     \* logger[f]: the streams and levels of the logger of f
  raised,     \* an exception nobody has caught yet
  shutdowns,  \* timers of scheduleShutdown()
  records, processes \* how many records and processes there have been

logVars == <<env, dirs, process, streamCache, logger, raised, shutdowns, records, processes>>

Severity == [TRACE |-> 10, DEBUG |-> 20, INFO |-> 30, WARN |-> 40, ERROR |-> 50, FATAL |-> 60]

StartsWith(p, q) == Len(q) <= Len(p) /\ SubSeq(p, 1, Len(q)) = q
From(p, i) == SubSeq(p, i, Len(p))

(* process.cwd(), each part of which is one piece.                           *)
CwdPath == [i \in 1..(2 * Len(Cwd)) |-> IF i % 2 = 1 THEN "/" ELSE Cwd[i \div 2]]

LogInit ==
  /\ env \in MayExport
  /\ dirs \in {{SubSeq(Cwd, 1, i) : i \in 1..Len(Cwd)} \cup D : D \in FirstDirs}
  /\ process = "loading"
  /\ streamCache = <<>>
  /\ logger = <<>>
  /\ raised = FALSE
  /\ shutdowns = 0
  /\ records = 0 /\ processes = 1

-----------------------------------------------------------------------------
(* Which logger a file gets                                                  *)

removeExtension(p) == IF p[Len(p)] \in {".js", ".ts"} THEN SubSeq(p, 1, Len(p) - 1) ELSE p

(* What comes after the first `/src/`, or else the first `/dist/`, or else   *)
(* the characters of the current directory and a separator, if there is one. *)
beSmartOnThePath(p) ==
  LET found(word) == {i \in 1..(Len(p) - 2) : SubSeq(p, i, i + 2) = <<"/", word, "/">>}
      after(word) == From(p, 3 + CHOOSE i \in found(word) : \A j \in found(word) : i <= j)
      fromCwd == From(p, Len(CwdPath) + 1)
  IN CASE found("src") # {}                            -> after("src")
       [] found("src") = {} /\ found("dist") # {}      -> after("dist")
       [] found("src") \cup found("dist") = {} /\ StartsWith(p, CwdPath) ->
            IF StartsWith(fromCwd, <<"/">>) THEN Tail(fromCwd) ELSE fromCwd
       [] OTHER                                        -> p

LoggerPath(file) ==
  LET p == removeExtension(file) IN IF p[1] = "/" THEN beSmartOnThePath(p) ELSE p

(* The first that fits: the comparison of the sort looks at the lengths of   *)
(* objects, which have none.  ROOT only if no name fits; {} if there is no   *)
(* ROOT either, which makes getLogger() throw.                               *)
LoggerConfig(path) ==
  LET fits == {i \in DOMAIN Loggers : StartsWith(path, Loggers[i].name)}
      root == {i \in DOMAIN Loggers : Loggers[i].name = <<"ROOT">>}
      candidates == IF fits # {} THEN fits ELSE root
  IN {Loggers[i] : i \in {k \in candidates : \A j \in candidates : k <= j}}

(* The expressions meant to clean the names are strings, and match nothing:  *)
(* a variable is found by the names as they are.                             *)
getEffectiveLevel(config, stream) ==
  CASE <<config.name, stream>> \in DOMAIN env -> env[<<config.name, stream>>]
    [] <<config.name, stream>> \notin DOMAIN env /\ <<config.name>> \in DOMAIN env
         -> env[<<config.name>>]
    [] OTHER -> config.streams[stream]

StreamsOf(config) ==
  {s \in DOMAIN config.streams : getEffectiveLevel(config, s) # "OFF"}

-----------------------------------------------------------------------------
(* Streams                                                                   *)

(* mkdirpSync() makes each part that is missing, from the top, but in the    *)
(* current directory; mkdirSync() throws on one that is there.               *)
MissingParts(path) == {i \in DOMAIN path : SubSeq(path, 1, i) \notin dirs}
made(path, i) == Append(Cwd, path[i])
mkdirpThrows(path) ==
  {i \in MissingParts(path) :
     \/ made(path, i) \in dirs
     \/ \E j \in MissingParts(path) : j < i /\ path[j] = path[i]}
mkdirpSync(path) ==
  {made(path, i) : i \in {k \in MissingParts(path) : \A j \in mkdirpThrows(path) : k < j}}

NeedsDirectory(s) == s \notin DOMAIN streamCache /\ StreamType[s] = "file"
Throwing(S) == {s \in S : NeedsDirectory(s) /\ mkdirpThrows(Directory[s]) # {}}

(* getUnderlyingStream() for the streams of a logger, M of which are reached *)
(* before one that throws.                                                   *)
getUnderlyingStreams(S, M) ==
  /\ dirs' = dirs \cup UNION {mkdirpSync(Directory[s]) : s \in {t \in S : NeedsDirectory(t)}}
  /\ streamCache' = [s \in DOMAIN streamCache \cup M |->
                       IF s \in DOMAIN streamCache THEN streamCache[s] ELSE "open"]

(* getLogger().  What it throws ends a process that loads this module, and   *)
(* is an exception like others later, as is the error of a file whose        *)
(* directory is not there after all.                                         *)
getLogger(file) ==
  LET config == LoggerConfig(LoggerPath(file))
      S == UNION {StreamsOf(c) : c \in config}
      throws == config = {} \/ Throwing(S) # {}
      unopened == {s \in S : NeedsDirectory(s) /\ Directory[s] \notin dirs \cup mkdirpSync(Directory[s])}
  IN /\ process # "exited" /\ ~raised /\ file \notin DOMAIN logger
     /\ (process = "loading" <=> file = <<"ROOT">>)
     /\ \E M \in IF throws THEN SUBSET (S \ Throwing(S)) ELSE {S} : getUnderlyingStreams(S, M)
     /\ process' = IF throws /\ process = "loading" THEN "exited" ELSE "running"
     /\ logger' = [f \in DOMAIN logger \cup IF throws THEN {} ELSE {file} |->
          IF f # file THEN logger[f]
          ELSE LET c == CHOOSE x \in config : TRUE
               IN [s \in S |-> getEffectiveLevel(c, s)]]
     /\ raised' \in IF process' = "running" /\ (throws \/ unopened # {}) THEN BOOLEAN ELSE {FALSE}
     /\ UNCHANGED <<env, shutdowns, records, processes>>

-----------------------------------------------------------------------------
(* Records                                                                   *)

(* A record of this level would be written to a stream that has ended.       *)
WritesAfterEnd(file, level) ==
  \E s \in DOMAIN logger[file] :
    Severity[logger[file][s]] <= Severity[level] /\ streamCache[s] = "ended"

(* A record of the program, whose exceptions it may catch; and the handlers  *)
(* of unhandledRejection and warning.                                        *)
logs(file, level) ==
  /\ process = "running" /\ ~raised /\ file \in DOMAIN logger
  /\ records < MaxRecords /\ records' = records + 1
  /\ raised' \in IF WritesAfterEnd(file, level) THEN BOOLEAN ELSE {FALSE}
  /\ UNCHANGED <<env, dirs, process, streamCache, logger, shutdowns, processes>>

unhandledRejection ==
  /\ process = "running" /\ ~raised /\ records < MaxRecords /\ records' = records + 1
  /\ raised' = WritesAfterEnd(<<"ROOT">>, "FATAL")
  /\ UNCHANGED <<env, dirs, process, streamCache, logger, shutdowns, processes>>

warning ==
  /\ process = "running" /\ ~raised /\ records < MaxRecords /\ records' = records + 1
  /\ raised' = WritesAfterEnd(<<"ROOT">>, "WARN")
  /\ UNCHANGED <<env, dirs, process, streamCache, logger, shutdowns, processes>>

(* The handler logs, and the process goes on; an exception of the handler    *)
(* ends it.                                                                  *)
uncaughtException ==
  /\ process = "running" /\ raised
  /\ raised' = FALSE
  /\ process' = IF WritesAfterEnd(<<"ROOT">>, "FATAL") THEN "exited" ELSE "running"
  /\ UNCHANGED <<env, dirs, streamCache, logger, shutdowns, records, processes>>

-----------------------------------------------------------------------------
(* A context of the process has stopped, and a second later the streams are  *)
(* closed: those of type redis, which stay in the cache.                     *)
scheduleShutdown ==
  /\ process = "running" /\ shutdowns = 0 /\ shutdowns' = 1
  /\ UNCHANGED <<env, dirs, process, streamCache, logger, raised, records, processes>>

(* Mutant: every stream is ended.                                            *)
closeEveryStream ==
  /\ process = "running" /\ ~raised /\ shutdowns = 1 /\ shutdowns' = 0
  /\ streamCache' = [s \in DOMAIN streamCache |-> "ended"]
  /\ UNCHANGED <<env, dirs, process, logger, raised, records, processes>>

closeStreams ==
  /\ process = "running" /\ ~raised /\ shutdowns = 1 /\ shutdowns' = 0
  /\ streamCache' = [s \in DOMAIN streamCache |->
                       IF StreamType[s] = "redis" THEN "ended" ELSE streamCache[s]]
  /\ UNCHANGED <<env, dirs, process, logger, raised, records, processes>>

(* The process ends, by itself or not, and is started again.                 *)
restart ==
  /\ processes < MaxProcesses /\ processes' = processes + 1
  /\ process' = "loading" /\ streamCache' = <<>> /\ logger' = <<>>
  /\ raised' = FALSE /\ shutdowns' = 0
  /\ UNCHANGED <<env, dirs, records>>

LogNext ==
  \/ \E f \in Files : getLogger(f) \/ \E level \in DOMAIN Severity : logs(f, level)
  \/ unhandledRejection \/ warning \/ uncaughtException
  \/ scheduleShutdown \/ closeStreams \/ restart

-----------------------------------------------------------------------------
(* Logging ends a process for two reasons only.  ROOT logs to redis and a    *)
(* context has stopped: the handler of an uncaught exception then meets one  *)
(* of its own.  Or the directory of a log file is missing, and the current   *)
(* directory has one of the name of a missing part: mkdirpSync() has put it  *)
(* there in a process before (closeStreams(), mkdirpSync()).                 *)
LoggingIsHarmless ==
  process = "exited" =>
    \/ \E i \in DOMAIN Loggers, s \in DOMAIN streamCache :
         /\ Loggers[i].name = <<"ROOT">> /\ s \in StreamsOf(Loggers[i])
         /\ StreamType[s] = "redis" /\ streamCache[s] = "ended"
    \/ \E s \in DOMAIN StreamType :
         /\ StreamType[s] = "file" /\ Directory[s] \notin dirs
         /\ \E i \in MissingParts(Directory[s]) : Append(Cwd, Directory[s][i]) \in dirs
=============================================================================
