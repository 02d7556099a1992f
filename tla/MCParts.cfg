SPECIFICATION Spec
CONSTANTS
  Defs = {d1, d2, d3}
  MaxReferences = 5
  Blueprint <- MCBlueprint
  twin = "twin"
  Assemblies <- MCAssemblies
  MaxGets = 1
  Order <- MCOrder
  Super <- MCSuper
  Methods <- MCMethods
  MayWrite <- MCMayWrite
  MayKeep <- MCMayKeep
  Request = {r1, r2}
  Kinds <- MCKinds
  Controllers <- MCControllers
  Loggers <- MCLoggers
  StreamType <- MCStreamType
  Directory <- MCDirectory
  Cwd <- MCCwd
  Files <- MCFiles
  MayExport <- MCMayExport
  FirstDirs <- MCFirstDirs
  MaxRecords = 2
  MaxProcesses = 2
  Message = {m1, m2}
  maxRetries = 2
  MaxReceives = 3
  CPUOSMetricNames <- MCMetricNames
  MayShrink = {"iowait"}
  MaxValue = 2
  MaxIntervals = 3
INVARIANTS
  NothingLeftRunning
  GroupsComplete
  WiredAsWritten
  AnsweredOnceSettled
  ServedByItsController
  RequestsAccountedFor
  LoggingIsHarmless
  DeletedWhenDone
  CountsNothingTwice
PROPERTIES
  LookupsFixed
  WalksExact
\* every part comes to its end
CHECK_DEADLOCK FALSE
