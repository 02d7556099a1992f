SPECIFICATION Spec
CONSTANTS
  Defs = {d1, d2, d3}
  MaxReferences = 1
  Blueprint <- MCBlueprint
  twin = "twin"
  Assemblies <- MCAssemblies
  MaxGets = 0
  Order <- MCOrder
  Super <- MCSuper
  Methods <- MCMethods
  MayWrite <- MCMayWrite
  MayKeep <- MCMayKeep
  Request = {r1}
  Kinds <- MCKinds
  Controllers <- MCControllers
  Loggers <- MCLoggers
  StreamType <- MCStreamType
  Directory <- MCDirectory
  Cwd <- MCCwd
  Files <- MCFiles
  MayExport <- MCMayExport
  FirstDirs <- MCFirstDirs
  MaxRecords = 1
  MaxProcesses = 2
  Message = {m1}
  maxRetries = 2
  MaxReceives = 3
  CPUOSMetricNames <- MCMetricNames
  MayShrink = {"iowait"}
  MaxValue = 2
  MaxIntervals = 3
INVARIANT RoutesReachTheirController
CHECK_DEADLOCK FALSE
