SPECIFICATION AppSpec
CONSTANTS
  Starters <- MCStarters
  Stoppers <- MCStoppers
  Autowired <- MCAutowired
  Added = {"other"}
  AddedPaths <- MCAddedPaths
  contextCheck = "context"
  Dependencies = {"mysql"}
  Immediate = {"mysql"}
  sleepMillis <- MCSleepMillis
  staleNumFails = 2
  Signals = {"sigint", "sigterm"}
  app = "app"
  failure = "failure"
  giveUp = "giveUp"
  Setups <- MCSetups
  Late = {"web"}
INVARIANTS
  OrderlyShutdown
  HealthTellsOfStop
  StaleMeansHanging
  TimersFollowManager
PROPERTIES
  SignalExits
CHECK_DEADLOCK FALSE
