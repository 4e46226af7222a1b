SPECIFICATION FairSpec
CONSTANTS
  Main = main
  Apps = {a1}
  MainOps = {"reset", "restore", "close", "sleep", "on", "off"}
  AppOps = {"join", "version"}
  ReqCap = 4
  MayFail = {"sem", "reqbox", "respbox", "req", "resp", "dev"}
  MaxInit = 2
  HwReset = TRUE
  RestoreOnInit = FALSE
  Flaky = TRUE
  Retry = FALSE
  BusyDeinit = FALSE
INVARIANTS TypeOK NoDeadObject Served Hears PresentTrue
PROPERTIES OkMeansOnline OpReturns
CHECK_DEADLOCK FALSE
