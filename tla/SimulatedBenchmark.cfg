SPECIFICATION FairSpec
CONSTANTS
  runner = runner
  server = server
  none = none
  Runner = runner
  Server = server
  NoRequest = none
  Processes <- TwoProcesses
  Jobs <- TwoJobs
  Concurrency = 2
  MaxAttempts = 2
  MaxContinuations = 1
  ProviderErrorRetries = 1
  MergesAtOnce = TRUE
  MaxChanges = 2
  TriedVerdicts <- RedThenGreen
  StoreFaults <- DiskFaults
  Courses <- SixCourses
INVARIANTS TypeOK EveryPostHasItsSample RowNamesItsOwnChange
PROPERTIES RefusedOnlyIfActed BenchmarkEnds ImplementsSimulatedGitHub
CHECK_DEADLOCK FALSE
