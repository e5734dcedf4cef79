SPECIFICATION Spec
CONSTANTS
  Logs = {massifs}
  MaxNumber = 1
  MaxTime = 8
  MaxCommits = 3
  Configs <- MCConfigs
  DefaultHorizon = 5
  DefaultInterval = 1
  Lag = 1
  PollTime = 1
  MaxFailures = 1
INVARIANT ReportsWhatIsVisible
CHECK_DEADLOCK FALSE
