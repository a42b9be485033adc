\* One retry, two tenants in a batch, two requests at once, three ticks of the timer.
SPECIFICATION FairProcess
CONSTANTS
  MaxRetries = 1
  MonitorEnabled = TRUE
  Thresholds <- LowThresholds
  BatchSize = 2
  MaxInFlight = 2
  MaxTicks = 3
INVARIANTS ProcessTypeOK HealthTellsTheTruth
PROPERTIES ShutdownReleases StartsAndStopsEnd
CHECK_DEADLOCK FALSE
