\* Two runs of the daemon; a restart that fails is tried once more after its backoff.
SPECIFICATION MonitorFairSpec
CONSTANTS
    MaxRuns = 2
    MaxElsewhere = 1
    MaxBoots = 1
    MaxRestarts = 1
CHECK_DEADLOCK FALSE
INVARIANTS
    MonitorTypeOK
    ConnectedMeansAnswered
PROPERTIES
    CrashReasonStays
    GoneIsShown
    CrashRestarts
