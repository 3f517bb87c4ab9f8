\* A boot waits for good on a process that exited between its start and its lookup.
SPECIFICATION MonitorFairSpec
CONSTANTS
    MaxRuns = 2
    MaxElsewhere = 1
    MaxBoots = 1
    MaxRestarts = 0
CHECK_DEADLOCK FALSE
PROPERTY BootSeesExit
