\* A restart that passed the gate outlives the Stop.
SPECIFICATION MonitorSpec
CONSTANTS
    MaxRuns = 2
    MaxElsewhere = 1
    MaxBoots = 1
    MaxRestarts = 0
CHECK_DEADLOCK FALSE
PROPERTY StopStays
