\* The reaper of an earlier run deletes the PID record of the run that followed.
SPECIFICATION ProcessSpec
CONSTANTS
    n1 = n1
    s1 = s1
    x1 = x1
    Names = {n1}
    Stoppers = {}
    Removers = {}
    MaxRuns = 2
    MaxElsewhere = 0
    MaxCrashes = 0
    OwnsInstall = TRUE
CHECK_DEADLOCK FALSE
INVARIANT RecordKept
