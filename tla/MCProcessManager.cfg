\* A start, an adoption, a stop, a removal and a daemon crash in every order.
SPECIFICATION ProcessFairSpec
CONSTANTS
    n1 = n1
    s1 = s1
    x1 = x1
    Names = {n1}
    Stoppers = {s1}
    Removers = {x1}
    MaxRuns = 2
    MaxElsewhere = 2
    MaxCrashes = 1
    OwnsInstall = TRUE
CHECK_DEADLOCK FALSE
INVARIANTS
    ProcessTypeOK
    OneLiveChild
    LiveChildTracked
    ExitChannelClosesLast
    ExitOrRunning
PROPERTIES
    DeadLeaves
CONSTRAINT OneLoss
