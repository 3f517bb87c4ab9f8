\* A keep-L1 exit asked for during a drain that is kept.
SPECIFICATION ShutdownFairSpec
CONSTANTS
    b1 = b1
    b2 = b2
    Boots = {b1}
    MaxDrains = 3
CHECK_DEADLOCK FALSE
PROPERTY RetireHappens
