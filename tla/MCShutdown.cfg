\* Two boots, a signal and clients against up to two drains and main's own.
SPECIFICATION ShutdownFairSpec
CONSTANTS
    b1 = b1
    b2 = b2
    Boots = {b1, b2}
    MaxDrains = 3
CHECK_DEADLOCK FALSE
INVARIANTS
    ShutdownTypeOK
    OneDrain
    NoLostWakeup
    KeptStaysUp
    BootsAfterDrain
PROPERTIES
    BootsResume
    SignalEnds
    ImplementsLifecycle
