\* A boot keeps the daemon, then its frontend leaves too.
SPECIFICATION DaemonFairSpec
CONSTANTS
    p1 = p1
    p2 = p2
    p3 = p3
    c1 = c1
    h1 = h1
    b1 = b1
    NoOwner = NoOwner
    Pids = {p1, p2}
    Clients = {c1}
    Holders = {}
    FirstOwner = p1
    MaxMisses = 0
    Boots = {b1}
    MaxDrains = 4
    MaxTries = 0
CHECK_DEADLOCK FALSE
PROPERTY UnattendedExits
