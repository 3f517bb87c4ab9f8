\* Two frontends replace the first, one after the other or inside its claim,
\* while connections and a hold come and go, the lease fires and a boot may keep
\* the daemon.  The daemon may stop for good.
SPECIFICATION DaemonFairSpec
CONSTANTS
    p1 = p1
    p2 = p2
    p3 = p3
    c1 = c1
    h1 = h1
    b1 = b1
    NoOwner = NoOwner
    Pids = {p1, p2, p3}
    Clients = {c1}
    Holders = {h1}
    FirstOwner = p1
    MaxMisses = 1
    Boots = {b1}
    MaxDrains = 4
    MaxTries = 1
CHECK_DEADLOCK FALSE
INVARIANTS
    LeaseTypeOK
    CountsMatch
    OwnerGoneIsDead
    LateClaimIsWarned
    AdoptedStaysUp
    FiredLeaseEnds
PROPERTIES
    UnkeptExits
    RefusedMeansGone
CONSTRAINT FirstClaim
