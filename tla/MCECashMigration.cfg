SPECIFICATION Spec
CONSTANTS
    blk = blk
    rev = rev
    r1 = r1
    r2 = r2
    r3 = r3
    b1 = b1
    Files = {blk, rev}
    Records = {r1, r2, r3}
    FileOf <- MCFileOf
    Branches = {b1}
    MaxFaults = 3
INVARIANTS
    ConvertTypeOK
    MigrationTypeOK
    NeverRefuses
    DoneIsStored
    StepFollowsFiles
    SourceReadsSource
    TargetReadsTarget
PROPERTIES
    JobEnds
