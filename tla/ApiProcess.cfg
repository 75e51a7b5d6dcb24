SPECIFICATION FairSpec
CONSTANTS
    r1 = r1
    r2 = r2
    r3 = r3
    NoConfig = NoConfig
    Request <- ThreeRequests
    Environment <- Environments
INVARIANTS
    TypeOK
    PoolOutlivesItsUsers
    ExitTellsTheTruth
    NeverPanics
PROPERTIES
    StopsWhenAsked
CHECK_DEADLOCK FALSE
