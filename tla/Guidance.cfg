SPECIFICATION FairSpec
CONSTANTS
    r1 = r1
    r2 = r2
    u1 = u1
    u2 = u2
    HGLG11 = HGLG11
    KNRI11 = KNRI11
    Unset = Unset
    Other = Other
    NoFacts = NoFacts
    NoAnswer = NoAnswer
    Request <- TwoRequests
    User <- TwoUsers
    Senders <- OneOrTwoUsers
    Ticker <- OneTicker
    Base <- Bases
    Contribution <- Contributions
    Bodies <- SameOrOther
    Shares <- Splits
    Result <- Results
INVARIANTS
    TypeOK
    ToldTheNumbers
    CandidatesGrounded
PROPERTIES
    GuidanceReturns
CHECK_DEADLOCK FALSE
