SPECIFICATION FairSpec
CONSTANTS
    r1 = r1  r2 = r2
    ann = ann  bob = bob
    portfolio = portfolio  allocation = allocation  market = market
    Request = {r1, r2}
    User = {ann, bob}
    Senders <- OneOrTwoUsers
    AllCategories <- ThreeCategories
    Facts = {f1}
    NoFacts = NoFacts
    NoAnswer = NoAnswer
    Text = {insights}
    Size = 2
    TTL = 1
    CallTimeout = 1
    WriteTimeout = 1
    MaxClock = 1
CHECK_DEADLOCK FALSE
INVARIANTS TypeOK CacheBounded KeptWhileRecent CancelledNotUnavailable
PROPERTIES KeepsPromise RequestsReturn
