SPECIFICATION PromptSpec
CONSTANTS
    r1 = r1  r2 = r2
    ann = ann  bob = bob
    portfolio = portfolio  allocation = allocation  market = market
    Request = {r1}
    User = {ann, bob}
    Senders <- OneUser
    AllCategories <- ThreeCategories
    Facts = {f1}
    NoFacts = NoFacts
    NoAnswer = NoAnswer
    Text = {insights}
    Size = 2
    TTL = 2
    CallTimeout = 3
    WriteTimeout = 1
    MaxClock = 3
CHECK_DEADLOCK FALSE
INVARIANT DegradedReplyDelivered
