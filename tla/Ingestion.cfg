SPECIFICATION RecoveringSpec
CONSTANTS
    api = api
    cron = cron
    KNRI11 = KNRI11
    selic = selic
    lastDividend = lastDividend
    NoQuote = NoQuote
    Process <- TwoProcesses
    Ticker <- OneTicker
    Watchlist <- NoSeed
    AllIndicators <- OneIndicator
    Optional <- NothingOptional
    MaxClock = 2
INVARIANTS
    TypeOK
    ItemsAccounted
    SuccessIsStored
PROPERTIES
    LatestMacroNeverRegresses
    RunsComplete
    HeldTickersGetQuote
