SPECIFICATION Spec
CONSTANTS
    api = api
    cron = cron
    KNRI11 = KNRI11
    selic = selic
    lastDividend = lastDividend
    NoQuote = NoQuote
    Process <- TwoProcesses
    Ticker <- OneTicker
    Watchlist <- NoSeed
    AllIndicators <- OneIndicator
    Optional <- LastDividend
    MaxClock = 2
PROPERTIES
    FetchedAtNeverRegresses
