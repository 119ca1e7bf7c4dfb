\* The worker process, one component at a time.
SPECIFICATION WorkerSpec
CONSTANTS
    Absent = Absent
    sol = sol
    btc = btc
    b1 = b1
    b2 = b2
    d1 = d1
    d2 = d2
    Symbols = {sol, btc}
    Bots = {b1, b2}
    SymbolOf <- OneEach
    Drains = {d1, d2}
    MinInterval = 2
    PollInterval = 1
    MaxBackoff = 1
    RecoveryInterval = 1
    Bases = {sol, btc}
    Quote = "USDC"
    MaxBlock = 2
    FeedTime = 2
    StaleAfter = 1
    MaxRestarts = 1
    Width = 2
    CandleTime = 7
    Lookbacks = {3, 6}
    Ttl = 1
    PageLimit = 6
    Bucket = 2
    Every = 1
    StateKeep = 1
    RowKeep = 2
    MaxTime = 3
    MaxFaults = 1
    BandPrices = {1, 2, 3}
    Grids <- SmallGrids
    FirstGrid <- HighGrid
    LastHour = 1
    Day = 4
    Cooldown = 1
    MaxDaily = 1
    MaxLosses = 1
    MaxCrashes = 1
    MaxOrders = 2
\* The models' clocks end.
CHECK_DEADLOCK FALSE
SYMMETRY DrainNames
INVARIANTS
    RuntimeHolds
    StoredDataHolds
    RevisionsHold
PROPERTIES
    StartsAreOrderly
    ChangesHold
