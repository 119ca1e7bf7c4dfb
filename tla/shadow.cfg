\* What is only watched or replayed, one component at a time.
SPECIFICATION ShadowSpec
CONSTANTS
    Absent = Absent
    NoValue = NoValue
    w1 = w1
    w2 = w2
    acting = acting
    watched = watched
    Workers = {w1, w2}
    Jobs = {1, 2}
    Lease = 2
    MaxAttempts = 2
    MaxDelay = 1
    MaxClaims = 3
    MaxFaults = 2
    Bands = {acting, watched}
    AutoBands = {acting}
    Reports <- SomeReports
    Window = 2
    MinSamples = 1
    MaxHour = 2
    MaxFills = 2
    MaxTasks = 3
    MaxFailures = 1
    Bots <- Targets
    SymbolOf <- TargetSymbols
    BadMint = {"fork"}
    SizesOf <- TargetSizes
    HasTaker = {"btc1", "sol1"}
    Gap = 2
    Timeout = 4
    Cadence = 7
    Period = 3
    Lag = 1
\* The models' bounds end every behaviour.
CHECK_DEADLOCK FALSE
INVARIANTS
    ChoicesHold
    RecordsHold
PROPERTIES
    OneAnswer
    RecordsStand
    ReplaysStand
