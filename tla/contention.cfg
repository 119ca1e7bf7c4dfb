\* Two live bands that spend the same wallet, or a legacy live bot, two worker
\* processes and a lock session that may die.
SPECIFICATION ContentionSpec
CONSTANTS
    b1 = b1
    b2 = b2
    legacy = legacy
    w1 = w1
    w2 = w2
    e1 = e1
    e2 = e2
    NoExec = NoExec
    NoBot = NoBot
    NoWorker = NoWorker
    Bots = {b1, b2, legacy}
    LiveBots = {b1, b2, legacy}
    BandBots = {b1, b2}
    Workers = {w1, w2}
    Execs = {e1, e2}
    Halts = {"paused"}
    MayLoseLock = TRUE
    MaxCrashes = 0
ACTION_CONSTRAINT OneContention
SYMMETRY RowsAndWorkers
INVARIANT OneLiveAuthorisation
PROPERTIES
    TerminalResultKept
    OperatorStatusKept
