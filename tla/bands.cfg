\* One live and one paper portfolio band, a worker process that may crash.
SPECIFICATION Spec
CONSTANTS
    b1 = b1
    b2 = b2
    w1 = w1
    w2 = w2
    e1 = e1
    e2 = e2
    NoExec = NoExec
    NoBot = NoBot
    NoWorker = NoWorker
    Bots = {b1, b2}
    LiveBots = {b1}
    BandBots = {b1, b2}
    Workers = {w1}
    Execs = {e1, e2}
    Halts = {"paused"}
    MayLoseLock = FALSE
    MaxCrashes = 1
SYMMETRY Rows
INVARIANTS
    TypeOK
    BooksMatchChain
    SubmittedIsRecorded
    BalancesIncludeFills
    EveryFillBookedOnce
PROPERTIES
    NoStalePreparation
    SettlesExactlyOnce
