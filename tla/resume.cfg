\* A legacy live bot that is resumed while its attempt is settled.
SPECIFICATION Spec
CONSTANTS
    b1 = b1
    b2 = b2
    w1 = w1
    w2 = w2
    e1 = e1
    e2 = e2
    NoExec = NoExec
    NoBot = NoBot
    NoWorker = NoWorker
    Bots = {b1}
    LiveBots = {b1}
    BandBots = {}
    Workers = {w1}
    Execs = {e1}
    Halts = {"paused"}
    MayLoseLock = FALSE
    MaxCrashes = 0
INVARIANT BalancesIncludeFills
