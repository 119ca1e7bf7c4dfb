\* The desk, one component at a time.
SPECIFICATION DeskSpec
CONSTANTS
    Absent = Absent
    b1 = b1
    b2 = b2
    r1 = r1
    r2 = r2
    sol = sol
    btc = btc
    Bots = {b1, b2}
    V2 = V2
    Reqs = {r1, r2}
    NoReq = NoReq
    Funds = 4
    Amounts = {2}
    SourceBudget = 2
    Kinds = {"create", "clone", "top up", "resume", "archive", "stage", "activate"}
    MaxAsks = 4
    MaxTrades = 2
    MaxHalts = 2
    Pair = "SOL_USDC"
    BudgetTyped = {5, 20001}
    OrderTyped = {0, 666}
    RailsTyped = {1, 65}
    LabConfigs <- LabDrafts
    Listed = {1, 2}
    Askable = {"pause", "resume", "stop", "sell_only", "resume_buys", "archive", "save"}
    MaxTyped = 1
    MaxCalls = 2
    MaxAsked = 3
    Streamed = {b1}
    BotStatuses = {"running", "paused"}
    Outcomes = {"unknown", "filled", "failed"}
    MaxExecutions = 2
    MaxChanges = 2
    MaxDrops = 1
    MaxFailures = 1
    MaxTurns = 1
    Kept = 2
    Delays = 1
    Overtaking = TRUE
    Inputs = {sol, btc}
    MaxGeneration = 2
    MaxFlights = 2
    Questions = {"recommend", "compare", "replay", "stress"}
\* The models' bounds end every behaviour.
CHECK_DEADLOCK FALSE
SYMMETRY RequestsAndPairs
INVARIANTS
    AdmissionHolds
    DeskHolds
PROPERTIES
    DeskStands
