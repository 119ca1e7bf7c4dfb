\* A paper portfolio: concurrent executions, a further band, closing a band.
\* Once every band is closed nothing is left to do: the portfolio stops there.
SPECIFICATION Spec
CONSTANTS
    btc = btc
    sol = sol
    b1 = b1
    b2 = b2
    b3 = b3
    e1 = e1
    e2 = e2
    e3 = e3
    NoAsset = NoAsset
    NoBand = NoBand
    NoAttempt = NoAttempt
    Bands = {b1, b2, b3}
    Assets = {btc, sol}
    Retaining = {btc}
    FirstBand <- FirstBands
    Zones = {1, 2}
    Execs = {e1, e2, e3}
    Live = FALSE
    Funding = 5
    BaseAllocation = 2
    Requests = {1}
    Quotes = {1, 2}
    MaxGain = 1
    InitialFees = 0
    FeeEstimates = {0}
    MaxTopUps = 0
    MaxBands = 2
    MaxExposurePct = 70
    Halts = {"stopped"}
SYMMETRY Rows
INVARIANTS
    TypeOK
    ClaimsMatchWallet
    BandAccounts
    FundingMatchesBands
    DeployedIsOpenLots
    ReservedForPendingBuy
    BandsAreConsistent
CHECK_DEADLOCK FALSE
