\* A live portfolio: the fee envelope, automation, fees paid in SOL.
SPECIFICATION Spec
CONSTANTS
    btc = btc
    sol = sol
    b1 = b1
    b2 = b2
    b3 = b3
    e1 = e1
    e2 = e2
    e3 = e3
    NoAsset = NoAsset
    NoBand = NoBand
    NoAttempt = NoAttempt
    Bands = {b1, b2, b3}
    Assets = {btc, sol}
    Retaining = {btc}
    FirstBand <- FirstBands
    Zones = {1, 2}
    Execs = {e1, e2, e3}
    Live = TRUE
    Funding = 5
    BaseAllocation = 2
    Requests = {1}
    Quotes = {2}
    MaxGain = 1
    InitialFees = 1
    FeeEstimates = {1}
    MaxTopUps = 1
    MaxBands = 2
    MaxExposurePct = 70
    Halts = {"paused"}
SYMMETRY Rows
INVARIANTS
    ClaimsMatchWallet
    FeeIsFunded
