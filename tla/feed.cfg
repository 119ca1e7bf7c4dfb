\* A price service that is restarted, with a store and without.
SPECIFICATION Spec
CONSTANTS
    Bases = {"SOL"}
    Quote = "USDC"
    MaxBlock = 2
    MaxNow = 4
    StaleAfter = 1
    MaxRestarts = 1
    Lasting = TRUE
\* The model's clock ends.
CHECK_DEADLOCK FALSE
INVARIANT NoRenewal
