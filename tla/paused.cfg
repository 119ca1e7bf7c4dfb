\* The lots of a bot are repaired while it is paused and its worker is not stopped.
SPECIFICATION Spec
CONSTANTS
    Rails = 3
    Step = 60
    Base = 60
    Budget = 400
    SolPrices = {5}
    Rents = {0}
    Slack = 2
    MaxFills = 3
    MaxTorn = 1
    MaxScripts = 1
    MaxMoves = 2
    Scripts = {"repair"}
    Rule = "pause"
\* The model's bounds end every behaviour.
CHECK_DEADLOCK FALSE
PROPERTY NewLotsStay
