\* Trading on one bot, one component at a time.
SPECIFICATION TradingSpec
CONSTANTS
    Absent = Absent
    r1 = r1
    r2 = r2
    Profits <- FewProfits
    MaxHour = 4
    MaxRows = 2
    SaleLots <- SomeLots
    SaleAnswers <- SomeAnswers
    SaleTarget = 5
    Limit = 10
    Budget = 4
    Protected = 3
    PriorityCap = 2
    Natives = {9, 40, 70}
\* The models' bounds end every behaviour.
CHECK_DEADLOCK FALSE
SYMMETRY RequestNames
INVARIANTS
    SpikesHold
    BooksHold
    SaleHolds
PROPERTIES
    RepairTakesWhatIsHidden
    TradesHold
