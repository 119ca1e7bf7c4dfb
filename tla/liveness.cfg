\* What must come to an end, one component at a time.
SPECIFICATION LivenessSpec
CONSTANTS
    Absent = Absent
    NoValue = NoValue
    sol = sol
    b1 = b1
    b2 = b2
    d1 = d1
    d2 = d2
    r1 = r1
    r2 = r2
    w1 = w1
    w2 = w2
    e1 = e1
    e2 = e2
    acting = acting
    watched = watched
\* The models' bounds end every behaviour.
CHECK_DEADLOCK FALSE
PROPERTIES
    OutcomeIsBooked
    WorkEnds
    ViewsSettle
