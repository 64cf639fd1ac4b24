SPECIFICATION LimitSpec
CONSTANTS
    Keys = {k1}
    Requests = {a, b}
    Threshold = 1
    Window = 3
    Limits <- OneLimit
    MaxClock = 9
    Wrap = 16
    Idle = 5
    MaxDelay = 1
    MaxHits = 7
    Nil = Nil
CHECK_DEADLOCK FALSE
INVARIANTS
    ForgottenExpired
    TwiceAtMost
PROPERTIES
    ImplementsBudget
