SPECIFICATION Spec
CONSTANTS
    One = 100
    User = {u1}
    WalletTokens = 3
    Amount = {0, 1, 2}
    Config <- MCOneConfig
    SecondsPerWeek = 7
    SecondsPerYear = 14
    TimeStep = {5}
    MaxTime = 10
CHECK_DEADLOCK FALSE
INVARIANT EmptyPoolHasRate
