SPECIFICATION Spec
CONSTANTS
    One = 100
    Liquidator = {l1}
    Owner = owner
    NoOne = none
    c = c
    u = u
    Collateral = {c, u}
    Borrowed = u
    Claim = claim
    Price <- MCPrice
    Weight <- MCWeight
    Leverage = 400
    MaxLossBps = 500
    MaxLossConstant = 1
    IncreaseBps = 1000
    FeeBps = 10000
    FeeSlots = 1
    Trade <- MCTrade
    Repayment <- MCRepayment
    FeeMint = {u}
    Requoted = {}
    MaxBalance = 2
    Expiring = {c}
    PastDueFlag = {FALSE}
    Constraint = {FALSE}
    MaxGain = 150
    MaxClosings = 0
INVARIANTS FeesAreEarned CostBounded LiquidationHelps
