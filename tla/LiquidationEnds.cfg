SPECIFICATION FairSpec
CONSTANTS
    One = 100
    Liquidator = {l1, l2}
    Owner = owner
    NoOne = none
    c = c
    u = u
    Collateral = {u}
    Borrowed = u
    Claim = claim
    Price <- MCStablePrice
    Weight <- MCWeight
    Leverage = 400
    MaxLossBps = 500
    MaxLossConstant = 1
    IncreaseBps = 1000
    FeeBps = 10000
    FeeSlots = 1
    Trade <- MCNoTrade
    Repayment <- MCRepayment
    FeeMint = {u}
    Requoted = {}
    MaxBalance = 2
    Expiring = {}
    PastDueFlag = {TRUE, FALSE}
    Constraint = {TRUE, FALSE}
    MaxGain = 0
    MaxClosings = 1
INVARIANT LiquidatingHasState
PROPERTY LiquidationEnds
