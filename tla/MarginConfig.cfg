SPECIFICATION Spec
CONSTANTS
    Account = {a1, a2}
    Token = {deposit, note}
    Adapter = {pool, vault}
    Refresher = {r1}
    NoAdapter = NoAdapter
    deposit = deposit
    note = note
    pool = pool
    vault = vault
    MaxCollateralModifier = 1
    MaxClaimModifier = 2
    MaxStaleness = 3
    MaxUserPositions = 2
    Update <- MC_Update
    OldLayout <- MC_OldLayout
    AccountFeature <- MC_AccountFeature
    ConstraintSet <- MC_ConstraintSet
    MigrateAgain = FALSE
    MaxBalance = 1
INVARIANTS
    PositionsAreConfigured
    FeaturesAgree
    ConstraintsHaveATicket
PROPERTIES
    ConstraintsStayWithTheirAdapter
SYMMETRY MC_Symmetry
