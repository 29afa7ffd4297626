SPECIFICATION EnvironmentSpec
CONSTANTS
    Operator = {o1, o2}
    t1 = t1
    t2 = t2
    Token = {t1, t2}
    k1 = k1
    k2 = k2
    Crank = {k1, k2}
    PoolAdapter = PoolAdapter
    NoAdapter = NoAdapter
    Scenario <- MCScenario
SYMMETRY MCSymmetry
CHECK_DEADLOCK FALSE
INVARIANTS PoolsAreComplete CleanRunsSucceed NothingLeftToDo
PROPERTIES ConfiguredStaysConfigured
