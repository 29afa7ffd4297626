SPECIFICATION Spec
CONSTANTS
    Account = {a1, a2}
    Mint = {loan, note, other}
    Margin = Margin
    Safe = {pool}
    External = {exchange}
    NoAdapter = NoAdapter
    NoAccount = NoAccount
    pool = pool
    exchange = exchange
    loan = loan
    note = note
    other = other
    Adapters <- MC_Adapters
    AdapterOf <- MC_AdapterOf
    KindOf <- MC_KindOf
    MaxHeight = 4
    Result <- MC_Result
INVARIANTS
    OnlyCallsAreMarked
PROPERTIES
    AdaptersChangeTheirOwn
    RegistrationIsSigned
SYMMETRY MC_Symmetry
CHECK_DEADLOCK FALSE
