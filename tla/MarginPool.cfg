SPECIFICATION Spec
CONSTANTS
    One = 100
    User = {u1, u2}
    WalletTokens = 2
    Amount = {1}
    Config <- MCFeeConfig
    SecondsPerWeek = 7
    SecondsPerYear = 14
    TimeStep = {7, 8}
    MaxTime = 8
SYMMETRY MCSymmetry
CHECK_DEADLOCK FALSE
INVARIANTS BooksBalance Solvent NotesBacked
PROPERTIES SharePriceKept DebtHasNotes
