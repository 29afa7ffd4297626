CONSTANTS
    Token <- Tokens
    Config <- Tokens
    Supply <- Wallet
    MaxLoan = 1
    Operation <- Operations
    Racing <- Races
SPECIFICATION TxBuilderSpec
INVARIANTS
    AccountsAreCounted
    BuiltTransactionsWork
PROPERTIES
    FreshDepositsAreCounted
    SwapKeepsBalances
CHECK_DEADLOCK FALSE
