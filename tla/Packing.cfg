SPECIFICATION FairSpec
CONSTANTS
    acct1 = acct1
    acct2 = acct2
    acct3 = acct3
    key1 = key1
    key2 = key2
    Key = {acct1, acct2, acct3, key1, key2}
    Request <- MCRequest
    Instruction <- MCInstruction
    TableList <- MCOneTable
    HeaderSize = 3
    KeySize = 4
    MaxTxSize = 36
    MaxAttempts = 3
    PerfectLimit = 2
INVARIANTS InstructionsKept CondensedIsOptimal TransactionsAreValid
PROPERTIES CallsReturn
