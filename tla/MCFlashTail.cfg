\* One bet, and two closes that compete for its row.
SPECIFICATION FairSpec
CONSTANTS
    NumBets = 1
    MaxCloses = 2
    Closable = {1}
    Batch = 1
    SlotOf <- OneSlot
    WalletOf <- OneWallet
    Opaque <- LastClose
INVARIANTS
    DeadRowsHoldNothing
    ChainProceedsAreReal
PROPERTIES
    TerminalStays
    LedgerPromise
    RowsSettle
