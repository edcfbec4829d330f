SPECIFICATION Spec
CONSTANTS
    NumBets = 1
    MaxCloses = 1
    Closable = {1}
    Batch = 1
    SlotOf <- OneSlot
    WalletOf <- OneWallet
    Opaque <- LastClose
INVARIANTS
    LandedOpenKeepsItsRow
