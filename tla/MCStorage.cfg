CONSTANTS
    A = A
    None = None
    Unreadable = Unreadable
    Key = {A}
    Authorities <- OneAuthority
    GenesisValidator = A
    Address = {1, 2}
    Word = 8
    Txs <- TwoTransfers
    GenesisAllocations <- Allocations
    Stamps = {1}
    MaxHeight = 3
    MaxDeaths = 2
    MayLosePower = TRUE
    MaxDamage = 1
SPECIFICATION Spec
INVARIANTS
    RecoversHistory
    HeightIsBacked
    HashEntries
    AccountsNotAhead
    ChainValidates
PROPERTY
    SyncedIsFinal
CHECK_DEADLOCK FALSE
