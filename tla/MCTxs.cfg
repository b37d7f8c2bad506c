CONSTANTS
    A = A
    B = B
    C = C
    None = None
    Node <- Two
    Key <- Two
    Authorities <- TwoAuthorities
    GenesisValidator = A
    Peers <- Hub
    Address = {1, 2}
    Word = 8
    Txs <- SomeTxs
    GenesisAllocations <- SomeAllocations
    MaxTxsPerBlock = 1
    Stamps = {1}
    MaxReply = 3
    DiskMayFail = TRUE
    MaxHeight = 3
    MaxStarts <- NoCrash
    MaxDrops = 1
SPECIFICATION Spec
INVARIANT ChainExecutes
CHECK_DEADLOCK FALSE
