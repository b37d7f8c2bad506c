CONSTANTS
    A = A
    B = B
    C = C
    None = None
    Node <- Two
    Key <- Two
    Authorities <- TwoAuthorities
    GenesisValidator = A
    Peers <- Hub
    Address = {}
    Word = 8
    Txs <- NoTxs
    GenesisAllocations <- NoAllocations
    MaxTxsPerBlock = 1
    Stamps = {1}
    MaxReply = 3
    DiskMayFail = TRUE
    MaxHeight = 3
    MaxStarts <- NoCrash
    MaxDrops = 0
SPECIFICATION Spec
INVARIANT RestartKeepsChain
CHECK_DEADLOCK FALSE
