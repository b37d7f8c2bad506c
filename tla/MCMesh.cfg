CONSTANTS
    A = A
    B = B
    C = C
    None = None
    Node <- Two
    Key <- Two
    Authorities <- TwoAuthorities
    GenesisValidator = A
    Peers <- Mesh
    Address = {}
    Word = 8
    Txs <- NoTxs
    GenesisAllocations <- NoAllocations
    MaxTxsPerBlock = 1
    Stamps = {1}
    MaxReply = 3
    DiskMayFail = FALSE
    MaxHeight = 3
    MaxStarts <- CrashOfB
    MaxDrops = 0
SPECIFICATION Spec
INVARIANTS NoStall RestartKeepsChain
CHECK_DEADLOCK FALSE
