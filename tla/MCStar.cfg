CONSTANTS
    A = A
    B = B
    C = C
    None = None
    Node <- Three
    Key <- Three
    Authorities <- ThreeAuthorities
    GenesisValidator = A
    Peers <- Star
    Address = {}
    Word = 8
    Txs <- NoTxs
    GenesisAllocations <- NoAllocations
    MaxTxsPerBlock = 1
    Stamps = {1}
    MaxReply = 3
    DiskMayFail = FALSE
    MaxHeight = 3
    MaxStarts <- NoCrash
    MaxDrops = 0
SPECIFICATION Spec
INVARIANT NoStall
CHECK_DEADLOCK FALSE
