CONSTANTS
    A = A
    B = B
    C = C
    None = None
    Node <- Two
    Key <- Two
    Authorities <- OneAuthority
    GenesisValidator = A
    Peers <- Hub
    Address = {}
    Word = 8
    Txs <- NoTxs
    GenesisAllocations <- NoAllocations
    MaxTxsPerBlock = 1
    Stamps = {1, 2}
    MaxReply = 2
    DiskMayFail = FALSE
    MaxHeight = 4
    MaxStarts <- CrashesOfA
    MaxDrops = 1
SPECIFICATION Spec
INVARIANTS TypeOK Agreement PublishedIsDurable RestartKeepsChain OneHistory
PROPERTIES RecordedIsFinal ImplementsLog
CHECK_DEADLOCK FALSE
