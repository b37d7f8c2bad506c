CONSTANTS
    Address <- MCAddress
    Word = 8
    Txs <- MCTxs
    GenesisAllocations <- MCAllocations
    MaxTxsPerBlock = 2
    MaxPeerTxs = 2
    MaxBlocks = 3
SPECIFICATION Spec
INVARIANTS TypeOK SupplyConserved PoolExecutable PendingViewExact SpentOnce
PROPERTY EvictsExactlyTheDead
CHECK_DEADLOCK FALSE
