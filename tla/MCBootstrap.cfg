CONSTANTS
    None = None
    Torn = Torn
    KeyLength = 2
    Machine = {0, 1}
    Counts = {0, 1, 2}
    KeyPairs <- FourKeys
    Cuts = {0, 2, 4}
    MaxBootstraps = 2
    MaxHeight = 4
    MaxKills = 2
SPECIFICATION Spec
INVARIANTS
    OwnKeyOrNone
    SameGenesisSameStart
    OwnNetwork
CHECK_DEADLOCK FALSE
