SPECIFICATION FairSpec
CONSTANTS
    e1 = e1
    e2 = e2
    e3 = e3
    Events = {e1, e2, e3}
    AtomicEvents = {e1, e2}
    Signer = Signer
    NoOne = NoOne
    Genesis <- MCGenesis
    ComputeHash <- MCComputeHash
    PageSize = 1
    FromSeqs = {1, 2}
    MaxCheckpoints = 1
INVARIANTS
    ChainIntact
    NoFalseAlarm
    BundleVerifies
PROPERTIES
    ImplementsLedger
PROPERTY EveryAppendEnds
