SPECIFICATION Spec
CONSTANTS
    peer = peer
    tsa = tsa
    Targets <- MCTargets
    Publishers = {Timer}
    Timer = Timer
    Limit = 2
    MaxSeq = 2
    MaxFaults = 0
CHECK_DEADLOCK FALSE
PROPERTY EveryAnchorCompared
