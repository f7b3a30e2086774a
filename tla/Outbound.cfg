SPECIFICATION OutboundSpec
CONSTANTS
    syslog = syslog
    webhook = webhook
    peer = peer
    tsa = tsa
    Destinations <- MCDestinations
    Flaky = {syslog, webhook}
    Heeding = {webhook}
    Capacity = 2
    BatchSize = 2
    MaxRecords = 5
    Targets <- MCTargets
    Publishers = {timer, request}
    Timer = timer
    Limit = 2
    MaxSeq = 2
    MaxFaults = 1
CHECK_DEADLOCK FALSE
INVARIANTS
    AnchorsAreReal
    EachOnceInOrder
PROPERTIES
    EveryRecordLeaves
    EveryCheckpointAnchored
