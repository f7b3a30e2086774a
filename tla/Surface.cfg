SPECIFICATION SurfaceSpec
CONSTANTS
    x = x
    dns = dns
    spf = spf
    lo = lo
    hi = hi
    handler = handler
    schedule = schedule
    Nobody = Nobody
    Assets = {x}
    Checks = {dns}
    Findings = {spf}
    Levels = {lo, hi}
    CheckOf <- MCCheckOf
    Handlers = {handler}
    Schedule = schedule
    MaxChanges = 3
    MaxRescans = 2
    MaxFaults = 1
    Worlds <- MCWorlds
    Silences <- MCSilences
    LookupLimit = 3
    VoidLimit = 1
    DepthLimit = 3
    LookupCap = 4
    MxCap = 2
CHECK_DEADLOCK FALSE
INVARIANTS
    SilenceDecidesNothing
    ExportVerifies
    OpenUntilSeenGone
PROPERTIES
    RevokedRecordsNothing
    ConfirmedIsScanned
