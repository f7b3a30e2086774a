SPECIFICATION Spec
CONSTANTS
    c1 = c1
    c2 = c2
    s1 = s1
    s2 = s2
    s3 = s3
    Cmds = {c1}
    Streams = {s1}
    NoStream = NoStream
    ChanCap = 2
    ReplayCap = 2
    Ttl = 1
    MaxNow = 1
    MaxMissed = 1
    PgOutcomes = {TRUE}
CHECK_DEADLOCK FALSE
INVARIANT EvidenceRowVerifies
