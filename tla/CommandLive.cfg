SPECIFICATION FairSpec
CONSTANTS
    c1 = c1
    c2 = c2
    s1 = s1
    s2 = s2
    s3 = s3
    Cmds = {c1, c2}
    Streams = {s1}
    NoStream = NoStream
    ChanCap = 1
    ReplayCap = 1
    Ttl = 0
    MaxNow = 0
    MaxMissed = 1
    PgOutcomes = {FALSE}
CHECK_DEADLOCK FALSE
PROPERTY AckedUnlessBroken
