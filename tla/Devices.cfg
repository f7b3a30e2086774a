SPECIFICATION MCSpec
CONSTANTS
    r1 = r1
    r2 = r2
    check = check
    vuln = vuln
    a = a
    b = b
    timer = timer
    watcher = watcher
    beater = beater
    Nothing = Nothing
    Contents = {a, b}
    Reporters = {timer, watcher}
    Beaters = {beater}
    Admins = {watcher}
    MaxEdits = 1
    MaxAccepts = 1
    MaxLosses = 2
    Reports = {r1, r2}
    Refreshers = {r2}
    None = None
    Checks = {check}
    Vulns = {vuln}
    MaxChanges = 1
    MaxTriage = 1
    MaxFaults = 1
INVARIANTS
    AlertsMatchReport
    AloneIsDurable
PROPERTIES
    NoSecondAlert
    ChecksSettle
    CopiesSettle
