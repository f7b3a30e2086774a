SPECIFICATION MCSpec
CONSTANTS
    timer = timer
    a = a
    b = b
    c = c
    g = g
    osv = osv
    KEV = KEV
    Nobody = Nobody
    Runs = {timer}
    Specs <- MCSpecs
    Published <- MCPublished
    CveOf <- MCCveOf
    ShrinkFloor = 2
    MaxFaults = 2
    request = request
    ta = ta
    tb = tb
    NoTenant = NoTenant
    users = users
    admin = admin
    Tenants = {ta, tb}
    Groups = {users}
    Findings = {admin}
    GroupOf <- MCGroupOf
    Workers = {timer, request}
    Schedule = timer
    MaxSettings = 2
    MaxReads = 2
    IdentityFaults = 1
    device = device
    kb = kb
    sa = sa
    sb = sb
    NoSite = NoSite
    NoFeed = NoFeed
    Devices = {device}
    Updates = {kb}
    Sites = {sa, sb}
    MaxChanges = 2
    MaxLoads = 1
    RmmFaults = 1
    Calls <- MCCalls
    MaxAttempts <- MCMaxAttempts
    Retries = 2
    MaxPages = 3
    Budget = 8
CHECK_DEADLOCK FALSE
INVARIANTS
    EnrichmentLands
    IntervalsFollowReads
    CallsKeepTheirWord
PROPERTIES
    NeverTruncated
    FeedsCatchUp
    TenantIsRead
    RmmSettles
    EveryCallEnds
