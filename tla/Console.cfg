SPECIFICATION ConsoleSpec
CONSTANTS
    v1 = v1
    r1 = r1
    link1 = link1
    link2 = link2
    boot1 = boot1
    boot2 = boot2
    VulnKeys = {v1}
    RepoKeys = {r1}
    Refresh = Refresh
    Nobody = Nobody
    Matchers = {Report, Refresh}
    Inventories <- MCInventories
    Packages <- MCPackages
    Ranges <- MCRanges
    Floors <- MCFloors
    MaxPackages = 2
    MaxRanges = 2
    Setups = {owner, admin}
    Posts = {admin}
    SignIns = {admin}
    Names = {ann, bob}
    Invites = {link1, link2}
    Issuers = {boot1, boot2}
    NoUser = NoUser
    NoInvite = NoInvite
    MaxMatches = 3
    MaxReports = 2
    MaxLoads = 1
CHECK_DEADLOCK FALSE
SYMMETRY Symmetry
INVARIANTS
    AgreedFindings
    VerdictsHold
    FirstAdminOnce
PROPERTY HistorySurvives
