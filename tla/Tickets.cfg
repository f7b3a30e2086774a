SPECIFICATION FairSpec
CONSTANTS
    m1 = m1
    m2 = m2
    Groups = {g1, g2}
    Members = {m1, m2}
    Urgent = {m1}
    Configs = {manual, auto}
    AutoComplete = {auto}
    NoConfig = NoConfig
    MaxCreates = 1
    MaxNotes = 1
    MaxFaults = 1
    MaxChanges = 3
INVARIANTS
    NoDuplicateTicket
    OneOpenTicket
    LiveOnlyAfterDryRun
    RowWasSaid
PROPERTIES
    CompletedAfterFinalNote
    Converges
