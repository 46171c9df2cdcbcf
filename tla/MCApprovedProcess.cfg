SPECIFICATION FairSpec
CONSTANTS
    Request = {r1, r2}
    Commit = {r1, r2}
    Key = {r1, r2}
    Build = {r1, r2}
    FirstRow <- Rows
    Held = {r2}
    Start = {s1}
    Exec = {x1, x2}
    MaxSessions = 1
    None = None
INVARIANTS
    ProcessIInv
    ExecsOnRecord
    StrayProcessesUnused
PROPERTIES
    HoldReleasedWhileApproved
    GoneSessionsEnd
