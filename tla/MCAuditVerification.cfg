SPECIFICATION Spec
CONSTANTS
    j1 = j1
    j2 = j2
    Job <- Jobs
    Hour <- Hours
    HourOf <- HoursOf
    Legacy = 0
    None = None
    MaxEvent = 2
    MaxAnchor = 2
    MaxSecond = 1
    MaxRestore = 1
INVARIANTS
    VerifyInv
    AnchorsLinked
PROPERTIES
    LossReported
    NoFalseAlarm
