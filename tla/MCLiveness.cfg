SPECIFICATION FairSpec
CONSTANTS
    Commit = {k1}
    Key = {o1, o2}
    Build = {b1}
    None = None
    Request = {1, 2}
    Call = {c1}
    Direct = {}
    LegacyKey = {}
    MaxCreators = 1
    MayAbandon = FALSE
PROPERTIES
    ClaimsSettle
    LapsedRequestsClose
