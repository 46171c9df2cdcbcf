SPECIFICATION Spec
CONSTANTS
    Commit = {k1}
    Key = {o1, o2}
    Build = {b1}
    None = None
    Request = {1}
    Call = {c1, c2}
    Direct = {}
    LegacyKey = {}
    MaxCreators = 1
    MayAbandon = FALSE
INVARIANT BuiltFromBoundArchive
