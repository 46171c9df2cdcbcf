SPECIFICATION Spec
CONSTANTS
    Commit = {k1, k2}
    Key = {o1, o2}
    Build = {b1, b2}
    None = None
    Request = {1}
    Call = {c1, c2}
    Direct = {}
    LegacyKey = {}
    MaxCreators = 1
    MayAbandon = TRUE
SYMMETRY Symmetry
INVARIANTS
    TypeOK
    FreeClaimMeansNoPromote
    RejectedNeverPromoted
    PromotedIsApprovedCommit
    DeployedMeansApplied
PROPERTIES
    BindingsKept
    PromiseKept
