SPECIFICATION Spec
CONSTANTS
    Commit = {k1, k2}
    Key = {o1, o2}
    Build = {b1}
    None = None
    Request = {1}
    Call = {c1, c2}
    Direct = {c2}
    LegacyKey = {o1}
    MaxCreators = 1
    MayAbandon = FALSE
SYMMETRY Symmetry
INVARIANTS
    PromotedIsApprovedCommit
    BuiltWhatWasChecked
    DeployInv
