SPECIFICATION Spec
SYMMETRY Symmetry
CONSTANTS
    c1 = c1
    c2 = c2
    c3 = c3
    k1 = k1
    m1 = m1
    m2 = m2
    s1 = s1
    Attempt = {c1, c2, c3, k1}
    Kind <- Kinds
    KindOf <- KindsOf
    Method = {m1, m2}
    Session = {s1}
    Limit = 2
    LockLimit = 2
    None = None
INVARIANTS
    MFAIInv
    AttemptsWithinLimit
    FailuresLock
    EnrolledWithAMethod
    ExemptionEndsAtEnrollment
