SPECIFICATION Spec
CONSTANTS
    User <- Users
    Tx = {t1, t2, t3}
    Email = {"e1", "e2"}
    FirstRow <- Start
    None = None
SYMMETRY Symmetry
INVARIANTS
    AccountIInv
    SessionsMatchUsers
    ChainLockMovesOn
PROPERTIES
    AdminLocksLeaveAnAdmin
CHECK_DEADLOCK FALSE
