SPECIFICATION FairSpec
CONSTANTS
    Writer = {w1, w2}
    Builder = {b1}
    EnvKey <- Keys
    Secret = {"secret"}
    Protected = {"protected"}
    Val <- Values
    FirstEnv <- Start
    Ask <- Asks
    Unset = "unset"
    None = None
INVARIANTS
    EnvIInv
    BuildsReadCheckedEnv
PROPERTIES
    ChangesAreAtomic
    OnlyAskedKeysChange
    LockComesBack
CHECK_DEADLOCK FALSE
