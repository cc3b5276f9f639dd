CONSTANTS
    v1 = v1
    v2 = v2
    v3 = v3
    Validator = {v1, v2, v3}
    Hash = {A, B}
    None = None
    Quorum <- Supermajority
    Proposer <- Rotation
    MaxRound = 1
    STALE_LOCK_ROUND_GAP = 1
    MayRestart = {v3}
SYMMETRY HashSymmetry
SPECIFICATION Spec
INVARIANTS Agreement LockedBytesMatch PolkaExcludes
CHECK_DEADLOCK FALSE
