CONSTANTS
    v1 = v1
    v2 = v2
    v3 = v3
    v4 = v4
    Validator = {v1, v2, v3, v4}
    Hash = {A, B}
    None = None
    Quorum <- Supermajority
    Proposer <- Rotation
    MaxRound = 2
    STALE_LOCK_ROUND_GAP = 1
    MayRestart = {}
SYMMETRY HashSymmetry
SPECIFICATION Spec
ACTION_CONSTRAINT Schedule
INVARIANT Agreement
CHECK_DEADLOCK FALSE
