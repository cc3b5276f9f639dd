CONSTANTS
    v1 = v1
    v2 = v2
    v3 = v3
    Validator = {v1, v2, v3}
    Stake <- Stakes
    Hash = {A}
    None = None
    NoVote = NoVote
    Proposer <- Rotation
    STALE_LOCK_ROUND_GAP = 1
    MAX_ROUND = 1
    MaxRound = 1
    MayRestart = {}
    MayReject = {}
    MaxRestarts = 0
SPECIFICATION FairSpec
ACTION_CONSTRAINT LateRound
PROPERTY HeldBlockIsApplied
CHECK_DEADLOCK FALSE
