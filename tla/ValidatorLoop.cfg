CONSTANTS
    v1 = v1
    v2 = v2
    v3 = v3
    Validator = {v1, v2}
    Stake <- Stakes
    Hash = {A, B}
    None = None
    NoVote = NoVote
    Proposer <- Rotation
    STALE_LOCK_ROUND_GAP = 1
    MAX_ROUND = 1
    MaxRound = 1
    MayRestart = {v1}
    MayReject = {v1, v2}
    MaxRestarts = 1
ACTION_CONSTRAINT Reduced
SPECIFICATION LoopSpec
INVARIANTS CaughtUp NoEquivocation
PROPERTIES VotingRules Progress
CHECK_DEADLOCK FALSE
