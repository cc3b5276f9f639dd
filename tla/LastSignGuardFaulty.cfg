CONSTANTS
    MaxHeight = 1
    MaxRound = 1
    Payload = {X, Y}
    NoBytes = NoBytes
    FailThenCrash = TRUE
SPECIFICATION Spec
INVARIANT NoDoubleSign
CHECK_DEADLOCK FALSE
