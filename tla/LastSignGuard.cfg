CONSTANTS
    MaxHeight = 1
    MaxRound = 1
    Payload = {X, Y}
    NoBytes = NoBytes
    FailThenCrash = FALSE
SPECIFICATION Spec
INVARIANTS NoDoubleSign SignedIsOnDisk
PROPERTY SignsForward
CHECK_DEADLOCK FALSE
