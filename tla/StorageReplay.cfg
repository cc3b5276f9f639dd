CONSTANTS
    CHAIN_WINDOW_SIZE = 3
    CreatesAccount = {2, 4}
    MaxHeight = 5
    MaxQueue = 2
    MaxCrashes = 2
    MaxStarts = 3
SPECIFICATION Spec
INVARIANT RestartReplays
CHECK_DEADLOCK FALSE
