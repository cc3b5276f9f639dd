CONSTANTS
    CHAIN_WINDOW_SIZE = 3
    CreatesAccount = {2, 4}
    MaxHeight = 5
    MaxQueue = 2
    MaxCrashes = 2
    MaxStarts = 3
SPECIFICATION Spec
INVARIANT PersistedIsOnDisk
INVARIANT WindowHasNoHoles
INVARIANT SecondStartSucceeds
INVARIANT CleanRestartRestores
CHECK_DEADLOCK FALSE
