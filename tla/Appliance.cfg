\* No one but the program mounts the disk.  The system rests once the process has exited.
SPECIFICATION FairSpec
CONSTANTS
    Automount = FALSE
    MaxTries = 2
    MaxInserts = 2
    MaxCrashes = 1
INVARIANTS
    TypeOK
    ReleasedAtExit
PROPERTIES
    SafeToRemove
    NoEjectUnderCapture
    StopEnds
CHECK_DEADLOCK FALSE
