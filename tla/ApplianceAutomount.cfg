\* Is the disk safe to remove where the desktop mounts a disk that is put in again?
SPECIFICATION Spec
CONSTANTS
    Automount = TRUE
    MaxTries = 1
    MaxInserts = 1
    MaxCrashes = 0
PROPERTY SafeToRemove
CHECK_DEADLOCK FALSE
