\* Two pairs, and any number of operations, failures and restarts.
SPECIFICATION FairSpec
CONSTANTS
    Cameras = {left, right}
    MaxPage = 2
INVARIANTS
    TypeOK
    RescanIsLatest
    LockedWhileScanning
PROPERTIES
    RecoverConcludes
    ImplementsWorkflow
