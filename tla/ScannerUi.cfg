\* With and without a pedal that interrupts the UI thread anywhere.
SPECIFICATION FairSpec
CONSTANTS
    DrainLimit = 2
    MaxCommands = 5
INVARIANTS
    TypeOK
    OneOperation
    NothingRunsAfterStop
    ScreenIsCurrent
    FailureIsShown
PROPERTY ControlsReturn
CHECK_DEADLOCK FALSE
