\* Does the pedal spare a displayed capture failure?
SPECIFICATION Spec
CONSTANTS
    DrainLimit = 2
    MaxCommands = 5
PROPERTY PedalSparesFailures
CHECK_DEADLOCK FALSE
