CONSTANTS
    Scenarios <- Programs
    Names <- EventNames
SPECIFICATION Spec
INVARIANTS BackupExcludesPrimary TimerLosesNothing NodesMatchSubscriptions OneScheduledCall
PROPERTY CallsAreDue
CHECK_DEADLOCK FALSE
