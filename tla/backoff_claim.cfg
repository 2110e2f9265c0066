CONSTANTS
    Wrap = 16
    Steps <- MCSteps
    Parts = 2
    Percent = 1
    MaxBlock = 3
    MaxGap = 3
    Days = 800
    Numbers = {0, 1, 9}
    MaxLen = 4
SPECIFICATION Spec
INVARIANTS
    WaitsAfterFailure
CHECK_DEADLOCK FALSE
