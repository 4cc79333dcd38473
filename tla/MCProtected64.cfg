CONSTANTS
    B = 128
    Canon = 16777216
    MaxSteps = 3
    Starts <- MCStarts
SPECIFICATION Spec
INVARIANT ReturnsExactly
PROPERTY FaultTransparent
PROPERTY PrivilegeGuarded
CHECK_DEADLOCK FALSE
