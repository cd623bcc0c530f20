SPECIFICATION Spec
CONSTANTS
    Rows <- MCRows
    Key <- MCKey
    Target <- MCTarget
    Targets <- MCTargets
    Limit = 2
    MaxWrites = 2
INVARIANT NothingSkipped
CHECK_DEADLOCK FALSE
