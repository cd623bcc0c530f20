SPECIFICATION Spec
CONSTANTS
    t1 = t1
    t2 = t2
    caller = caller
    callee = callee
    Threads = {t1, t2}
    Migration = Migration
    WalkOrder <- MCWalkOrder
    DependsOn <- MCDependsOn
    Fragile = {callee}
    MaxRestarts = 1
INVARIANTS
    TypeOK
    OneBootstrapAtATime
    MarkersNeverAhead
    ReadyAfterTwoPasses
PROPERTIES
    BootstrapEnds
