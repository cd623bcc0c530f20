CONSTANTS
    repo = repo
    Repos = {repo}
    Quiet = 1
    MaxWait = 2
    ServerFails = TRUE
    MaxEdits = 2
    MaxRestarts = 1
SPECIFICATION Spec
INVARIANTS
    OnePassAtATime
    NoEditForgotten
PROPERTIES
    EditsReachAPass
    WindowClosesOnTime
    ImplementsCoalescedPasses
CHECK_DEADLOCK TRUE
