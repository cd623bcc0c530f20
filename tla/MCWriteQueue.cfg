SPECIFICATION Spec
CONSTANTS
    r1 = r1
    r2 = r2
    index = index
    edit = edit
    ready = ready
    remote = remote
    NoJob = NoJob
    Stop = Stop
    Repos = {r1, r2}
    Jobs = {index, edit, ready, remote}
    RepoOf <- MCRepoOf
    Parent <- MCParent
INVARIANTS
    InFlightExact
    UntimedCloseStrandsNothing
    OneWriterOneJob
PROPERTIES
    EverySubmitAnswered
    CloseAlwaysReturns
    ImplementsSerialJobs
