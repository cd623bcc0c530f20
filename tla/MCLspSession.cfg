SPECIFICATION Spec
CONSTANTS
    Users = {1, 2}
    Procs = {p1, p2}
    None = None
    MaxSites <- Worklists
    PipeSize = 1
INVARIANTS
    SessionTypeOK
    OneManagedChild
    EntriesExpire
    NothingLeftBehind
PROPERTIES
    EveryPassEnds
    ChildrenEndAfterClose
