SPECIFICATION ToolsSpec
CONSTANTS
    Rows <- MCRows
    Key <- MCKey
    Target <- MCTarget
    Targets <- MCTargets
    Limit = 2
    MaxWrites = 2
    Ids <- MCIds
    Relations <- MCRelations
    Requests <- MCRequests
    MaxCommits = 1
    Modules <- MCModules
    DottedName <- MCDottedName
    ImportNames <- MCImportNames
    Roots <- MCRoots
INVARIANTS
    StayersDelivered
    EarlierPagesPinned
    CompleteUnlessTruncated
    TruncatedMeansCut
    NearestKept
    CyclesAreComponents
PROPERTIES
    DeliversOnward
CHECK_DEADLOCK FALSE
