SPECIFICATION Spec
CONSTANTS
    Files <- MCFiles
    Dotted <- MCDotted
    Text <- MCText
    TextsOf <- MCTextsOf
    Definition <- MCDefinition
    MaxJobs = 4
    MaxPasses = 1
    MaxCrashes = 1
INVARIANTS
    TypeOK
    HistoryTellsLive
    DanglingOnlyByLateMerge
    LikeRebuilt
PROPERTIES
    NeverLessCertain
CHECK_DEADLOCK FALSE
