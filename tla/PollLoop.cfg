SPECIFICATION Spec
CONSTANTS
    Feed <- MCFeed
    LastDay = 2
    PageSize = 1
    MaxPages = 2
    Scripts <- MCScripts
    MaxFaults = 2
INVARIANTS
    SeenIsSaved
    PassedMeansAll
PROPERTY
    PaymentsReach
