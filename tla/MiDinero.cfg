SPECIFICATION ScrapeSpec
CONSTANTS
    Feed <- MCFeed
    Personal <- MCPersonal
    Versions <- MCVersions
    MaxClicks = 2
    MaxAccountSelectionAttempts = 2
    MaxResponses = 2
    None = None
INVARIANTS
    NoSilentGap
PROPERTY
    StoredAsPaid
