SPECIFICATION NightSpec
CONSTANTS
    RefDate <- MCRefDate
    Doc <- MCDoc
    Version <- MCVersion
    Notice <- MCNotice
    Absent = "absent"
    BaseSlug <- MCBaseSlug
    Renderer <- MCRenderer
    Parser <- MCParser
    Rendering <- MCRendering
    Failure = 0
    Published <- MCEvery
    Listings <- MCAny
    GuardMin = 2
    MaxRemoval = 50
    Setups <- MCNightly
    Space = {"s1", "s2"}
    None = None
    Corrupt = Corrupt
    Sections <- MCSections
    ReembedMin = 2
    MaxFraction = 50
    MaxTokens = 3
    Beginnings <- MCBeginnings
    FirstListings <- MCFirstListings
    MaxEdits = 2
    MaxVersion = 2
    MaxTime = 5
    MaxStates = 3
    Histories <- MCHistories
INVARIANTS AuditFindsNothingNew PublishedPagesAreTrue SidecarsAreTrue UnattestedIsPreGate
PROPERTIES PushedIsAttested PushesDoNoHarm RecordsStand
