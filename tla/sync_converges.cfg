SPECIFICATION SyncSpec
CONSTANTS
    RefDate <- MCThreeDates
    Doc <- MCDoc
    Version <- MCVersion
    Notice <- MCNotice
    Absent = "absent"
    BaseSlug <- MCNewSlug
    Renderer <- MCRenderer
    Parser <- MCParser
    Rendering <- MCRendering
    Failure = 0
    Published <- MCBoth
    Listings <- MCAny
    GuardMin = 20
    MaxRemoval = 10
    Sibling <- MCSibling
    Preferred <- MCPreferred
    Owned <- MCOwned
    Unasked = Unasked
    Setups <- MCSingleOrKept
INVARIANT FilesAreOwned
PROPERTIES Converges Settles
CHECK_DEADLOCK FALSE
