SPECIFICATION FairSpec
CONSTANTS
    RefDate <- MCRefDate
    Doc <- MCDoc
    Version <- MCVersion
    Notice <- MCNotice
    Absent = "absent"
    BaseSlug <- MCBaseSlug
    Renderer <- MCRenderer
    Parser <- MCParser
    Rendering <- MCRendering
    Failure = 0
    Published <- MCBoth
    Listings <- MCAny
    GuardMin = 20
    MaxRemoval = 10
    Setups <- MCEditedKept
PROPERTY ResidueHeals
