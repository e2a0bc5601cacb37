SPECIFICATION RecordsSpec
CONSTANTS
    Authority = {1, 2}
    Id = {i}
    Route <- MCRoute
    NoRoute = NoRoute
    NoCommand = NoCommand
    NoOutcome = NoOutcome
    WaveSize = 2
    Limit = 2
    MaxTurns = 3
    Starts <- MCStarts
    Text <- MCText
    Look <- MCLook
    None = None
    FileOrders <- MCOrders
    Histories <- MCHistories
    MaxExtractor = 2
    MaxEvents = 4
INVARIANTS NoLetterTwice CommittedIsTold
PROPERTIES AnswersStay EveryoneIsAsked WithdrawnStaysOut
CHECK_DEADLOCK FALSE
