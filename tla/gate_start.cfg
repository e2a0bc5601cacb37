SPECIFICATION EpochSpec
CONSTANTS
    MaxVersion = 2
    MaxTime = 5
    MaxStates = 3
    Histories <- MCHistories
INVARIANT StartCanBeRecorded
