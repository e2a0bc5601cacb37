SPECIFICATION HostedSpec
CONSTANTS
    Threshold = 1
    Ceiling <- MCCeiling
    Credential = {c1, c2}
    Query = {q1}
    Worker = {w1, w2, w3}
    LimitChoice <- MCLimits
    CacheEntries = 1
    Days = 2
    NoLimits = NoLimits
    NoQuery = NoQuery
    Id = {i1, i2}
    Torn = Torn
    MaxCommands = 3
INVARIANTS CountersAreTrue OnePaidCall WaitersAreLed RevocationApplies
SYMMETRY Symmetry
