SPECIFICATION ReaderSpec
CONSTANTS
    Doc = {d1, d2}
    Listed = {d1}
    Thread = {t1, t2}
    MaxPulls = 1
    None = None
    Unknown = Unknown
    Failed = Failed
INVARIANT IndexIsComplete
