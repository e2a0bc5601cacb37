SPECIFICATION MCSpec
CONSTANTS
    p1 = p1
    d1 = d1
    d2 = d2
    t1 = t1
    t2 = t2
    Doc = {d1, d2}
    Text = {t1, t2}
    Rendering <- MCRendering
    MaxFaults = 2
    Moment = {m1}
    Process = {p1, p2}
    IndexFile = IndexFile
    ManifestFile = ManifestFile
    NoFile = NoFile
    Unlisted = Unlisted
    Never = Never
    NoJournal = NoJournal
    NoDecision = NoDecision
    Free = Free
    Stale = Stale
INVARIANTS SettledIsSound Recoverable Audited ServedAtOnce
PROPERTIES LapsedIsNotCompleted OneChangeAtATime TakedownHappens
