SPECIFICATION HostSpec
CONSTANTS
    r1 = r1
    r2 = r2
    r3 = r3
    Release = {r1, r2, r3}
    Operator = {o1, o2}
    NoRelease = NoRelease
    NoFile = NoFile
    NoOperator = NoOperator
    Continues <- MCContinues
    Faults = {"crash", "restart", "refuse"}
    MaxFaults = 3
INVARIANTS NamedIntact CrashTable HostCanGoOn BackIsWhole
PROPERTIES UrlContinuity AtomicSwitch Recovers ComesToRest
