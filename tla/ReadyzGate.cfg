\* The endpoint of the sim and seeded images: the probe is a marker_gate.
SPECIFICATION FairThreads
CONSTANTS
    c1 = c1
    c2 = c2
    c3 = c3
    NoOne = NoOne
    Callers = {c1, c2, c3}
    Interval = 2
    MaxClock = 3
    Latched = TRUE
INVARIANTS
    OneProbe
    ProbeBudget
    NoRegress
PROPERTIES
    OnlyTheProberWaits
    LockComesBack
