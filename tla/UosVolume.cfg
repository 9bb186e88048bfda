\* Two stops inside a boot, a swallowed error and a new container.
SPECIFICATION FairSpec
CONSTANTS
    e1 = e1
    e2 = e2
    u1 = u1
    u2 = u2
    Entries = {e1, e2}
    NoEntry = NoEntry
    Uuids = {u1, u2}
    NoUuid = NoUuid
    EmptyUuid = EmptyUuid
    MaxCrashes = 2
    MaxErrors = 1
    MaxNew = 1
INVARIANTS
    CleanBootsAreWhole
    NothingVanishes
PROPERTIES
    VolumeWins
    UuidStays
    BootsInTheEnd
