\* Four boots on one volume, an operator who revokes a key and a file that
\* cannot be read.
SPECIFICATION FairSpec
CONSTANTS
    k1 = k1
    k2 = k2
    k3 = k3
    k4 = k4
    Keys = {k1, k2, k3, k4}
    NoKey = NoKey
    SeedApiKey = TRUE
    ApiAttempts = 2
    SetupAttempts = 2
    CheckAttempts = 2
    OwnerAttempts = 2
    MaxBoots = 3
    MaxRevoked = 1
    MaxMisreads = 2
INVARIANTS
    PublishedKeyWorked
    SuccessIsReal
    KeysAccounted
PROPERTIES
    MintsOnlyWithout
    SeedEnds
CHECK_DEADLOCK FALSE
