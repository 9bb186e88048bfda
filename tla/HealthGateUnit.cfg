\* The unifi-os-server:seeded image: the readyz unit does not see UOS_SEED_API_KEY.
SPECIFICATION Spec
CONSTANTS
    docker = docker
    readyz = readyz
    Probers = {docker, readyz}
    Killable = {}
    Pollers = {}
    NeedsKey <- UnitKeys
    Expects <- NoFleet
    RightCreds <- GoodCreds
    KeySeeded = TRUE
    Fleet = 0
    TmpWritable = TRUE
    Burst = 2
    MaxLogins = 3
    MaxFaults = 0
    MaxBoots = 0
    MaxPolls = 0
INVARIANTS
    HealthyIsEarned
