\* The unifi-os-server:seeded image without its endpoint: Docker alone.
SPECIFICATION Spec
CONSTANTS
    docker = docker
    readyz = readyz
    Probers = {docker}
    Killable = {docker}
    Pollers = {}
    NeedsKey <- AllKeys
    Expects <- NoFleet
    RightCreds <- GoodCreds
    KeySeeded = TRUE
    Fleet = 0
    TmpWritable = TRUE
    Burst = 3
    MaxLogins = 6
    MaxFaults = 3
    MaxBoots = 1
    MaxPolls = 0
INVARIANTS
    LoginsAccounted
PROPERTIES
    HealthyHolds
