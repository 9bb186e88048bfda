\* The network-sim image: Docker for ever and one poll of the endpoint share /tmp.
SPECIFICATION FairSpec
CONSTANTS
    docker = docker
    readyz = readyz
    Probers = {docker, readyz}
    Killable = {docker}
    Pollers = {readyz}
    NeedsKey <- NoKeys
    Expects <- TwoDemo
    RightCreds <- GoodCreds
    KeySeeded = FALSE
    Fleet = 2
    TmpWritable = TRUE
    Burst = 2
    MaxLogins = 0
    MaxFaults = 1
    MaxBoots = 1
    MaxPolls = 1
INVARIANTS
    HealthyIsEarned
PROPERTIES
    ImplementsLatch
    DeadSessionHeals
    EventuallyHealthy
