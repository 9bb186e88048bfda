\* Two jobs at once, with a fault, a job run again and a rebuild by hand at any
\* moment.
SPECIFICATION FairSpec
CONSTANTS
    network = network
    unifi_os = unifi_os
    Products = {network, unifi_os}
    Rank <- ByName
    Tracked = {unifi_os}
    MaxUp = 2
    MaxApp = 2
    Runners = 2
    MaxPushes = 3
    MaxFaults = 1
    MaxReruns = 1
    MaxRebuilds = 1
INVARIANTS
    DoneMeansReleased
    NoBuildTwice
    CutsCanPublish
PROPERTIES
    TagsNeverMove
    PinnedIsReleased
CHECK_DEADLOCK FALSE
