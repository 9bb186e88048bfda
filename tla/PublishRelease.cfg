\* Two runs at a time, of three releases that arrive in any order.
SPECIFICATION Spec
CONSTANTS
    amd64 = amd64
    arm64 = arm64
    Arches <- Two
    Builds <- ThreeBuilds
    LastVariant = 2
    AtOnce = 2
    MaxTags = 2
    MaxEvents = 3
SYMMETRY Swap
PROPERTIES
    StitchesItsOwn
    NothingSeenIsPassedBack
    GreenMeansPublished
CHECK_DEADLOCK FALSE
