\* Both entrypoints; on the network image a hand-made file may not parse.
SPECIFICATION Spec
CONSTANTS
    Images <- FourImages
    Containers <- SomeContainers
    HandFiles <- EditedFiles
    Garbles = {"network"}
    MaxStops = 1
    MaxFails = 2
    MaxEdits = 2
INVARIANTS
    LastWordStands
    UnitsMatchTheEnvironment
    HooksComeFirst
