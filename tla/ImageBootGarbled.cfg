\* On UniFi OS a hand-made file may not parse either.
SPECIFICATION Spec
CONSTANTS
    Images <- FourImages
    Containers <- SomeContainers
    HandFiles <- EditedFiles
    Garbles = {"network", "uos"}
    MaxStops = 0
    MaxFails = 0
    MaxEdits = 1
INVARIANTS
    LastWordStands
