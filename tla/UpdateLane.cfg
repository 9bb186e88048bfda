\* Both lanes, two releases of each product, one thing that goes wrong.
SPECIFICATION FairSpec
CONSTANTS
    FirstApp = 2
    MaxUos = 2
    MaxApp = 3
    MaxTrouble = 1
PROPERTIES
    PinsNeverGoBack
    CatchesUp
    WedgeIsReported
