\* The ladder with its own times, docker stop and one more signal, anywhere.
SPECIFICATION FairSpec
CONSTANTS
    Budget = 8
    GracefulWait = 3
    DbWait = 3
    KillGrace = 1
    DockerGrace = 10
    MaxIdle = 2
    MaxSignals = 1
INVARIANTS
    FitsDockerGrace
    DbGetsItsWait
    StatusIsReal
    NothingRestartsIt
PROPERTIES
    StopsForGood
CHECK_DEADLOCK FALSE
