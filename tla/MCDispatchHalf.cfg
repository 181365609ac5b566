SPECIFICATION FairSpec
CONSTANTS
    NumWorkers = 1
    Fds = {f1}
    Tasks = {t1}
    EVENT = 2
    MaxBacklog = 1
    Listen = listen
    NoFd = nofd
    NoTask = notask
PROPERTIES HalfClosedReleased
