SPECIFICATION FairSpec
CONSTANTS
    NumWorkers = 1
    Fds = {f1, f2}
    Tasks = {t1, t2}
    EVENT = 3
    MaxBacklog = 1
    Listen = listen
    NoFd = nofd
    NoTask = notask
PROPERTIES RequestsTakenUp ResetPeersReleased
