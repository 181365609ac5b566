SPECIFICATION Spec
CONSTANTS
    NumWorkers = 2
    Fds = {f1, f2}
    Tasks = {t1, t2}
    EVENT = 2
    MaxBacklog = 1
    Listen = listen
    NoFd = nofd
    NoTask = notask
SYMMETRY Interchangeable
INVARIANTS TypeOK OnePlace NoDanglingTask LookupNeverFails NoLostWakeup
PROPERTIES CloseOnlyUnheld ImplementsConnLife
