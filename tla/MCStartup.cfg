CONSTANTS
    Writers = {"main", "worker"}
    MaxDay = 1
    MaxLogFaults = 1
    ConfigFiles <- TheFiles
    MaxThreads = 3
    MaxQueue = 2
SPECIFICATION Spec
CONSTRAINT OnePartAtATime
CHECK_DEADLOCK FALSE
INVARIANTS StaleNeedsMove LinesInTheirDay MissingDirSurvived
PROPERTIES StartEnds TasksTaken
