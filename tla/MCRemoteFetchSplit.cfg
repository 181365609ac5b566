SPECIFICATION Spec
CONSTANTS
    Responses <- OneChunk
    MaxFds = 1
CHECK_DEADLOCK FALSE
PROPERTIES WholeAnswerAccepted
