SPECIFICATION FairSpec
CONSTANTS
    Responses <- AllKinds
    MaxFds = 2
CHECK_DEADLOCK FALSE
INVARIANTS DescriptorsAccounted AllOrNothing ChunkNeverPadded
PROPERTIES FetchEnds
