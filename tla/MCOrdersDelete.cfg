SPECIFICATION Spec
CONSTANTS
    Workers = {w1, w2}
    Subs = {1, 2}
    Units <- OneUnit
    MaxFaults = 0
    MaxServed = 2
PROPERTIES OnlyOwnOrderRemoved
