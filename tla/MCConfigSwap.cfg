SPECIFICATION Spec
CONSTANTS
    Actions = {1, 2}
    Fields = {old, new}
    Params = {p, q}
    Workers = {w1}
    NoRow = norow
    MaxEdits = 1
    MaxFailures = 0
CHECK_DEADLOCK FALSE
PROPERTIES MissMeansAbsent
