SPECIFICATION FairSpec
CONSTANTS
    Actions = {1, 2}
    Fields = {old, new}
    Params = {p, q}
    Workers = {w1}
    NoRow = norow
    MaxEdits = 1
    MaxFailures = 3
CHECK_DEADLOCK FALSE
INVARIANTS TypeOK EntriesWereRows SteadyActionsRoutable CrashNeedsTwoFailures
PROPERTIES FieldsConverge
