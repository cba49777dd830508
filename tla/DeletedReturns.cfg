SPECIFICATION Spec
CONSTANTS
    Handles = {h1}
    Autosave = {h1}
    MaxTurns = 3
    MaxRecords = 2
    MaxRevision = 2
    MaxCancels = 1
CHECK_DEADLOCK FALSE
INVARIANT DeletedStaysGone
