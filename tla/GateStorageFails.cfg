SPECIFICATION FairSpec
CONSTANTS
    Writers = {w1, w2}
    Remover = remover
    MaxChanges = 2
    StorageFails = TRUE
    Expires = TRUE
INVARIANTS
    OkMeansStored
    EntryKeepsStored
PROPERTIES
    StoredNeverGoesBack
    NeverRecreated
    TasksEnd
CHECK_DEADLOCK FALSE
