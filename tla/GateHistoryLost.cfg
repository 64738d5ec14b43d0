SPECIFICATION Spec
CONSTANTS
    Writers = {w1, w2}
    Remover = remover
    MaxChanges = 3
    StorageFails = TRUE
    Expires = FALSE
INVARIANT UpdateReachesHistory
CHECK_DEADLOCK FALSE
