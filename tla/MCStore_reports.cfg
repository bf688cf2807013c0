SPECIFICATION Spec
CONSTANTS
    MaxChanges = 1
    MaxInbox = 1
INVARIANTS
    EveryChangeIsReported
CHECK_DEADLOCK FALSE
