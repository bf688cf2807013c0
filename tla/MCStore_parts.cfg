SPECIFICATION Spec
CONSTANTS
    MaxChanges = 2
    MaxInbox = 2
INVARIANTS
    Mirror
    ListenersFollow
    NoGhosts
PROPERTIES
    OnlyAskedChanges
CHECK_DEADLOCK FALSE
