SPECIFICATION HubSpec
CONSTANTS
    Client = {c1, c2}
    Nobody = nobody
    Setting <- Settings
    BufferSize = 1
    MaxMessages = 2
    MaxChanges = 2
INVARIANT NeverPanics
INVARIANT InOrder
PROPERTY NothingLeaks
CHECK_DEADLOCK FALSE
