SPECIFICATION Spec
CONSTANTS
    BufferSize = 1
    RewrittenSize = 1
    Endpoints = 2
    MaxBytes = 2
INVARIANTS EndClosesSockets
CHECK_DEADLOCK FALSE
