SPECIFICATION FairSpec
CONSTANTS
    BufferSize = 1
    RewrittenSize = 1
    Endpoints = 1
    MaxBytes = 1
PROPERTIES ConnectEnds
CHECK_DEADLOCK FALSE
