SPECIFICATION FairSpec
CONSTANTS
    BufferSize = 2
    RewrittenSize = 2
    Endpoints = 2
    MaxBytes = 3
INVARIANTS TypeOK DeadlineArmed RelayUntimed StreamIntact NothingLostAtEof
PROPERTIES NoTrafficAfterEnd ImplementsTunnel NegotiationEnds ClosedIsFreed ImplementsTunnelFair
CHECK_DEADLOCK FALSE
