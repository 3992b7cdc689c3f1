SPECIFICATION Spec
CONSTANTS
    s1 = s1
    s2 = s2
    s3 = s3
    s4 = s4
    w1 = w1
    Main = Main
    NoSession = NoSession
    Sessions = {s1, s2, s3, s4}
    Workers = {w1}
    MaxConnections = 2
    MaxThrows = 2
    StopMayThrow = TRUE
    EndMayThrow = TRUE
SYMMETRY Symmetry
INVARIANTS TypeOK ActiveBounded AcceptLoopAlive NoThreadLost ExitHonest
PROPERTIES IterationStable
CHECK_DEADLOCK FALSE
