SPECIFICATION FairSpec
CONSTANTS
    s1 = s1
    s2 = s2
    s3 = s3
    w1 = w1
    Main = Main
    NoSession = NoSession
    Sessions = {s1, s2, s3}
    Workers = {w1}
    MaxConnections = 1
    MaxThrows = 1
    StopMayThrow = FALSE
    EndMayThrow = FALSE
PROPERTIES SlotReclaimed AcceptResumes
CHECK_DEADLOCK FALSE
