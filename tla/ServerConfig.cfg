SPECIFICATION Spec
CONSTANTS
    Hosts = {0, 1, 255, 256}
    Texts = {0, 128, 129, 255, 256, 4096, 4097}
    Numbers <- MCNumbers
    Files <- MCFiles
    MaxOptions = 2
INVARIANT AcceptedIsUsable
CHECK_DEADLOCK FALSE
