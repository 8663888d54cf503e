SPECIFICATION FairSpec
CONSTANTS
    c1 = c1
    c2 = c2
    f1 = f1
    f2 = f2
    Client = {c1, c2}
    File = {f1, f2}
    Kind <- MigAndRec
    FilesOf <- Mixed
    InitStates <- OneOfEach
    MaxFaults = 0
    MayStop = FALSE
    None = None
PROPERTY JobsProcessed
CHECK_DEADLOCK FALSE
