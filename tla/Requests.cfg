SPECIFICATION FairSpec
CONSTANTS
    c1 = c1
    c2 = c2
    f1 = f1
    f2 = f2
    Client = {c1, c2}
    File = {f1, f2}
    Kind <- MigAndRec
    FilesOf <- Shared
    InitStates <- AnyFirst
    MaxFaults = 1
    MayStop = TRUE
    None = None
INVARIANTS
    TypeOK
    NoJobLeftOver
    StatusAgrees
    EntriesThere
PROPERTIES
    
    SessionsEnd
CHECK_DEADLOCK FALSE
