SPECIFICATION FairSpec
CONSTANTS
    c1 = c1
    c2 = c2
    Client = {c1, c2}
    Tape = {t1}
    Pool = {p1, p2}
    Modes <- FormatAndAll
    Drives = 1
    MaxCommands = 2
    MaxRestarts = 1
    MaxMoves = 1
    None = None
INVARIANTS
    TypeOK
    
PROPERTIES
    
    AddEnds
CHECK_DEADLOCK FALSE
