SPECIFICATION Spec
CONSTANTS
    c1 = c1
    c2 = c2
    Client = {c1, c2}
    Tape = {t1}
    Pool = {p1, p2}
    Modes <- Handlers
    Drives = 1
    MaxCommands = 2
    MaxRestarts = 0
    MaxMoves = 0
    None = None
INVARIANT ToldTruth
CHECK_DEADLOCK FALSE
