CONSTANTS
    a = a
    b = b
    Client = {a, b}
    Proc = {"p", "q"}
    Kinds <- MCKinds
    MaxFaults = 1
    None = None
SPECIFICATION Spec
CHECK_DEADLOCK FALSE
INVARIANTS TypeOK KeyAgrees ExitClean
 
