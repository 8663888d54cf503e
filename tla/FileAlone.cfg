SPECIFICATION FairSpec
CONSTANTS
    a1 = a1
    a2 = a2
    h1 = h1
    Tape = {t1}
    App = {a1}
    AppHandle <- SameHandle
    AppOps = {"read", "write", "ftruncate", "ftruncate0", "truncate", "truncate0"}
    Stater = {s1}
    Sel = Sel
    Size <- GrowingSize
    Empty = Empty
    Partial = Partial
    None = None
    Target = {"PREMIGRATED", "MIGRATED"}
    Overlap = {}
    MaxChanges = 2
    MaxRequests = 2
    MaxRestarts = 2
INVARIANTS
    TypeOK
    
    

    
    
CHECK_DEADLOCK FALSE
