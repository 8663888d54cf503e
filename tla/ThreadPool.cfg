SPECIFICATION FairSpec
CONSTANTS
    r1 = r1
    r2 = r2
    Request = {r1, r2}
    MaxTasks = 2
    NumThrds = 2
    None = None
INVARIANTS
    NoThreadOutlivesPool
PROPERTIES
    
    EnqueueReturns
    DestructorReturns
CHECK_DEADLOCK FALSE
