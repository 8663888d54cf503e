SPECIFICATION Spec
CONSTANTS
    Fs = {f, g}
    Adder = {"a"}
    Uuid <- MCUuid
    NoFs = NoFs
    MaxFaults = 2
INVARIANTS
    TypeOK
    ManagedOrGone

    
    
