SPECIFICATION Spec
CONSTANTS
    d1 = d1
    d2 = d2
    c1 = c1
    c2 = c2
    c3 = c3
    mig = mig
    sel = sel
    tra = tra
    fmt = fmt
    kmig = kmig
    ksel = ksel
    ktra = ktra
    kfmt = kfmt
    NoDrive = NoDrive
    NoCart = NoCart
    NoKey = NoKey
    Key = {kmig, ksel, ktra, kfmt}
    RowOp <- MCOp
    RowKey <- MCKey
    Drive = {d1}
    Cart = {c1, c2}
    Row = {mig, sel, tra}
    RowTape <- SharedTape
    RowPool <- OneTapePool
    MaxAdds <- RecallTwice
    MaxMovers = 2
    MaxFaults <- OneLibraryFault
INVARIANTS
    TapeExclusive
    NoAbort
    MoveReqHasMover
    NoLostWakeUp
PROPERTY NoMoveWhileInUse
