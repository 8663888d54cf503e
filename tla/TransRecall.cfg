SPECIFICATION FairSpec
CONSTANTS
    e1 = e1
    e2 = e2
    f1 = f1
    f2 = f2
    t1 = t1
    Event = {e1, e2}
    Tape = {t1}
    FileOf <- Files
    TapeOf <- Tapes
    ToResident = {e2}
    MaxExecs = 2
    Stops = {"graceful", "forced"}
    MaxFaults = 1
    None = None
INVARIANTS
    AnsweredOnce
    NoEventLeftBehind
PROPERTIES
    EventsAnswered
CHECK_DEADLOCK FALSE
