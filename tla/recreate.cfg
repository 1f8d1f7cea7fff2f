SPECIFICATION Spec
CONSTANTS
    n1 = n1
    n2 = n2
    u1 = u1
    u2 = u2
    u3 = u3
    i1 = i1
    i2 = i2
    w1 = w1
    w2 = w2
    NoTask = NoTask
    NoJob = NoJob
    NoUID = NoUID
    NoImage = NoImage
    NoRec = NoRec
    Names = {n1, n2}
    UIDs = {u1, u2, u3}
    NameOf <- Reused
    Images = {i1}
    Targeted = {i1}
    Targets = {"all"}
    Workers = {w1}
    MaxDeliver = 1
    MaxCopies = 1
    HistoryLimit = 1
    InitialTags = {i1}
    MaxFaults = 0
    MaxChanges = 3
INVARIANTS SnapshotBeforeMessage NoJobLeftBehind
CHECK_DEADLOCK FALSE
CONSTRAINT Separately
