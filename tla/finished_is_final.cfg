SPECIFICATION Spec
CONSTANTS
    n1 = n1
    n2 = n2
    u1 = u1
    u2 = u2
    u3 = u3
    i1 = i1
    i2 = i2
    w1 = w1
    w2 = w2
    NoTask = NoTask
    NoJob = NoJob
    NoUID = NoUID
    NoImage = NoImage
    NoRec = NoRec
    Names = {n1}
    UIDs = {u1}
    NameOf <- OneName
    Images = {i1}
    Targeted = {}
    Targets = {"all"}
    Workers = {w1, w2}
    MaxDeliver = 2
    MaxCopies = 1
    HistoryLimit = 3
    InitialTags = {i1}
    MaxFaults = 1
    MaxChanges = 1
PROPERTIES FinishedIsFinal
CHECK_DEADLOCK FALSE
