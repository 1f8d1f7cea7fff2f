SPECIFICATION Spec
CONSTANTS
    Nodes = {n1}
    UIDs = {1, 2, 3}
    Names = {0, 3}
    GivenNames = {0}
    NameOf <- TwiceGiven
    NodeOf <- OneNode
    MaxConfigs = 2
    Courses <- ThreeCourses
    MaxDeliver = 1
    MaxCopies = 1
    HistoryLimit = 1
    NoTask = NoTask
    NoJob = NoJob
    NoConfig = NoConfig
    NoRec = NoRec
INVARIANTS NoNodeJobLeftBehind CompleteMeansReported  OwnedBeforeMessage Inv
CHECK_DEADLOCK FALSE
