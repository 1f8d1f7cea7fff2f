SPECIFICATION Spec
CONSTANTS
    p1 = p1
    p2 = p2
    d = d
    s = s
    i1 = i1
    NoPod = NoPod
    NoReport = NoReport
    NoImage = NoImage
    NoPlan = NoPlan
    Pods = {p1, p2}
    Workloads = {d, s}
    Owners <- Rollout
    Images = {i1}
    MaxPodChanges = 3
    MaxImageChanges = 3
    MaxFaults = 1
INVARIANTS ReportsMirror StatusMirrors
CHECK_DEADLOCK FALSE
