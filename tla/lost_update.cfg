SPECIFICATION Spec
CONSTANTS
    r1 = r1
    k1 = k1
    c1 = c1
    c2 = c2
    p1 = p1
    i1 = i1
    NoObject = NoObject
    NoEvent = NoEvent
    Reports = {}
    Workloads = {k1}
    Clients = {c1, c2}
    Replicas = {p1}
    Informers = {i1}
    Existing <- Empty
    MaxVersion = 3
    MaxFaults = 0
    MaxBus = 2
SYMMETRY ClientSymmetry
PROPERTIES NoLostUpdate
CHECK_DEADLOCK FALSE
