SPECIFICATION Spec
CONSTANTS
    Images = {i1, i2, i3}
    MaxId = 3
    NoLabel = NoLabel
    NoLabels = NoLabels
    NoList = NoList
SYMMETRY ImageSymmetry
INVARIANTS TypeOK PagesExact StatusExact ReadsInv
CHECK_DEADLOCK FALSE
