SPECIFICATION Spec
CONSTANTS
    short = short
    brief = brief
    long = long
    NumClusters = 6
    ClusterSize = 2
    RootSize = 7
    Names <- MCNames
    LfnCount <- MCLfnCount
    Offsets = {0, 3}
    WriteLens = {2}
    TruncLens = {0}
    MaxCuts = 1
SYMMETRY NameSymmetry
INVARIANTS NoCrossLinks WrittenStays DirectoriesList
