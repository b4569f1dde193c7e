CONSTANTS
    p1 = p1
    p2 = p2
    one = one
    both = both
    reordered = reordered
    none = none
    polars = polars
    numpy = numpy
    Absent = Absent
    NoMetadata = NoMetadata
    Processes = {p1, p2}
    Packages = {polars, numpy}
    Requires <- MCRequires
    InitialTargets <- MCInitialTargets
    Configurations = {one, both, reordered, none}
    RenameErrors = {"OSError"}
    MaxStarts = 2
SPECIFICATION Spec
PROPERTIES LoserReuses
CHECK_DEADLOCK FALSE
