CONSTANTS
    Proc = {p1, p2}
    Ref = {r1}
    Contents <- MCContents
    TraceInputs <- MCTraces
    Notes = {n1}
    None = None
    MaxSeals = 2
    MaxLosses = 1
SPECIFICATION Spec
INVARIANTS OriginsHold FsckAccepts ReportedStays
PROPERTIES OriginNeverDropped ConfigNeverFalls
SYMMETRY Processes
