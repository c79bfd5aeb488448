CONSTANTS
    Proc = {p1, p2}
    REF = {r1, r2}
    TagName = {}
    Seal = {s1}
    None = None
    MaxRecords = 1
    MaxCrashes = 1
SPECIFICATION Spec
PROPERTIES GuardReleased
