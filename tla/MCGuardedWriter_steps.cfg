CONSTANTS
    Proc = {p1, p2}
    REF = {r1, r2}
    TagName = {t1}
    Seal = {s1, s2}
    None = None
    MaxRecords = 2
    MaxCrashes = 1
SPECIFICATION Spec
INVARIANTS InspectionIsExact ExpectationStable NothingLeftBehind
PROPERTIES NamespaceSpec
SYMMETRY Symmetry
