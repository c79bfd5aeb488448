CONSTANTS
    p1 = p1  p2 = p2  d1 = d1  d2 = d2
    Proc = {p1, p2}
    Doc = {d1, d2}
    None = None
SPECIFICATION Spec
INVARIANTS WholeOrAbsent PromisedStays InitLeavesOpenable
SYMMETRY Symmetry
