CONSTANTS
    r1 = r1  r2 = r2  r3 = r3
    REF = {r1, r2}
    Order <- TwoNames
    TagName = {t1}
    Seal = {s1, s2}
    None = None
    MaxChanges = 3
SPECIFICATION ObservationSpec
INVARIANTS OneChangeIsSeen CoherentUnlessReturned
CHECK_DEADLOCK FALSE
