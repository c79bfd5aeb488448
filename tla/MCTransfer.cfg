CONSTANTS
    None = None
    Ref = {r1, r2}
    r1 = r1
    r2 = r2
    MaxChanges = 3
    Worlds <- MCWorlds
    Stray <- MCStray
SPECIFICATION Spec
INVARIANTS TypeOK DocumentIsBound MeaningIsKept ExtractedLoads LoadedIsExact RecoveredIsTrue
SYMMETRY Symmetry
CHECK_DEADLOCK FALSE
