CONSTANTS
    Seal = {1, 2, 3, 4, 5, 6}
    Stored <- MCStored
    HeadMaps <- MCHeadMaps
    Scopes = {{}, {5}, {4, 6}}
    Limits = {1, 2}
    Budgets = {5, 20, 27, 60}
SPECIFICATION Spec
INVARIANTS ImpactIsExact HistoryIsExact ReasonsAreExact SummaryIsExact
CHECK_DEADLOCK FALSE
