CONSTANTS
    MaxLength = 4
    Byte = {0, 1}
    Texts <- MCTexts
    Declarations <- MCDeclarations
    PageLimits = {1, 2, 3}
SPECIFICATION TracesSpec
INVARIANTS SearchIsExact EstimateIsExact PagesAreExact
CHECK_DEADLOCK FALSE
