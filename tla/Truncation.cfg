CONSTANTS
    Inputs <- TruncationCases
    Samples <- TruncationLines
    JunkBytes = {0, 65}
    MaxDeflines = 2
    StringTypes = {26}
    Indefinite = {FALSE, TRUE}
    ExtraField = {"none"}
    Layered = {FALSE}
    Truncated = {TRUE}
SPECIFICATION Spec
INVARIANTS KeepsWholeLines NoInventedFields
CHECK_DEADLOCK FALSE
