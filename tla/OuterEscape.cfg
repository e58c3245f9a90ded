CONSTANTS
    Inputs <- Cases
    Samples <- IndefTruncationLines
    JunkBytes = {0, 65}
    MaxDeflines = 2
    StringTypes = {26}
    Indefinite = {FALSE}
    ExtraField = {"none"}
    Layered = {FALSE}
    Truncated = {TRUE}
SPECIFICATION Spec
INVARIANTS NoEscape
CHECK_DEADLOCK FALSE
