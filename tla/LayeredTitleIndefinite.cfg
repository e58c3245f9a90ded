CONSTANTS
    Inputs <- Cases
    Samples <- IndefTruncationLines
    JunkBytes = {0, 65}
    MaxDeflines = 2
    StringTypes = {19, 26}
    Indefinite = {TRUE}
    ExtraField = {"none"}
    Layered = {TRUE}
    Truncated = {FALSE}
SPECIFICATION Spec
INVARIANTS RoundTrip
CHECK_DEADLOCK FALSE
