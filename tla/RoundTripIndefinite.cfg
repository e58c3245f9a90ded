CONSTANTS
    Inputs <- Cases
    Samples <- WellFormedLines
    JunkBytes = {0, 65}
    MaxDeflines = 2
    StringTypes = {19, 26}
    Indefinite = {TRUE}
    ExtraField = {"none"}
    Layered = {FALSE}
    Truncated = {FALSE}
SPECIFICATION Spec
INVARIANTS RoundTrip
CHECK_DEADLOCK FALSE
