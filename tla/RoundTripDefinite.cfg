CONSTANTS
    Inputs <- Cases
    Samples <- WellFormedLines
    JunkBytes = {0, 65}
    MaxDeflines = 2
    StringTypes = {19, 26}
    Indefinite = {FALSE}
    ExtraField = {"none", "integer"}
    Layered = {FALSE}
    Truncated = {FALSE}
SPECIFICATION Spec
INVARIANTS TypeOK RoundTrip
CHECK_DEADLOCK FALSE
