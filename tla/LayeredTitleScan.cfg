CONSTANTS
    Inputs <- Cases
    Samples <- LayeredScanLines
    JunkBytes = {0, 65}
    MaxDeflines = 2
    StringTypes = {26}
    Indefinite = {TRUE}
    ExtraField = {"none"}
    Layered = {TRUE}
    Truncated = {TRUE}
SPECIFICATION Spec
INVARIANTS NoInventedFields
CHECK_DEADLOCK FALSE
