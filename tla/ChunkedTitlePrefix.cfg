CONSTANTS
    Inputs <- Cases
    Samples <- TwoChunkTitleLines
    JunkBytes = {0, 65}
    MaxDeflines = 1
    StringTypes = {26}
    Indefinite = {TRUE}
    ExtraField = {"none"}
    Layered = {TRUE}
    Truncated = {FALSE}
SPECIFICATION Spec
INVARIANTS WholeTitles
CHECK_DEADLOCK FALSE
