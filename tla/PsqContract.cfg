CONSTANTS
    Radix = 128
    Samples <- ScenarioOne
    Cut <- NoRecords
    Patched <- NoRecords
    PsqFiles <- ScenarioPsq
SPECIFICATION Spec
PROPERTY PsqImplementsContract
CHECK_DEADLOCK FALSE
